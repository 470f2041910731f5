--------------------------- MODULE MobileApiProofs ---------------------------
(***************************************************************************)
(* Theorems about MobileApi for every set of calls and of sockets, every   *)
(* batch and every capacity.  ApiInv is the invariant they rest on.  That  *)
(* answers match needs to know what a call that waits has in the queue:    *)
(* at most one command, the one after the answers it has, and none once    *)
(* its future is done.  That the book never goes back needs to know what   *)
(* the two places a frame can be in hold: nothing older than the view.     *)
(***************************************************************************)
EXTENDS MobileApi, SequenceTheorems, TLAPS

\* The positions in admitted of the commands that are still to be run.
Queued == sequence + 1 .. Len(admitted)

\* The order a waiting call waits for.
Awaited(c) == Len(results[c]) + 1

\* What a waiting call has in the queue, and what its future holds.
Waits(c) ==
  /\ Awaited(c) \in 1 .. Len(Orders[c])
  /\ \A k \in Queued : admitted[k][1] = c => /\ future[c] = Pending
                                           /\ admitted[k] = <<c, Awaited(c)>>
  /\ \A k, l \in Queued : admitted[k][1] = c /\ admitted[l][1] = c => k = l
  /\ future[c] # Pending =>
       /\ future[c].status = "accepted"
       /\ future[c].seq \in 1 .. sequence
       /\ admitted[future[c].seq] = <<c, Awaited(c)>>
       /\ \A j \in 1 .. Len(results[c]) : results[c][j].seq < future[c].seq

WaitingKnown == \A c \in Calls : phase[c] = "waiting" => Waits(c)

\* A call that has not come in has done nothing.
NewKnown ==
  \A c \in Calls :
    phase[c] = "new" =>
      /\ results[c] = <<>>
      /\ \A k \in 1 .. Len(admitted) : admitted[k][1] # c

\* Answers carry numbers of commands that have run, refusals carry 0.
AnswersKnown ==
  \A c \in Calls : \A i \in 1 .. Len(results[c]) : results[c][i].seq <= sequence

\* Frames on their way are no newer than the book and no older than the view.
FramesKnown ==
  \A s \in Sockets :
    /\ view[s] <= sequence
    /\ sent[s] <= sequence
    /\ stream[s] = "off" => view[s] = 0 /\ frames[s] = <<>>
    /\ stream[s] \in {"greeting", "sending"} => sent[s] >= view[s]
    /\ frames[s] # <<>> => /\ frames[s][1] <= sequence
                           /\ frames[s][1] >= view[s]
                           /\ frames[s][1] >= sent[s]

ApiInv ==
  /\ TypeOK
  /\ FirstInFirstOut
  /\ AnswersMatch
  /\ WaitingKnown
  /\ NewKnown
  /\ AnswersKnown
  /\ FramesKnown

-----------------------------------------------------------------------------
LEMMA OrdersTyped ==
  ASSUME NEW c \in Calls
  PROVE  Orders[c] \in Seq(BOOLEAN) /\ Len(Orders[c]) \in Nat /\ Len(Orders[c]) > 0
<1>1. Orders[c] \in Seq(BOOLEAN) /\ Orders[c] # <<>>
  BY OrdersAssumption
<1> QED BY <1>1, EmptySeq, LenProperties

LEMMA AnswersTyped ==
  /\ Unknown \in Answer /\ Busy \in Answer /\ Pending \in Answer
  /\ \A n \in Nat : Accepted(n) \in Answer /\ Accepted(n) # Pending
BY DEF Unknown, Busy, Pending, Accepted, Answer

LEMMA NumbersTyped ==
  ASSUME ApiInv, NEW c \in Calls, NEW i \in 1 .. Len(results[c])
  PROVE  results[c][i].seq \in Nat /\ results[c][i].seq <= sequence
<1>1. results[c] \in Seq(Answer)
  BY DEF ApiInv, TypeOK
<1>2. results[c][i] \in Answer
  BY <1>1, ElementOfSeq
<1> QED BY <1>2 DEF Answer, ApiInv, AnswersKnown

\* Refusals are one answer for each order, and none says it ran.
LEMMA RefusalsShape ==
  ASSUME NEW c \in Calls, NEW i \in Nat, NEW j \in Nat, i <= j + 1, i > 0
  PROVE  /\ Refusals(c, i, j) \in Seq(Answer)
         /\ Len(Refusals(c, i, j)) = j + 1 - i
         /\ \A k \in 1 .. (j + 1 - i) : /\ Refusals(c, i, j)[k].status # "accepted"
                                        /\ Refusals(c, i, j)[k].seq = 0
<1> DEFINE n == j + 1 - i
           Refusal(k) == IF Orders[c][i + k - 1] THEN Busy ELSE Unknown
<1>1. n \in Nat
  OBVIOUS
<1>2. \A k \in 1 .. n : Refusal(k) \in Answer
  BY AnswersTyped
<1>3. Refusals(c, i, j) = [k \in 1 .. n |-> Refusal(k)]
  BY DEF Refusals
<1> HIDE DEF n
<1>4. Refusals(c, i, j) \in Seq(Answer) /\ Len(Refusals(c, i, j)) = n
  BY <1>1, <1>2, <1>3, IsASeq
<1>5. \A k \in 1 .. n : /\ Refusal(k).status # "accepted"
                       /\ Refusal(k).seq = 0
  BY DEF Busy, Unknown
<1> QED BY <1>3, <1>4, <1>5 DEF n

\* The answers of a call and the refusals that follow them.
LEMMA JoinedShape ==
  ASSUME NEW c \in Calls, NEW answers \in Seq(Answer), NEW j \in Nat,
         Len(answers) <= j
  PROVE  LET joined == answers \o Refusals(c, Len(answers) + 1, j)
         IN  /\ joined \in Seq(Answer)
             /\ Len(joined) = j
             /\ \A k \in 1 .. Len(answers) : joined[k] = answers[k]
             /\ \A k \in (Len(answers) + 1) .. j : /\ joined[k].status # "accepted"
                                                 /\ joined[k].seq = 0
<1> DEFINE i == Len(answers) + 1
           refusals == Refusals(c, i, j)
<1>1. i \in Nat /\ i > 0 /\ i <= j + 1 /\ Len(answers) \in Nat
  BY LenProperties
<1>2. /\ refusals \in Seq(Answer) /\ Len(refusals) = j + 1 - i
      /\ \A k \in 1 .. (j + 1 - i) : refusals[k].status # "accepted" /\ refusals[k].seq = 0
  BY <1>1, RefusalsShape
<1> HIDE DEF refusals
<1>3. /\ answers \o refusals \in Seq(Answer)
      /\ Len(answers \o refusals) = Len(answers) + Len(refusals)
      /\ \A k \in 1 .. Len(answers) + Len(refusals) :
           (answers \o refusals)[k] = IF k <= Len(answers) THEN answers[k]
                                      ELSE refusals[k - Len(answers)]
  BY <1>2, ConcatProperties
<1>4. \A k \in (Len(answers) + 1) .. j :
        /\ k - Len(answers) \in 1 .. (j + 1 - i)
        /\ k \in 1 .. Len(answers) + Len(refusals)
        /\ ~(k <= Len(answers))
  BY <1>1, <1>2
<1>5. \A k \in 1 .. Len(answers) : k \in 1 .. Len(answers) + Len(refusals) /\ k <= Len(answers)
  BY <1>1, <1>2
<1>6. Len(answers) + Len(refusals) = j
  BY <1>1, <1>2
<1> QED BY <1>2, <1>3, <1>4, <1>5, <1>6 DEF refusals

-----------------------------------------------------------------------------
\* A handler that goes on with the answers it has: they are right, and nothing
\* of its call is in the queue.
LEMMA ProceedKeeps ==
  ASSUME ApiInv, NEW c \in Calls, NEW answers \in Seq(Answer), Proceed(c, answers),
         Len(answers) <= Len(Orders[c]),
         \A k \in Queued : admitted[k][1] # c,
         \A i \in 1 .. Len(answers) :
           /\ answers[i].seq <= sequence
           /\ answers[i].status = "accepted" =>
                /\ answers[i].seq \in 1 .. sequence
                /\ admitted[answers[i].seq] = <<c, i>>
                /\ \A j \in 1 .. (i - 1) : answers[j].seq < answers[i].seq
  PROVE  ApiInv'
<1>1. /\ queue \in Seq(Command) /\ admitted \in Seq(Command) /\ sequence \in Nat
      /\ phase \in [Calls -> {"new", "waiting", "done", "gone"}]
      /\ future \in [Calls -> Answer] /\ results \in [Calls -> Seq(Answer)]
      /\ Len(queue) \in Nat /\ Len(admitted) \in Nat /\ Len(answers) \in Nat
      /\ Len(Orders[c]) \in Nat
  BY LenProperties, OrdersTyped DEF ApiInv, TypeOK
<1>2. UNCHANGED sockets /\ sequence' = sequence
  BY DEF Proceed, Admit, Return, actor
<1>3. FramesKnown'
  BY <1>2 DEF FramesKnown, sockets, ApiInv
<1>4. ASSUME NEW j \in 1 .. Len(Orders[c]), Admit(c, answers, j)
      PROVE  ApiInv'
  <2> DEFINE joined == answers \o Refusals(c, Len(answers) + 1, j - 1)
             i == Len(admitted) + 1
  <2>1. Len(answers) <= j - 1 /\ j \in Nat /\ j - 1 \in Nat /\ j <= Len(Orders[c])
        /\ Len(queue) < Capacity
    BY <1>1, <1>4, CapacityAssumption DEF Admit, IsNext, Full
  <2>2. /\ joined \in Seq(Answer) /\ Len(joined) = j - 1
        /\ \A k \in 1 .. Len(answers) : joined[k] = answers[k]
        /\ \A k \in (Len(answers) + 1) .. (j - 1) : /\ joined[k].status # "accepted"
                                                 /\ joined[k].seq = 0
    BY <2>1, JoinedShape
  <2>3. /\ results' = [results EXCEPT ![c] = joined]
        /\ phase' = [phase EXCEPT ![c] = "waiting"]
        /\ future' = [future EXCEPT ![c] = Pending]
        /\ queue' = Append(queue, <<c, j>>)
        /\ admitted' = Append(admitted, <<c, j>>)
    BY <1>4 DEF Admit
  <2> HIDE DEF joined
  <2>4. <<c, j>> \in Command
    BY <2>1 DEF Command
  <2>5. /\ admitted' \in Seq(Command) /\ Len(admitted') = i
        /\ admitted'[i] = <<c, j>>
        /\ \A k \in 1 .. Len(admitted) : admitted'[k] = admitted[k]
        /\ queue' \in Seq(Command) /\ Len(queue') = Len(queue) + 1
        /\ queue'[Len(queue) + 1] = <<c, j>>
        /\ \A k \in 1 .. Len(queue) : queue'[k] = queue[k]
    BY <2>3, <2>4, <1>1, AppendProperties
  <2>6. TypeOK'
    BY <2>2, <2>3, <2>5, <1>1, <1>2, AnswersTyped DEF ApiInv, TypeOK, sockets
  <2>7. sequence + Len(queue) = Len(admitted)
    BY DEF ApiInv, FirstInFirstOut
  <2>8. FirstInFirstOut'
    <3>1. sequence' + Len(queue') = Len(admitted')
      <4>1. sequence' = sequence /\ Len(queue') = Len(queue) + 1 /\ Len(admitted') = Len(admitted) + 1
        BY <2>5, <1>2
      <4>2. sequence \in Nat /\ Len(queue) \in Nat /\ Len(admitted) \in Nat
        BY <1>1
      <4> QED BY <4>1, <4>2, <2>7
    <3>2. ASSUME NEW k \in 1 .. Len(queue')
          PROVE  queue'[k] = admitted'[sequence' + k]
      <4>1. CASE k = Len(queue) + 1
        BY <4>1, <2>5, <2>7, <1>1, <1>2
      <4>2. CASE k # Len(queue) + 1
        <5>1. k \in 1 .. Len(queue) /\ sequence + k \in 1 .. Len(admitted)
          BY <4>2, <2>5, <2>7, <1>1
        <5> QED BY <5>1, <2>5, <1>2 DEF ApiInv, FirstInFirstOut
      <4> QED BY <4>1, <4>2
    <3>3. Len(queue') <= Capacity'
      BY <2>5, <2>1, <1>1, CapacityAssumption
    <3> QED BY <3>1, <3>2, <3>3 DEF FirstInFirstOut
  <2>9. ASSUME NEW d \in Calls, d # c
        PROVE  results'[d] = results[d] /\ phase'[d] = phase[d] /\ future'[d] = future[d]
    BY <2>3, <2>9, <1>1
  <2>10. results'[c] = joined /\ phase'[c] = "waiting" /\ future'[c] = Pending
    BY <2>3, <1>1
  <2>11. AnswersKnown'
    <3>1. ASSUME NEW d \in Calls, NEW k \in 1 .. Len(results'[d])
          PROVE  results'[d][k].seq <= sequence'
      <4>1. CASE d # c
        BY <4>1, <2>9, <1>2 DEF ApiInv, AnswersKnown
      <4>2. CASE d = c
        <5>1. CASE k \in 1 .. Len(answers)
          BY <5>1, <4>2, <2>10, <2>2, <1>2
        <5>2. CASE k \notin 1 .. Len(answers)
          <6>1. k \in (Len(answers) + 1) .. (j - 1)
            BY <5>2, <4>2, <2>10, <2>2, <2>1, <1>1
          <6> QED BY <6>1, <4>2, <2>10, <2>2, <1>1, <1>2
        <5> QED BY <5>1, <5>2
      <4> QED BY <4>1, <4>2
    <3> QED BY <3>1 DEF AnswersKnown
  <2>12. AnswersMatch'
    <3>1. ASSUME NEW d \in Calls, NEW k \in 1 .. Len(results'[d]),
                 results'[d][k].status = "accepted"
          PROVE  /\ results'[d][k].seq \in 1 .. sequence'
                 /\ admitted'[results'[d][k].seq] = <<d, k>>
                 /\ \A l \in 1 .. (k - 1) : results'[d][l].seq < results'[d][k].seq
      <4>0. sequence <= Len(admitted)
        BY <2>7, <1>1
      <4>1. CASE d # c
        <5>1. /\ results[d][k].seq \in 1 .. sequence
              /\ admitted[results[d][k].seq] = <<d, k>>
              /\ \A l \in 1 .. (k - 1) : results[d][l].seq < results[d][k].seq
          BY <4>1, <3>1, <2>9 DEF ApiInv, AnswersMatch
        <5>2. results[d][k].seq \in 1 .. Len(admitted)
          BY <5>1, <4>0, <1>1
        <5> QED BY <5>1, <5>2, <4>1, <2>5, <2>9, <1>2
      <4>2. CASE d = c
        <5>1. k \in 1 .. Len(answers)
          BY <4>2, <3>1, <2>10, <2>2, <2>1, <1>1
        <5>2. joined[k] = answers[k] /\ \A l \in 1 .. (k - 1) : joined[l] = answers[l]
          BY <5>1, <2>2, <1>1
        <5>3. answers[k].seq \in 1 .. sequence /\ admitted[answers[k].seq] = <<c, k>>
              /\ \A l \in 1 .. (k - 1) : answers[l].seq < answers[k].seq
          BY <5>1, <5>2, <4>2, <3>1, <2>10
        <5>4. answers[k].seq \in 1 .. Len(admitted)
          BY <5>3, <4>0, <1>1
        <5> QED BY <5>2, <5>3, <5>4, <4>2, <2>5, <2>10, <1>2
      <4> QED BY <4>1, <4>2
    <3>2. ASSUME NEW d \in Calls, phase'[d] = "done"
          PROVE  Len(results'[d]) = Len(Orders[d])
      BY <3>2, <2>9, <2>10 DEF ApiInv, AnswersMatch
    <3> QED BY <3>1, <3>2 DEF AnswersMatch
  <2>13. Queued' = Queued \cup {i} /\ i \notin Queued /\ Queued \subseteq 1 .. Len(admitted)
    BY <2>5, <2>7, <1>1, <1>2 DEF Queued
  <2>14. WaitingKnown'
    <3> SUFFICES ASSUME NEW d \in Calls, phase'[d] = "waiting"
                 PROVE  Waits(d)'
      BY DEF WaitingKnown
    <3>1. CASE d = c
      <4>1. Awaited(d)' = j
        BY <3>1, <2>10, <2>2, <2>1 DEF Awaited
      <4>2. \A k \in Queued' : admitted'[k][1] = c => k = i
        BY <2>5, <2>13
      <4> QED BY <4>1, <4>2, <3>1, <2>1, <2>5, <2>10, <1>1 DEF Waits
    <3>2. CASE d # c
      <4>1. Awaited(d)' = Awaited(d) /\ phase[d] = "waiting"
        BY <3>2, <2>9 DEF Awaited
      <4>2. admitted'[i][1] # d
        BY <3>2, <2>5
      <4>3. \A k \in Queued' : admitted'[k][1] = d => k \in Queued /\ admitted'[k] = admitted[k]
        BY <4>2, <2>5, <2>13
      <4>4. Waits(d)
        BY <4>1 DEF ApiInv, WaitingKnown
      <4>5. future[d] # Pending => admitted'[future[d].seq] = admitted[future[d].seq]
        <5>1. future[d] # Pending => future[d].seq \in 1 .. Len(admitted)
          BY <4>4, <2>7, <1>1 DEF Waits
        <5> QED BY <5>1, <2>5
      <4>6. results'[d] = results[d] /\ future'[d] = future[d]
        BY <3>2, <2>9
      <4> QED BY <4>1, <4>3, <4>4, <4>5, <4>6, <1>2 DEF Waits
    <3> QED BY <3>1, <3>2
  <2>15. NewKnown'
    <3> SUFFICES ASSUME NEW d \in Calls, phase'[d] = "new"
                 PROVE  /\ results'[d] = <<>>
                        /\ \A k \in 1 .. Len(admitted') : admitted'[k][1] # d
      BY DEF NewKnown
    <3>1. d # c /\ phase[d] = "new" /\ results'[d] = results[d]
      BY <2>9, <2>10
    <3>2. results[d] = <<>> /\ \A k \in 1 .. Len(admitted) : admitted[k][1] # d
      BY <3>1 DEF ApiInv, NewKnown
    <3>3. ASSUME NEW k \in 1 .. Len(admitted')
          PROVE  admitted'[k][1] # d
      <4>1. k = i \/ k \in 1 .. Len(admitted)
        BY <2>5, <1>1
      <4> QED BY <4>1, <3>1, <3>2, <2>5
    <3> QED BY <3>1, <3>2, <3>3
  <2> QED BY <2>6, <2>8, <2>11, <2>12, <2>14, <2>15, <1>3 DEF ApiInv
<1>5. CASE Return(c, answers)
  <2> DEFINE n == Len(Orders[c])
             joined == answers \o Refusals(c, Len(answers) + 1, n)
  <2>1. /\ joined \in Seq(Answer) /\ Len(joined) = n
        /\ \A k \in 1 .. Len(answers) : joined[k] = answers[k]
        /\ \A k \in (Len(answers) + 1) .. n : /\ joined[k].status # "accepted"
                                           /\ joined[k].seq = 0
    BY <1>1, JoinedShape
  <2>2. /\ results' = [results EXCEPT ![c] = joined]
        /\ phase' = [phase EXCEPT ![c] = "done"]
        /\ future' = [future EXCEPT ![c] = Pending]
        /\ UNCHANGED <<queue, sequence, admitted>>
    BY <1>5 DEF Return, actor
  <2> HIDE DEF joined
  <2>3. TypeOK'
    BY <2>1, <2>2, <1>1, <1>2, AnswersTyped DEF ApiInv, TypeOK, sockets
  <2>4. FirstInFirstOut'
    BY <2>2 DEF ApiInv, FirstInFirstOut
  <2>5. ASSUME NEW d \in Calls, d # c
        PROVE  results'[d] = results[d] /\ phase'[d] = phase[d] /\ future'[d] = future[d]
    BY <2>2, <2>5, <1>1
  <2>6. results'[c] = joined /\ phase'[c] = "done"
    BY <2>2, <1>1
  <2>7. \A k \in 1 .. n : k \notin 1 .. Len(answers) => k \in (Len(answers) + 1) .. n
    BY <1>1
  <2>8. AnswersKnown'
    <3>1. ASSUME NEW d \in Calls, NEW k \in 1 .. Len(results'[d])
          PROVE  results'[d][k].seq <= sequence'
      <4>1. CASE d # c
        BY <4>1, <2>2, <2>5 DEF ApiInv, AnswersKnown
      <4>2. CASE d = c /\ k \in 1 .. Len(answers)
        BY <4>2, <2>1, <2>2, <2>6
      <4>3. CASE d = c /\ k \notin 1 .. Len(answers)
        BY <4>3, <2>1, <2>2, <2>6, <2>7, <1>1
      <4> QED BY <4>1, <4>2, <4>3
    <3> QED BY <3>1 DEF AnswersKnown
  <2>9. AnswersMatch'
    <3>1. ASSUME NEW k \in 1 .. n, joined[k].status = "accepted"
          PROVE  /\ joined[k].seq \in 1 .. sequence
                 /\ admitted[joined[k].seq] = <<c, k>>
                 /\ \A l \in 1 .. (k - 1) : joined[l].seq < joined[k].seq
      <4>1. k \in 1 .. Len(answers)
        BY <3>1, <2>1, <2>7
      <4>2. joined[k] = answers[k] /\ \A l \in 1 .. (k - 1) : joined[l] = answers[l]
        BY <4>1, <2>1, <1>1
      <4> QED BY <4>1, <4>2, <3>1
    <3>2. ASSUME NEW d \in Calls
          PROVE  /\ \A k \in 1 .. Len(results'[d]) :
                      results'[d][k].status = "accepted" =>
                        /\ results'[d][k].seq \in 1 .. sequence'
                        /\ admitted'[results'[d][k].seq] = <<d, k>>
                        /\ \A l \in 1 .. (k - 1) :
                             results'[d][l].seq < results'[d][k].seq
                 /\ phase'[d] = "done" => Len(results'[d]) = Len(Orders[d])
      <4>1. CASE d # c
        BY <4>1, <2>2, <2>5 DEF ApiInv, AnswersMatch
      <4>2. CASE d = c
        BY <4>2, <3>1, <2>1, <2>2, <2>6
      <4> QED BY <4>1, <4>2
    <3> QED BY <3>2 DEF AnswersMatch
  <2>10. WaitingKnown'
    <3>1. ASSUME NEW d \in Calls, phase'[d] = "waiting"
          PROVE  d # c /\ phase[d] = "waiting"
      BY <3>1, <2>5, <2>6
    <3> QED BY SMTT(20), <3>1, <2>2, <2>5 DEF ApiInv, WaitingKnown, Waits, Queued, Awaited
  <2>11. NewKnown'
    BY <2>2, <2>5, <2>6 DEF ApiInv, NewKnown
  <2> QED BY <2>3, <2>4, <2>8, <2>9, <2>10, <2>11, <1>3 DEF ApiInv
<1> QED BY <1>4, <1>5 DEF Proceed

LEMMA ReceiveKeeps ==
  ASSUME ApiInv, NEW c \in Calls, Receive(c)
  PROVE  ApiInv'
<1>1. \A k \in Queued : admitted[k][1] # c
  <2>1. \A k \in 1 .. Len(admitted) : admitted[k][1] # c
    BY DEF Receive, ApiInv, NewKnown
  <2>2. sequence \in Nat /\ Len(admitted) \in Nat
    BY LenProperties DEF ApiInv, TypeOK
  <2> QED BY <2>1, <2>2 DEF Queued
<1>2. <<>> \in Seq(Answer) /\ Len(<<>>) = 0
  BY EmptySeq
<1>3. Len(Orders[c]) \in Nat
  BY OrdersTyped
<1>4. Proceed(c, <<>>)
  BY DEF Receive
<1>5. Len(<<>>) <= Len(Orders[c]) /\ \A i : i \notin 1 .. Len(<<>>)
  BY <1>2, <1>3
<1> DEFINE none == <<>>
<1> HIDE DEF none
<1>6. /\ none \in Seq(Answer) /\ Proceed(c, none) /\ Len(none) <= Len(Orders[c])
      /\ \A i : i \notin 1 .. Len(none)
  BY <1>2, <1>4, <1>5 DEF none
<1> QED BY <1>1, <1>6, ProceedKeeps

LEMMA ResumeKeeps ==
  ASSUME ApiInv, NEW c \in Calls, Resume(c)
  PROVE  ApiInv'
<1> DEFINE answers == Append(results[c], future[c])
           n == Len(results[c])
<1>1. results[c] \in Seq(Answer) /\ future[c] \in Answer /\ sequence \in Nat /\ n \in Nat
  BY LenProperties DEF ApiInv, TypeOK
<1>2. /\ answers \in Seq(Answer) /\ Len(answers) = n + 1
      /\ answers[n + 1] = future[c]
      /\ \A k \in 1 .. n : answers[k] = results[c][k]
  BY <1>1, AppendProperties
<1> HIDE DEF answers
<1>3. /\ n + 1 \in 1 .. Len(Orders[c])
      /\ \A k \in Queued : admitted[k][1] # c
      /\ future[c].status = "accepted"
      /\ future[c].seq \in 1 .. sequence
      /\ admitted[future[c].seq] = <<c, n + 1>>
      /\ \A j \in 1 .. n : results[c][j].seq < future[c].seq
  BY DEF Resume, ApiInv, WaitingKnown, Waits, Awaited
<1>4. ASSUME NEW i \in 1 .. Len(answers)
      PROVE  /\ answers[i].seq <= sequence
             /\ answers[i].status = "accepted" =>
                  /\ answers[i].seq \in 1 .. sequence
                  /\ admitted[answers[i].seq] = <<c, i>>
                  /\ \A j \in 1 .. (i - 1) : answers[j].seq < answers[i].seq
  <2>1. CASE i = n + 1
    BY <2>1, <1>1, <1>2, <1>3
  <2>2. CASE i \in 1 .. n
    <3>1. answers[i] = results[c][i] /\ \A j \in 1 .. (i - 1) : answers[j] = results[c][j]
      BY <2>2, <1>1, <1>2
    <3> QED BY <3>1, <2>2 DEF ApiInv, AnswersMatch, AnswersKnown
  <2> QED BY <2>1, <2>2, <1>1, <1>2
<1>5. Proceed(c, answers)
  BY DEF Resume, answers
<1>6. Len(answers) <= Len(Orders[c])
  BY <1>1, <1>2, <1>3, OrdersTyped
<1> QED BY <1>2, <1>3, <1>4, <1>5, <1>6, ProceedKeeps

LEMMA AbandonKeeps ==
  ASSUME ApiInv, NEW c \in Calls, Abandon(c)
  PROVE  ApiInv'
<1>1. UNCHANGED <<queue, sequence, admitted, results, stream, frames, sent, last_seq,
                  view, connects>>
  BY DEF Abandon, actor, sockets
<1>2. /\ phase' = [phase EXCEPT ![c] = "gone"]
      /\ future' = [future EXCEPT ![c] = Pending]
  BY DEF Abandon
<1>3. TypeOK'
  BY <1>1, <1>2, AnswersTyped DEF ApiInv, TypeOK
<1>4. /\ phase'[c] = "gone"
      /\ \A d \in Calls : d # c => phase'[d] = phase[d] /\ future'[d] = future[d]
  BY <1>2 DEF ApiInv, TypeOK
<1>5. FirstInFirstOut' /\ AnswersKnown' /\ FramesKnown'
  BY <1>1 DEF ApiInv, FirstInFirstOut, AnswersKnown, FramesKnown
<1>6. AnswersMatch' /\ NewKnown'
  BY <1>1, <1>4 DEF ApiInv, AnswersMatch, NewKnown
<1>7. WaitingKnown'
  <2>1. \A d \in Calls : phase'[d] = "waiting" => d # c
    BY <1>4
  <2>2. \A d \in Calls : phase'[d] = "waiting" =>
          phase[d] = "waiting" /\ future'[d] = future[d]
    BY <2>1, <1>4
  <2>3. /\ queue' = queue /\ sequence' = sequence /\ admitted' = admitted
        /\ results' = results /\ Queued' = Queued
    BY <1>1 DEF Queued
  <2>4. ASSUME NEW d \in Calls, phase'[d] = "waiting"
        PROVE  Waits(d)'
    <3>1. Waits(d) /\ future'[d] = future[d]
      BY <2>2, <2>4 DEF ApiInv, WaitingKnown
    <3> QED BY <3>1, <2>3 DEF Waits, Awaited
  <2> QED BY <2>4 DEF WaitingKnown
<1> QED BY <1>3, <1>5, <1>6, <1>7 DEF ApiInv

LEMMA WorkKeeps ==
  ASSUME ApiInv, Work
  PROVE  ApiInv'
<1> DEFINE n == sequence + 1
           c == Head(queue)[1]
<1>1. /\ queue \in Seq(Command) /\ admitted \in Seq(Command) /\ sequence \in Nat
      /\ future \in [Calls -> Answer]
      /\ Len(queue) \in Nat /\ Len(admitted) \in Nat
  BY LenProperties DEF ApiInv, TypeOK
<1>2. /\ UNCHANGED <<admitted, phase, results, stream, frames, sent, last_seq, view, connects>>
      /\ queue' = Tail(queue) /\ sequence' = n
      /\ future' = IF phase[c] = "waiting" THEN [future EXCEPT ![c] = Accepted(n)]
                   ELSE future
  BY DEF Work, sockets
<1>3. /\ Head(queue) \in Command /\ Head(queue) = queue[1]
      /\ queue' \in Seq(Command) /\ Len(queue') = Len(queue) - 1
      /\ \A k \in 1 .. Len(queue) - 1 : queue'[k] = queue[k + 1]
      /\ Len(queue) > 0
  BY <1>1, <1>2, HeadTailProperties, LenProperties, EmptySeq DEF Work
<1>4. /\ sequence + Len(queue) = Len(admitted)
      /\ \A k \in 1 .. Len(queue) : queue[k] = admitted[sequence + k]
      /\ Len(queue) <= Capacity
  BY DEF ApiInv, FirstInFirstOut
<1>5. admitted[n] = Head(queue) /\ n \in Queued /\ c \in Calls /\ n \in Nat
  BY <1>1, <1>3, <1>4 DEF Queued, Command
<1>6. TypeOK'
  BY <1>1, <1>2, <1>3, <1>5, AnswersTyped DEF ApiInv, TypeOK
<1>7. FirstInFirstOut'
  <2>1. sequence' + Len(queue') = Len(admitted') /\ Len(queue') <= Capacity
    BY <1>1, <1>2, <1>3, <1>4, CapacityAssumption
  <2>2. ASSUME NEW k \in 1 .. Len(queue')
        PROVE  queue'[k] = admitted'[sequence' + k]
    <3>1. k + 1 \in 1 .. Len(queue) /\ sequence + (k + 1) = sequence' + k
          /\ k \in 1 .. Len(queue) - 1
      BY <1>1, <1>2, <1>3
    <3>2. queue'[k] = queue[k + 1]
      BY <3>1, <1>3
    <3>3. queue[k + 1] = admitted[sequence + (k + 1)]
      BY <3>1, <1>4
    <3> QED BY <3>1, <3>2, <3>3, <1>2
  <2> QED BY <2>1, <2>2 DEF FirstInFirstOut
<1>8. AnswersKnown'
  <2>1. \A d \in Calls : \A i \in 1 .. Len(results[d]) :
          results[d][i].seq \in Nat /\ results[d][i].seq <= sequence
    BY NumbersTyped
  <2> QED BY <2>1, <1>1, <1>2 DEF AnswersKnown
<1>9. AnswersMatch'
  <2>1. 1 .. sequence \subseteq 1 .. n
    BY <1>1
  <2> QED BY <2>1, <1>2 DEF ApiInv, AnswersMatch
<1>10. NewKnown'
  BY <1>2 DEF ApiInv, NewKnown
<1>11. FramesKnown'
  <2>1. \A s \in Sockets : /\ view[s] \in Nat /\ sent[s] \in Nat
                           /\ frames[s] # <<>> => frames[s][1] \in Nat
    <3>1. \A s \in Sockets : frames[s] \in Seq(Nat)
      BY DEF ApiInv, TypeOK
    <3>2. \A f \in Seq(Nat) : f # <<>> => f[1] \in Nat
      BY HeadTailProperties
    <3> QED BY <3>1, <3>2 DEF ApiInv, TypeOK
  <2> QED BY <2>1, <1>1, <1>2 DEF ApiInv, FramesKnown
<1>12. WaitingKnown'
  <2>1. Queued' = Queued \ {n}
    BY <1>1, <1>2 DEF Queued
  <2>2. SUFFICES ASSUME NEW d \in Calls, phase[d] = "waiting"
                 PROVE  Waits(d)'
    BY <1>2 DEF WaitingKnown
  <2>3. Waits(d)
    BY <2>2 DEF ApiInv, WaitingKnown
  <2>4. Awaited(d)' = Awaited(d)
    BY <1>2 DEF Awaited
  <2>5. CASE d = c
    <3>1. future'[d] = Accepted(n)
      BY <2>5, <2>2, <1>1, <1>2
    <3>2. admitted[n] = <<d, Awaited(d)>> /\ admitted[n][1] = d
      BY <2>3, <2>5, <1>5 DEF Waits
    <3>3. \A k \in Queued' : admitted'[k][1] # d
      BY <2>1, <2>3, <3>2, <1>2, <1>5 DEF Waits
    <3>4. \A m \in 1 .. Len(results[d]) : results[d][m].seq < n
      <4>1. \A m \in 1 .. Len(results[d]) :
              results[d][m].seq \in Nat /\ results[d][m].seq <= sequence
        BY NumbersTyped
      <4> QED BY <4>1, <1>1
    <3>5. Accepted(n).status = "accepted" /\ Accepted(n).seq = n /\ n \in 1 .. n
      BY <1>1 DEF Accepted
    <3> QED BY <3>1, <3>2, <3>3, <3>4, <3>5, <2>3, <2>4, <1>2 DEF Waits
  <2>6. CASE d # c
    <3>1. future'[d] = future[d]
      BY <2>6, <1>1, <1>2, <1>5
    <3>2. 1 .. sequence \subseteq 1 .. n
      BY <1>1
    <3>3. Queued' \subseteq Queued
      BY <2>1
    <3> QED BY <3>1, <3>2, <3>3, <2>3, <2>4, <1>2 DEF Waits
  <2> QED BY <2>5, <2>6
<1> QED BY <1>6, <1>7, <1>8, <1>9, <1>10, <1>11, <1>12 DEF ApiInv

-----------------------------------------------------------------------------
\* What sockets do leaves calls and commands alone.
LEMMA SocketsApart ==
  ASSUME ApiInv, UNCHANGED <<actor, calls>>, TypeOK', FramesKnown'
  PROVE  ApiInv'
<1>1. /\ queue' = queue /\ sequence' = sequence /\ admitted' = admitted
      /\ phase' = phase /\ future' = future /\ results' = results /\ Queued' = Queued
  BY DEF actor, calls, Queued
<1>2. FirstInFirstOut' /\ AnswersMatch' /\ NewKnown' /\ AnswersKnown'
  BY <1>1 DEF ApiInv, FirstInFirstOut, AnswersMatch, NewKnown, AnswersKnown
<1>3. WaitingKnown'
  BY ZenonT(40), <1>1 DEF ApiInv, WaitingKnown, Waits, Awaited
<1> QED BY <1>2, <1>3 DEF ApiInv

\* A frame is a number.
LEMMA FrameTyped ==
  ASSUME TypeOK, NEW s \in Sockets, frames[s] # <<>>
  PROVE  /\ frames[s][1] \in Nat /\ Head(frames[s]) = frames[s][1]
         /\ Tail(frames[s]) = <<>>
<1>1. frames[s] \in Seq(Nat) /\ Len(frames[s]) <= 1
  BY DEF TypeOK
<1>2. /\ Head(frames[s]) \in Nat /\ Head(frames[s]) = frames[s][1]
      /\ Tail(frames[s]) \in Seq(Nat) /\ Len(Tail(frames[s])) = Len(frames[s]) - 1
      /\ Len(frames[s]) \in Nat
  <2>1. Head(frames[s]) = frames[s][1] /\ Len(frames[s]) \in Nat
    BY <1>1, LenProperties
  <2> QED BY <2>1, <1>1, HeadTailProperties
<1>3. Len(Tail(frames[s])) = 0
  <2>1. Len(frames[s]) # 0
    BY <1>1, EmptySeq
  <2>2. Len(frames[s]) = 1
    <3>1. \A n \in Nat : n # 0 /\ n <= 1 => n = 1
      OBVIOUS
    <3>2. Len(frames[s]) \in Nat /\ Len(frames[s]) <= 1
      BY <1>1, <1>2
    <3> QED BY <2>1, <3>1, <3>2
  <2> QED BY <2>2, <1>2
<1> QED BY <1>2, <1>3, EmptySeq

\* A step of one socket keeps FramesKnown if it does so for that socket.
LEMMA OneSocket ==
  ASSUME ApiInv, NEW s \in Sockets, UNCHANGED sequence,
         \A t \in Sockets : t # s =>
           /\ view'[t] = view[t] /\ sent'[t] = sent[t]
           /\ stream'[t] = stream[t] /\ frames'[t] = frames[t],
         /\ view'[s] <= sequence /\ sent'[s] <= sequence
         /\ stream'[s] = "off" => view'[s] = 0 /\ frames'[s] = <<>>
         /\ stream'[s] \in {"greeting", "sending"} => sent'[s] >= view'[s]
         /\ frames'[s] # <<>> => /\ frames'[s][1] <= sequence
                                /\ frames'[s][1] >= view'[s]
                                /\ frames'[s][1] >= sent'[s]
  PROVE  FramesKnown'
BY DEF ApiInv, FramesKnown

LEMMA SocketKeeps ==
  ASSUME ApiInv, NEW s \in Sockets, Connect(s) \/ Deliver(s) \/ Drop(s) \/ Take(s)
  PROVE  /\ ApiInv'
         /\ \A t \in Sockets : view'[t] >= view[t] \/ stream'[t] = "off"
<1>1. /\ sequence \in Nat /\ view[s] \in Nat /\ sent[s] \in Nat /\ last_seq[s] \in Nat
      /\ \A t \in Sockets : view[t] \in Nat
      /\ frames \in [Sockets -> Seq(Nat)] /\ stream \in [Sockets -> {"off", "greeting", "listening", "sending"}]
      /\ sent \in [Sockets -> Nat] /\ view \in [Sockets -> Nat]
  BY DEF ApiInv, TypeOK
<1>2. /\ view[s] <= sequence /\ sent[s] <= sequence
      /\ stream[s] = "off" => view[s] = 0 /\ frames[s] = <<>>
      /\ stream[s] \in {"greeting", "sending"} => sent[s] >= view[s]
      /\ frames[s] # <<>> => /\ frames[s][1] <= sequence
                            /\ frames[s][1] >= view[s]
                            /\ frames[s][1] >= sent[s]
  BY DEF ApiInv, FramesKnown
<1>3. frames[s] # <<>> => /\ frames[s][1] \in Nat /\ Head(frames[s]) = frames[s][1]
                         /\ Tail(frames[s]) = <<>>
  BY FrameTyped DEF ApiInv
<1>4. <<>> \in Seq(Nat) /\ Len(<<>>) = 0
  BY EmptySeq
<1>5. CASE Connect(s)
  <2>1. UNCHANGED <<actor, calls, frames, view>> /\ sequence' = sequence
    BY <1>5 DEF Connect, actor
  <2>2. TypeOK'
    BY <1>5, <1>1, MaxConnectsAssumption DEF Connect, actor, calls, ApiInv, TypeOK
  <2>3. FramesKnown'
    BY <1>5, <1>1, <1>2, <2>1, OneSocket DEF Connect
  <2> QED BY <2>1, <2>2, <2>3, <1>1, SocketsApart
<1>6. CASE Deliver(s)
  <2>1. UNCHANGED <<actor, calls, frames>> /\ sequence' = sequence
    BY <1>6 DEF Deliver, actor
  <2>2. TypeOK'
    BY <1>6, <1>1 DEF Deliver, actor, calls, ApiInv, TypeOK
  <2>3. FramesKnown'
    <3>1. /\ view'[s] = sent[s] /\ sent'[s] = 0 /\ stream'[s] = "listening"
          /\ frames' = frames
          /\ \A t \in Sockets : t # s => /\ view'[t] = view[t] /\ sent'[t] = sent[t]
                                      /\ stream'[t] = stream[t]
      BY <1>6, <1>1 DEF Deliver
    <3>2. sent'[s] <= sequence /\ (frames[s] # <<>> => frames[s][1] >= sent'[s])
      BY <3>1, <1>1, <1>3
    <3> QED BY <3>1, <3>2, <1>2, <2>1, OneSocket
  <2>4. \A t \in Sockets : view'[t] >= view[t]
    BY <1>6, <1>1, <1>2 DEF Deliver
  <2> QED BY <2>1, <2>2, <2>3, <2>4, SocketsApart
<1>7. CASE Drop(s)
  <2>1. UNCHANGED <<actor, calls>> /\ sequence' = sequence
    BY <1>7 DEF Drop, actor
  <2>2. TypeOK'
    BY <1>7, <1>1, <1>4 DEF Drop, actor, calls, ApiInv, TypeOK
  <2>3. FramesKnown'
    BY <1>7, <1>1, <2>1, OneSocket DEF Drop
  <2>4. \A t \in Sockets : view'[t] >= view[t] \/ stream'[t] = "off"
    BY <1>7, <1>1 DEF Drop
  <2> QED BY <2>1, <2>2, <2>3, <2>4, SocketsApart
<1>8. CASE Take(s)
  <2>1. UNCHANGED <<actor, calls, view>> /\ sequence' = sequence
    BY <1>8 DEF Take, actor
  <2>2. frames'[s] = <<>> /\ frames' = [frames EXCEPT ![s] = <<>>]
    BY <1>8, <1>1, <1>3 DEF Take
  <2>3. TypeOK'
    <3>1. frames' \in [Sockets -> Seq(Nat)] /\ \A t \in Sockets : Len(frames'[t]) <= 1
      BY <1>1, <1>4, <2>2 DEF ApiInv, TypeOK
    <3>2. stream' \in [Sockets -> {"off", "greeting", "listening", "sending"}]
      BY <1>8, <1>1 DEF Take
    <3>3. sent' \in [Sockets -> Nat]
      BY <1>8, <1>1, <1>3 DEF Take
    <3>4. UNCHANGED <<queue, sequence, admitted, phase, future, results, last_seq, view,
                      connects>>
      BY <1>8 DEF Take, actor, calls
    <3> QED BY <3>1, <3>2, <3>3, <3>4 DEF ApiInv, TypeOK
  <2>4. FramesKnown'
    BY <1>8, <1>1, <1>2, <1>3, <2>1, <2>2, OneSocket DEF Take
  <2> QED BY <2>1, <2>3, <2>4, <1>1, SocketsApart
<1> QED BY <1>5, <1>6, <1>7, <1>8

LEMMA PublishKeeps ==
  ASSUME ApiInv, Publish
  PROVE  ApiInv'
<1>1. /\ UNCHANGED <<actor, calls, stream, sent, view>> /\ sequence' = sequence
      /\ sequence \in Nat
      /\ frames' = [s \in Sockets |-> IF stream[s] = "off" THEN <<>> ELSE <<sequence>>]
  BY DEF Publish, actor, ApiInv, TypeOK
<1>2. /\ <<>> \in Seq(Nat) /\ Len(<<>>) = 0
      /\ <<sequence>> \in Seq(Nat) /\ Len(<<sequence>>) = 1 /\ <<sequence>>[1] = sequence
  BY <1>1
<1>3. TypeOK'
  BY <1>1, <1>2 DEF Publish, actor, calls, ApiInv, TypeOK
<1>4. FramesKnown'
  BY <1>1, <1>2 DEF ApiInv, FramesKnown, TypeOK
<1> QED BY <1>1, <1>3, <1>4, SocketsApart

-----------------------------------------------------------------------------
LEMMA InitApiInv == Init => ApiInv
<1> SUFFICES ASSUME Init
             PROVE  ApiInv
  OBVIOUS
<1>1. Len(<<>>) = 0 /\ <<>> \in Seq(Command) /\ <<>> \in Seq(Answer) /\ <<>> \in Seq(Nat)
  BY EmptySeq
<1>2. TypeOK
  BY <1>1, AnswersTyped, MaxConnectsAssumption DEF Init, TypeOK
<1>3. FirstInFirstOut /\ AnswersMatch /\ NewKnown /\ AnswersKnown
  BY <1>1, CapacityAssumption DEF Init, FirstInFirstOut, AnswersMatch, NewKnown, AnswersKnown
<1>4. WaitingKnown /\ FramesKnown
  BY DEF Init, WaitingKnown, FramesKnown
<1> QED BY <1>2, <1>3, <1>4 DEF ApiInv

\* Every step keeps ApiInv, and takes no view back.
LEMMA StepKeepsApiInv ==
  ASSUME ApiInv, [Next]_vars
  PROVE  /\ ApiInv'
         /\ \A s \in Sockets : view'[s] >= view[s] \/ stream'[s] = "off"
<1>0. \A s \in Sockets : view[s] \in Nat
  BY DEF ApiInv, TypeOK
<1>1. CASE UNCHANGED vars
  BY <1>0, <1>1
  DEF vars, actor, calls, sockets, ApiInv, TypeOK, FirstInFirstOut, AnswersMatch,
      WaitingKnown, Waits, NewKnown, AnswersKnown, FramesKnown, Queued, Awaited
<1>2. ASSUME NEW c \in Calls, Receive(c) \/ Resume(c) \/ Abandon(c)
      PROVE  ApiInv' /\ UNCHANGED view
  BY <1>2, ReceiveKeeps, ResumeKeeps, AbandonKeeps
  DEF Receive, Resume, Abandon, Proceed, sockets
<1>3. CASE Work
  BY <1>0, <1>3, WorkKeeps DEF Work, sockets
<1>4. ASSUME NEW s \in Sockets, Connect(s) \/ Deliver(s) \/ Drop(s) \/ Take(s)
      PROVE  /\ ApiInv'
             /\ \A t \in Sockets : view'[t] >= view[t] \/ stream'[t] = "off"
  BY <1>4, SocketKeeps
<1>5. CASE Publish
  BY <1>0, <1>5, PublishKeeps DEF Publish
<1> QED BY <1>0, <1>1, <1>2, <1>3, <1>4, <1>5 DEF Next

\* ApiInv holds in every reachable state.
THEOREM ApiInvariant == Spec => []ApiInv
<1>1. ApiInv /\ [Next]_vars => ApiInv'
  BY StepKeepsApiInv
<1> QED BY <1>1, InitApiInv, PTL DEF Spec

\* Every variable keeps its type; a socket never has two frames waiting
\* (mobile_api.py:236, 262-267).
THEOREM ApiTypeCorrect == Spec => []TypeOK
<1>1. ApiInv => TypeOK
  BY DEF ApiInv
<1> QED BY <1>1, ApiInvariant, PTL

\* An actor runs its commands first in, first out, whoever has gone, and never
\* has more of them waiting than its queue holds (mobile_api.py:91-132).
THEOREM CommandsInOrder == Spec => []FirstInFirstOut
<1>1. ApiInv => FirstInFirstOut
  BY DEF ApiInv
<1> QED BY <1>1, ApiInvariant, PTL

\* Every answer is that of its order, batches run in the order of the request,
\* and a call that returns has one answer for each order
\* (mobile_api.py:128, 208-222).
THEOREM AnswersBelong == Spec => []AnswersMatch
<1>1. ApiInv => AnswersMatch
  BY DEF ApiInv
<1> QED BY <1>1, ApiInvariant, PTL

\* No client that stays connected sees the book go back
\* (mobile_api.py:233-268).
THEOREM ViewsOnlyGrow == Spec => NeverBackwards
<1>1. ApiInv /\ [Next]_vars
      => [\A s \in Sockets : view'[s] >= view[s] \/ stream'[s] = "off"]_vars
  BY StepKeepsApiInv
<1> QED BY <1>1, ApiInvariant, PTL DEF Spec, NeverBackwards

=============================================================================
