----------------------------- MODULE FeedProofs -----------------------------
(***************************************************************************)
(* Theorems about MarketFeed and MarketHub for every number of changes,    *)
(* messages, connects and faults.  FeedInv is the invariant of the feed:   *)
(* the number a frame carries was read before its book was, so numbers and *)
(* versions are each in order along the way from the publisher to the      *)
(* client, but only together do they show that what the filter lets        *)
(* through is newer than all that was sent.                                *)
(***************************************************************************)
EXTENDS MarketHub, SequenceTheorems, TLAPS

\* The numbers of frames, from the one in the making to those sent.
Numbers ==
  /\ filter <= sequence
  /\ \A i \in DOMAIN down : down[i].seq <= filter
  /\ \A j \in DOMAIN channel : channel[j].seq <= sequence
  /\ \A i, j \in DOMAIN channel :
       i < j => channel[i].seq < channel[j].seq /\ NotOlder(channel[i], channel[j])
  /\ frame.maker = "publisher" =>
       /\ frame.seq <= sequence /\ filter < frame.seq
       /\ \A j \in DOMAIN channel : channel[j].seq < frame.seq
  /\ frame.maker = "gateway" =>
       /\ frame.seq <= sequence /\ filter <= frame.seq
       /\ \A j \in DOMAIN channel : channel[j].seq <= frame.seq

\* The versions of books, and what the client has seen is the oldest.
Versions ==
  /\ seen <= version
  /\ \A i \in DOMAIN down : seen <= down[i].version /\ down[i].version <= version
  /\ \A j \in DOMAIN channel :
       /\ channel[j].version <= version
       /\ channel[j].seq > filter => seen <= channel[j].version

\* SentInOrder, of what the client has not taken yet.
Sequenced ==
  /\ \A i, j \in 1 .. Len(down) :
       i < j => /\ NotOlder(down[i], down[j])
                /\ down[j].kind = "delta" => down[i].seq < down[j].seq
  /\ \A i \in 1 .. Len(down), j \in 1 .. Len(channel) :
       channel[j].seq > filter =>
         /\ NotOlder(down[i], channel[j])
         /\ down[i].seq < channel[j].seq

FeedInv == FeedTypeOK /\ Numbers /\ Versions /\ Sequenced

-----------------------------------------------------------------------------
(* Sequences of frames.                                                    *)

LEMMA FrameFields ==
  ASSUME NEW s \in Seq(Frame), NEW i \in DOMAIN s
  PROVE  s[i] \in Frame /\ s[i].seq \in Nat /\ s[i].version \in Nat
<1>1. i \in 1 .. Len(s)
  BY LenProperties
<1>2. s[i] \in Frame
  BY <1>1, ElementOfSeq
<1> QED BY <1>2 DEF Frame

LEMMA Appended ==
  ASSUME NEW s \in Seq(Frame), NEW f \in Frame
  PROVE  /\ Append(s, f) \in Seq(Frame) /\ DOMAIN Append(s, f) = 1 .. (Len(s) + 1)
         /\ Len(s) \in Nat /\ DOMAIN s = 1 .. Len(s) /\ Len(Append(s, f)) = Len(s) + 1
         /\ Append(s, f)[Len(s) + 1] = f
         /\ \A i \in 1 .. Len(s) : Append(s, f)[i] = s[i]
<1>1. /\ Append(s, f) \in Seq(Frame) /\ Len(Append(s, f)) = Len(s) + 1
      /\ Append(s, f)[Len(s) + 1] = f
      /\ \A i \in 1 .. Len(s) : Append(s, f)[i] = s[i]
  BY AppendProperties
<1>2. DOMAIN Append(s, f) = 1 .. Len(Append(s, f))
  BY <1>1, LenProperties
<1> QED BY <1>1, <1>2, LenProperties

LEMMA Shortened ==
  ASSUME NEW s \in Seq(Frame), s # <<>>
  PROVE  /\ Tail(s) \in Seq(Frame) /\ Head(s) \in Frame /\ Head(s) = s[1]
         /\ Len(s) \in Nat /\ Len(s) > 0 /\ Len(Tail(s)) = Len(s) - 1
         /\ DOMAIN s = 1 .. Len(s) /\ DOMAIN Tail(s) = 1 .. (Len(s) - 1)
         /\ \A i \in 1 .. (Len(s) - 1) : Tail(s)[i] = s[i + 1] /\ i + 1 \in 2 .. Len(s)
<1>1. Len(s) \in Nat /\ DOMAIN s = 1 .. Len(s) /\ Len(s) > 0
  BY LenProperties, EmptySeq
<1>2. /\ Tail(s) \in Seq(Frame) /\ Head(s) \in Frame /\ Len(Tail(s)) = Len(s) - 1
      /\ \A i \in 1 .. (Len(s) - 1) : Tail(s)[i] = s[i + 1]
  BY HeadTailProperties
<1>3. DOMAIN Tail(s) = 1 .. (Len(s) - 1)
  BY <1>2, LenProperties
<1>4. Head(s) = s[1]
  OBVIOUS
<1>5. \A i \in 1 .. (Len(s) - 1) : i + 1 \in 2 .. Len(s)
  BY <1>1
<1> QED BY <1>1, <1>2, <1>3, <1>4, <1>5

\* What the invariant says of the sequences, with the fields typed.
LEMMA Known ==
  ASSUME FeedInv
  PROVE  /\ channel \in Seq(Frame) /\ down \in Seq(Frame)
         /\ Len(channel) \in Nat /\ Len(down) \in Nat
         /\ DOMAIN channel = 1 .. Len(channel) /\ DOMAIN down = 1 .. Len(down)
         /\ \A i \in DOMAIN channel : channel[i].seq \in Nat /\ channel[i].version \in Nat
         /\ \A i \in DOMAIN down : down[i].seq \in Nat /\ down[i].version \in Nat
         /\ seen \in Nat /\ version \in Nat /\ sequence \in Nat /\ filter \in Nat
         /\ frame.seq \in Nat
<1>1. channel \in Seq(Frame) /\ down \in Seq(Frame)
  BY DEF FeedInv, FeedTypeOK
<1>2. seen \in Nat
  BY DEF FeedInv, FeedTypeOK
<1>3. \A i \in DOMAIN channel : channel[i].seq \in Nat /\ channel[i].version \in Nat
  BY <1>1, FrameFields
<1>4. \A i \in DOMAIN down : down[i].seq \in Nat /\ down[i].version \in Nat
  BY <1>1, FrameFields
<1>5. /\ Len(channel) \in Nat /\ Len(down) \in Nat
      /\ DOMAIN channel = 1 .. Len(channel) /\ DOMAIN down = 1 .. Len(down)
  BY <1>1, LenProperties
<1>6. frame.seq \in Nat /\ version \in Nat /\ sequence \in Nat /\ filter \in Nat
  BY DEF FeedInv, FeedTypeOK
<1> QED BY <1>1, <1>2, <1>3, <1>4, <1>5, <1>6

-----------------------------------------------------------------------------
(* Steps of the back end.                                                  *)

\* Changes of the book and new numbers.
LEMMA BackendKeeps ==
  ASSUME FeedInv, Place \/ Placed \/ Cancel \/ Feed \/ FeedChanged
  PROVE  FeedInv'
<1>1. /\ version' \in Nat /\ version' >= version
      /\ sequence' \in Nat /\ sequence' >= sequence
      /\ changes' \in Nat /\ locked' \in BOOLEAN /\ feeding' \in BOOLEAN
      /\ UNCHANGED <<frame, channel, subscribed, joining, filter, up, down, asked, seen, faults>>
  <2>1. /\ version \in Nat /\ sequence \in Nat /\ changes \in Nat /\ locked \in BOOLEAN
        /\ feeding \in BOOLEAN
    BY DEF FeedInv, FeedTypeOK
  <2>2. UNCHANGED <<frame, channel, subscribed, joining, filter, up, down, asked, seen, faults>>
    BY DEF Place, Placed, Cancel, Feed, FeedChanged, gateway, wire, client
  <2>3. locked' \in BOOLEAN /\ feeding' \in BOOLEAN
    BY <2>1 DEF Place, Placed, Cancel, Feed, FeedChanged
  <2>4. changes' \in {changes, changes + 1} /\ version' \in {version, version + 1}
        /\ sequence' \in {sequence, sequence + 1}
    BY DEF Place, Placed, Cancel, Feed, FeedChanged, Change
  <2> QED BY <2>1, <2>2, <2>3, <2>4
<1>2. FeedTypeOK' /\ Sequenced'
  BY <1>1 DEF FeedInv, FeedTypeOK, Sequenced, NotOlder
<1>3. Numbers'
  BY <1>1, Known DEF FeedInv, Numbers, NotOlder
<1>4. Versions'
  BY <1>1, Known DEF FeedInv, Versions, NotOlder
<1> QED BY <1>2, <1>3, <1>4 DEF FeedInv

LEMMA PublishKeeps ==
  ASSUME FeedInv, Publish
  PROVE  FeedInv'
<1>1. /\ sequence' = sequence + 1 /\ frame' = [maker |-> "publisher", seq |-> sequence + 1]
      /\ UNCHANGED <<version, changes, locked, feeding, channel, subscribed, joining, filter, up,
                     down, asked, seen, faults>>
  BY DEF Publish, gateway, wire, client
<1>2. FeedTypeOK' /\ Sequenced' /\ Versions'
  BY <1>1 DEF FeedInv, FeedTypeOK, Sequenced, Versions, NotOlder
<1>3. Numbers'
  BY <1>1, Known DEF FeedInv, Numbers, NotOlder
<1> QED BY <1>2, <1>3 DEF FeedInv

LEMMA PublishedKeeps ==
  ASSUME FeedInv, Published
  PROVE  FeedInv'
<1> DEFINE f == Made("delta")
           longer == Append(channel, f)
<1>1. /\ frame.maker = "publisher" /\ frame' = NoFrame
      /\ channel' = IF subscribed THEN longer ELSE channel
      /\ UNCHANGED <<sequence, version, changes, locked, feeding, subscribed, joining, filter, up,
                     down, asked, seen, faults>>
  BY DEF Published, backend, wire, client
<1>2. f \in Frame /\ f.seq = frame.seq /\ f.version = version
  BY Known DEF Made, Frame, FeedInv, FeedTypeOK
<1> HIDE DEF f
<1>3. CASE ~subscribed
  <2>1. channel' = channel /\ frame'.maker = "none" /\ frame'.seq = 0
    BY <1>1, <1>3 DEF NoFrame
  <2> QED BY <1>1, <2>1
          DEF FeedInv, FeedTypeOK, Sequenced, Numbers, Versions, NotOlder, NoFrame
<1>4. CASE subscribed
  <2>1. /\ channel' = longer /\ longer \in Seq(Frame)
        /\ Len(longer) = Len(channel) + 1 /\ DOMAIN longer = 1 .. (Len(channel) + 1)
        /\ longer[Len(channel) + 1] = f
        /\ \A i \in 1 .. Len(channel) : longer[i] = channel[i]
    BY <1>1, <1>2, <1>4, Known, Appended
  <2> HIDE DEF longer
  <2>2. frame'.maker = "none" /\ frame' \in [maker : {"none", "publisher", "gateway"}, seq : Nat]
    BY <1>1 DEF NoFrame
  <2>4. FeedTypeOK'
    BY <1>1, <2>1, <2>2 DEF FeedInv, FeedTypeOK
  <2>5. /\ \A j \in 1 .. Len(channel) : channel[j].seq < f.seq /\ channel[j].version <= f.version
        /\ f.seq <= sequence /\ filter < f.seq
    BY <1>1, <1>2, Known DEF FeedInv, Numbers, Versions
  <2>6. \A i, j \in DOMAIN longer :
          i < j => longer[i].seq < longer[j].seq /\ longer[i].version <= longer[j].version
    <3>1. ASSUME NEW i \in DOMAIN longer, NEW j \in DOMAIN longer, i < j
          PROVE  longer[i].seq < longer[j].seq /\ longer[i].version <= longer[j].version
      <4>1. i \in 1 .. Len(channel)
        BY <3>1, <2>1, Known
      <4>2. j = Len(channel) + 1 \/ j \in 1 .. Len(channel)
        BY <3>1, <2>1, Known
      <4> QED BY <3>1, <4>1, <4>2, <2>1, <2>5, Known DEF FeedInv, Numbers, NotOlder
    <3> QED BY <3>1
  <2>7. \A j \in DOMAIN longer : j = Len(channel) + 1 \/ j \in 1 .. Len(channel)
    BY <2>1, Known
  <2>8. Numbers'
    BY <1>1, <2>1, <2>2, <2>5, <2>6, <2>7, Known DEF FeedInv, Numbers, NotOlder
  <2>9. Versions'
    BY <1>1, <1>2, <2>1, <2>5, <2>7, Known DEF FeedInv, Versions, NotOlder
  <2>10. Sequenced'
    <3>1. ASSUME NEW i \in 1 .. Len(down), NEW j \in 1 .. Len(longer), longer[j].seq > filter
          PROVE  down[i].version <= longer[j].version /\ down[i].seq < longer[j].seq
      <4>1. down[i].version <= version /\ down[i].seq <= filter
        BY Known DEF FeedInv, Versions, Numbers
      <4>2. CASE j = Len(channel) + 1
        BY <4>1, <4>2, <1>2, <2>1, <2>5, Known
      <4>3. CASE j # Len(channel) + 1
        <5>1. j \in 1 .. Len(channel)
          BY <4>3, <2>1, Known
        <5> QED BY <5>1, <3>1, <2>1 DEF FeedInv, Sequenced, NotOlder
      <4> QED BY <4>2, <4>3
    <3> QED BY <3>1, <1>1, <2>1 DEF FeedInv, Sequenced, NotOlder
  <2> QED BY <2>4, <2>8, <2>9, <2>10 DEF FeedInv
<1> QED BY <1>3, <1>4

-----------------------------------------------------------------------------
(* Steps of the gateway.                                                   *)

LEMMA ShorterUp ==
  ASSUME FeedInv, up # <<>>
  PROVE  Tail(up) \in Seq(Message)
BY HeadTailProperties DEF FeedInv, FeedTypeOK

LEMMA GatewayReadsKeeps ==
  ASSUME FeedInv, GatewaySubscribe \/ GatewayUnsubscribe
  PROVE  FeedInv'
<1>1. /\ up # <<>> /\ up' = Tail(up)
      /\ subscribed' \in BOOLEAN /\ joining' \in BOOLEAN
      /\ UNCHANGED <<sequence, version, changes, locked, feeding, frame, channel, filter,
                     down, asked, seen, faults>>
  BY DEF GatewaySubscribe, GatewayUnsubscribe, backend, client, FeedInv, FeedTypeOK
<1>2. up' \in Seq(Message)
  BY <1>1, ShorterUp
<1> QED BY <1>1, <1>2
        DEF FeedInv, FeedTypeOK, Sequenced, Numbers, Versions, NotOlder

LEMMA GatewaySnapshotKeeps ==
  ASSUME FeedInv, GatewaySnapshot \/ GatewayResync
  PROVE  FeedInv'
<1>1. /\ \/ frame' = [maker |-> "gateway", seq |-> sequence]
         \/ frame' = frame
      /\ up' \in Seq(Message) /\ joining' \in BOOLEAN
      /\ UNCHANGED <<sequence, version, changes, locked, feeding, channel, subscribed,
                     filter, down, asked, seen, faults>>
  BY ShorterUp DEF GatewaySnapshot, GatewayResync, backend, gateway, wire, client, FeedInv, FeedTypeOK
<1>2. FeedTypeOK'
  BY <1>1 DEF FeedInv, FeedTypeOK
<1>3. Sequenced' /\ Versions'
  BY <1>1 DEF FeedInv, Sequenced, Versions, NotOlder
<1>4. Numbers'
  BY <1>1, Known DEF FeedInv, Numbers, NotOlder
<1> QED BY <1>2, <1>3, <1>4 DEF FeedInv

LEMMA GatewayAnswersKeeps ==
  ASSUME FeedInv, GatewayAnswers
  PROVE  FeedInv'
<1> DEFINE f == Made("snapshot")
           longer == Append(down, f)
<1>1. /\ frame.maker = "gateway" /\ frame' = NoFrame /\ filter' = frame.seq
      /\ down' = longer
      /\ UNCHANGED <<sequence, version, changes, locked, feeding, channel, subscribed, joining, up,
                     asked, seen, faults>>
  BY DEF GatewayAnswers, backend, client
<1>2. f \in Frame /\ f.seq = frame.seq /\ f.version = version /\ f.kind = "snapshot"
  BY Known DEF Made, Frame, FeedInv, FeedTypeOK
<1> HIDE DEF f
<1>3. /\ longer \in Seq(Frame)
      /\ Len(longer) = Len(down) + 1 /\ DOMAIN longer = 1 .. (Len(down) + 1)
      /\ longer[Len(down) + 1] = f
      /\ \A i \in 1 .. Len(down) : longer[i] = down[i]
  BY <1>2, Known, Appended
<1> HIDE DEF longer
<1>4. frame'.maker = "none" /\ frame' \in [maker : {"none", "publisher", "gateway"}, seq : Nat]
  BY <1>1 DEF NoFrame
<1>6. FeedTypeOK'
  BY <1>1, <1>3, <1>4, Known DEF FeedInv, FeedTypeOK
<1>7. /\ frame.seq <= sequence /\ filter <= frame.seq
      /\ \A j \in DOMAIN channel : ~(channel[j].seq > frame.seq)
  BY <1>1, Known DEF FeedInv, Numbers
<1>8. \A i \in DOMAIN longer : i = Len(down) + 1 \/ i \in 1 .. Len(down)
  BY <1>3, Known
<1>9. Numbers'
  BY <1>1, <1>2, <1>3, <1>4, <1>7, <1>8, Known DEF FeedInv, Numbers, NotOlder
<1>10. Versions'
  BY <1>1, <1>2, <1>3, <1>7, <1>8, Known DEF FeedInv, Versions, NotOlder
<1>11. Sequenced'
  <2>1. ASSUME NEW i \in 1 .. Len(longer), NEW j \in 1 .. Len(longer), i < j
        PROVE  /\ longer[i].version <= longer[j].version
               /\ longer[j].kind = "delta" => longer[i].seq < longer[j].seq
    <3>1. i \in 1 .. Len(down)
      BY <2>1, <1>3, Known
    <3>2. CASE j = Len(down) + 1
      BY <3>1, <3>2, <1>2, <1>3, Known DEF FeedInv, Versions
    <3>3. CASE j # Len(down) + 1
      <4>1. j \in 1 .. Len(down)
        BY <3>3, <1>3, Known
      <4> QED BY <4>1, <3>1, <2>1, <1>3 DEF FeedInv, Sequenced, NotOlder
    <3> QED BY <3>2, <3>3
  <2> QED BY <2>1, <1>1, <1>7, Known DEF Sequenced, NotOlder
<1> QED BY <1>6, <1>9, <1>10, <1>11 DEF FeedInv

LEMMA GatewayForwardKeeps ==
  ASSUME FeedInv, GatewayForward
  PROVE  FeedInv'
<1> DEFINE h == Head(channel)
           rest == Tail(channel)
           longer == Append(down, h)
<1>1. /\ frame = NoFrame /\ channel # <<>> /\ channel' = rest
      /\ IF subscribed /\ h.seq > filter THEN filter' = h.seq /\ down' = longer
                           ELSE UNCHANGED <<filter, down>>
      /\ UNCHANGED <<sequence, version, changes, locked, feeding, frame, subscribed, joining, up,
                     asked, seen, faults>>
  BY DEF GatewayForward, LoopFree, backend, client
<1>3. /\ rest \in Seq(Frame) /\ h \in Frame /\ h = channel[1]
      /\ Len(channel) > 0 /\ Len(rest) = Len(channel) - 1
      /\ DOMAIN rest = 1 .. (Len(channel) - 1)
      /\ \A j \in 1 .. (Len(channel) - 1) : rest[j] = channel[j + 1] /\ j + 1 \in 2 .. Len(channel)
  BY <1>1, Known, Shortened
<1>4. h.seq \in Nat /\ h.version \in Nat /\ 1 \in DOMAIN channel
  BY <1>3, Known
<1> HIDE DEF h, rest
<1>5. ASSUME NEW j \in DOMAIN rest
      PROVE  /\ j + 1 \in DOMAIN channel /\ rest[j] = channel[j + 1]
             /\ rest[j].seq \in Nat /\ rest[j].version \in Nat
             /\ h.seq < rest[j].seq /\ h.version <= rest[j].version
  <2>1. j + 1 \in DOMAIN channel /\ rest[j] = channel[j + 1] /\ 1 < j + 1
    BY <1>3, Known
  <2> QED BY <2>1, <1>3, <1>4, Known DEF FeedInv, Numbers, NotOlder
<1>6. frame.maker = "none"
  BY <1>1 DEF NoFrame
<1>7. \A i, j \in DOMAIN rest :
        i < j => rest[i].seq < rest[j].seq /\ rest[i].version <= rest[j].version
  <2>1. ASSUME NEW i \in DOMAIN rest, NEW j \in DOMAIN rest, i < j
        PROVE  rest[i].seq < rest[j].seq /\ rest[i].version <= rest[j].version
    <3>1. i + 1 < j + 1
      BY <2>1, <1>3
    <3> QED BY <3>1, <1>5 DEF FeedInv, Numbers, NotOlder
  <2> QED BY <2>1
<1>8. CASE ~(subscribed /\ h.seq > filter)
  <2>1. filter' = filter /\ down' = down
    BY <1>1, <1>8
  <2>2. FeedTypeOK'
    BY <1>1, <1>3, <2>1 DEF FeedInv, FeedTypeOK
  <2>3. Numbers'
    BY <1>1, <1>5, <1>6, <1>7, <2>1, Known DEF FeedInv, Numbers, NotOlder
  <2>4. Versions'
    BY <1>1, <1>5, <2>1 DEF FeedInv, Versions, NotOlder
  <2>5. Sequenced'
    <3>1. ASSUME NEW i \in 1 .. Len(down), NEW j \in 1 .. Len(rest), rest[j].seq > filter
          PROVE  down[i].version <= rest[j].version /\ down[i].seq < rest[j].seq
      <4>1. j \in DOMAIN rest
        BY <1>3
      <4>2. j + 1 \in 1 .. Len(channel) /\ rest[j] = channel[j + 1]
        BY <4>1, <1>5, Known
      <4> QED BY <4>2, <3>1 DEF FeedInv, Sequenced, NotOlder
    <3> QED BY <3>1, <1>1, <2>1 DEF FeedInv, Sequenced, NotOlder
  <2> QED BY <2>2, <2>3, <2>4, <2>5 DEF FeedInv
<1>9. CASE subscribed /\ h.seq > filter
  <2>1. filter' = h.seq /\ down' = longer
    BY <1>1, <1>9
  <2>2. /\ longer \in Seq(Frame)
        /\ Len(longer) = Len(down) + 1 /\ DOMAIN longer = 1 .. (Len(down) + 1)
        /\ longer[Len(down) + 1] = h
        /\ \A i \in 1 .. Len(down) : longer[i] = down[i]
    BY <1>3, Known, Appended
  <2> HIDE DEF longer
  <2>3. \A i \in DOMAIN longer : i = Len(down) + 1 \/ i \in 1 .. Len(down)
    BY <2>2, Known
  <2>4. /\ h.seq <= sequence /\ h.version <= version /\ seen <= h.version
        /\ \A i \in 1 .. Len(down) : down[i].version <= h.version /\ down[i].seq < h.seq
    <3>1. \A i \in 1 .. Len(down) : down[i].version <= h.version /\ down[i].seq < h.seq
      <4>1. 1 \in 1 .. Len(channel)
        BY <1>3, Known
      <4> QED BY <4>1, <1>3, <1>9 DEF FeedInv, Sequenced, NotOlder
    <3> QED BY <3>1, <1>3, <1>4, <1>9 DEF FeedInv, Numbers, Versions, NotOlder
  <2>5. FeedTypeOK'
    BY <1>1, <1>3, <1>4, <2>1, <2>2 DEF FeedInv, FeedTypeOK
  <2>6. Numbers'
    <3>1. \A i \in DOMAIN longer : longer[i].seq <= h.seq
      BY <1>4, <2>2, <2>3, <2>4, Known
    <3>2. \A j \in DOMAIN rest : rest[j].seq <= sequence
      BY <1>5 DEF FeedInv, Numbers
    <3>3. h.seq <= sequence
      BY <2>4
    <3> QED BY <1>1, <1>6, <1>7, <2>1, <3>1, <3>2, <3>3 DEF Numbers, NotOlder
  <2>7. Versions'
    <3>1. \A i \in DOMAIN longer : seen <= longer[i].version /\ longer[i].version <= version
      BY <2>2, <2>3, <2>4, Known DEF FeedInv, Versions, NotOlder
    <3>2. \A j \in DOMAIN rest : rest[j].version <= version /\ seen <= rest[j].version
      BY <1>4, <1>5, <2>4, Known DEF FeedInv, Versions
    <3> QED BY <1>1, <2>1, <3>1, <3>2 DEF FeedInv, Versions, NotOlder
  <2>8. Sequenced'
    <3>1. ASSUME NEW i \in 1 .. Len(longer), NEW j \in 1 .. Len(longer), i < j
          PROVE  /\ longer[i].version <= longer[j].version
                 /\ longer[j].kind = "delta" => longer[i].seq < longer[j].seq
      <4>1. i \in 1 .. Len(down)
        BY <3>1, <2>2, Known
      <4>2. CASE j = Len(down) + 1
        BY <4>1, <4>2, <2>2, <2>4
      <4>3. CASE j # Len(down) + 1
        <5>1. j \in 1 .. Len(down)
          BY <4>3, <2>2, Known
        <5> QED BY <5>1, <4>1, <3>1, <2>2 DEF FeedInv, Sequenced, NotOlder
      <4> QED BY <4>2, <4>3
    <3>2. ASSUME NEW i \in 1 .. Len(longer), NEW j \in 1 .. Len(rest)
          PROVE  longer[i].version <= rest[j].version /\ longer[i].seq < rest[j].seq
      <4>0. j \in DOMAIN rest
        BY <1>3
      <4>1. h.seq < rest[j].seq /\ h.version <= rest[j].version
            /\ rest[j].seq \in Nat /\ rest[j].version \in Nat
        BY <4>0, <1>5
      <4>2. longer[i].version <= h.version /\ longer[i].seq <= h.seq
            /\ longer[i].version \in Nat /\ longer[i].seq \in Nat
        <5>1. CASE i = Len(down) + 1
          BY <5>1, <1>4, <2>2
        <5>2. CASE i # Len(down) + 1
          <6>1. i \in 1 .. Len(down)
            BY <5>2, <2>2, <2>3
          <6>2. longer[i] = down[i] /\ down[i].version <= h.version /\ down[i].seq < h.seq
            BY <6>1, <2>2, <2>4
          <6>3. down[i].version \in Nat /\ down[i].seq \in Nat
            BY <6>1, Known
          <6> QED BY <6>2, <6>3, <1>4
        <5> QED BY <5>1, <5>2
      <4> QED BY <4>1, <4>2, <1>4
    <3>3. \A i, j \in 1 .. Len(longer) :
            i < j => /\ longer[i].version <= longer[j].version
                     /\ longer[j].kind = "delta" => longer[i].seq < longer[j].seq
      BY <3>1
    <3>4. \A i \in 1 .. Len(longer), j \in 1 .. Len(rest) :
            longer[i].version <= rest[j].version /\ longer[i].seq < rest[j].seq
      BY <3>2
    <3> QED BY <3>3, <3>4, <1>1, <2>1 DEF Sequenced, NotOlder
  <2> QED BY <2>5, <2>6, <2>7, <2>8 DEF FeedInv
<1> QED BY <1>8, <1>9

-----------------------------------------------------------------------------
(* Steps of the client.                                                    *)

LEMMA AskKeeps ==
  ASSUME FeedInv, Ask
  PROVE  FeedInv'
<1>1. PICK m \in Message : up' = Append(up, m)
  BY DEF Ask
<1>2. /\ asked' = asked + 1
      /\ UNCHANGED <<sequence, version, changes, locked, feeding, frame, channel,
                     subscribed, joining, filter, down, seen, faults>>
  BY DEF Ask, backend, gateway
<1>3. up' \in Seq(Message)
  BY <1>1, AppendProperties DEF FeedInv, FeedTypeOK
<1> QED BY <1>2, <1>3
        DEF FeedInv, FeedTypeOK, Sequenced, Numbers, Versions, NotOlder

LEMMA TakeKeeps ==
  ASSUME FeedInv, Take
  PROVE  FeedInv'
<1> DEFINE h == Head(down)
           rest == Tail(down)
<1>1. /\ down # <<>> /\ down' = rest /\ seen' = h.version
      /\ UNCHANGED <<sequence, version, changes, locked, feeding, frame, channel,
                     subscribed, joining, filter, up, asked, faults>>
  BY DEF Take, backend, gateway
<1>2. /\ rest \in Seq(Frame) /\ h \in Frame /\ h = down[1]
      /\ Len(down) > 0 /\ Len(rest) = Len(down) - 1
      /\ DOMAIN rest = 1 .. (Len(down) - 1)
      /\ \A j \in 1 .. (Len(down) - 1) : rest[j] = down[j + 1] /\ j + 1 \in 2 .. Len(down)
  BY <1>1, Known, Shortened
<1>3. h.seq \in Nat /\ h.version \in Nat /\ 1 \in DOMAIN down
  BY <1>2, Known
<1> HIDE DEF h, rest
<1>4. ASSUME NEW j \in DOMAIN rest
      PROVE  /\ j + 1 \in DOMAIN down /\ rest[j] = down[j + 1]
             /\ h.version <= rest[j].version
  <2>1. j + 1 \in 1 .. Len(down) /\ rest[j] = down[j + 1] /\ 1 < j + 1 /\ 1 \in 1 .. Len(down)
    BY <1>2, Known
  <2> QED BY <2>1, <1>2, Known DEF FeedInv, Sequenced, NotOlder
<1>5. FeedTypeOK'
  BY <1>1, <1>2, <1>3 DEF FeedInv, FeedTypeOK
<1>6. Numbers'
  BY <1>1, <1>4 DEF FeedInv, Numbers, NotOlder
<1>7. Versions'
  <2>1. \A j \in DOMAIN rest : h.version <= rest[j].version /\ rest[j].version <= version
    BY <1>4 DEF FeedInv, Versions
  <2>2. \A j \in DOMAIN channel : channel[j].seq > filter => h.version <= channel[j].version
    <3>1. ASSUME NEW j \in DOMAIN channel, channel[j].seq > filter
          PROVE  h.version <= channel[j].version
      <4>1. 1 \in 1 .. Len(down) /\ j \in 1 .. Len(channel)
        BY <1>3, Known
      <4> QED BY <4>1, <3>1, <1>2 DEF FeedInv, Sequenced, NotOlder
    <3> QED BY <3>1
  <2>3. h.version <= version
    BY <1>2, <1>3 DEF FeedInv, Versions
  <2> QED BY <2>1, <2>2, <2>3, <1>1 DEF FeedInv, Versions
<1>8. Sequenced'
  <2>1. ASSUME NEW i \in 1 .. Len(rest), NEW j \in 1 .. Len(rest), i < j
        PROVE  /\ rest[i].version <= rest[j].version
               /\ rest[j].kind = "delta" => rest[i].seq < rest[j].seq
    <3>1. /\ i + 1 \in 1 .. Len(down) /\ j + 1 \in 1 .. Len(down) /\ i + 1 < j + 1
          /\ rest[i] = down[i + 1] /\ rest[j] = down[j + 1]
      BY <2>1, <1>2, Known
    <3> QED BY <3>1 DEF FeedInv, Sequenced, NotOlder
  <2>2. ASSUME NEW i \in 1 .. Len(rest), NEW j \in 1 .. Len(channel), channel[j].seq > filter
        PROVE  rest[i].version <= channel[j].version /\ rest[i].seq < channel[j].seq
    <3>1. i + 1 \in 1 .. Len(down) /\ rest[i] = down[i + 1]
      BY <1>2, Known
    <3> QED BY <3>1, <2>2 DEF FeedInv, Sequenced, NotOlder
  <2> QED BY <2>1, <2>2, <1>1 DEF Sequenced, NotOlder
<1> QED BY <1>5, <1>6, <1>7, <1>8 DEF FeedInv

-----------------------------------------------------------------------------
(* Faults.                                                                 *)

\* Nothing of a connection is left, and a frame of the publisher goes on
\* unless its process has ended.
LEMMA CutKeeps ==
  ASSUME FeedInv, Break \/ Restart
  PROVE  FeedInv'
<1>1. /\ up' = <<>> /\ down' = <<>> /\ channel' = <<>>
      /\ subscribed' = FALSE /\ joining' = FALSE /\ filter' = 0
      /\ UNCHANGED <<changes, asked, seen>> /\ faults' = faults + 1
  BY DEF Break, Restart, Hangup, Fault, backend, client
<1>2. /\ sequence \in Nat /\ version \in Nat /\ changes \in Nat /\ locked \in BOOLEAN
      /\ feeding \in BOOLEAN /\ faults \in Nat
  BY DEF FeedInv, FeedTypeOK
<1>3. version' \in Nat /\ version' >= version /\ sequence' \in Nat
  <2>1. CASE Break
    BY <1>2, <2>1 DEF Break, backend
  <2>2. CASE Restart
    <3>1. sequence' = 0 /\ version' = version + 1
      BY <2>2 DEF Restart
    <3> QED BY <1>2, <3>1
  <2> QED BY <2>1, <2>2
<1>12. locked' \in BOOLEAN /\ feeding' \in BOOLEAN
  <2>1. CASE Break
    BY <1>2, <2>1 DEF Break, backend
  <2>2. CASE Restart
    <3>1. locked' = FALSE /\ feeding' = FALSE
      BY <2>2 DEF Restart
    <3> QED BY <3>1
  <2> QED BY <2>1, <2>2
<1>4. /\ <<>> \in Seq(Frame) /\ <<>> \in Seq(Message)
      /\ Len(<<>>) = 0 /\ DOMAIN <<>> = {}
  BY EmptySeq
<1>5. frame' = NoFrame \/ (frame' = frame /\ frame.maker # "gateway" /\ sequence' = sequence)
  BY DEF Break, Restart, backend
<1>6. /\ frame' \in [maker : {"none", "publisher", "gateway"}, seq : Nat]
      /\ frame'.maker # "gateway"
      /\ frame'.maker = "publisher" =>
           frame'.seq <= sequence' /\ filter < frame'.seq /\ frame'.seq \in Nat
  BY <1>5, Known DEF NoFrame, FeedInv, FeedTypeOK, Numbers
<1>7. FeedTypeOK'
  <2>1. changes' \in Nat /\ asked' \in Nat /\ seen' \in Nat /\ faults' \in Nat
    BY <1>1, <1>2 DEF FeedInv, FeedTypeOK
  <2>2. /\ up' \in Seq(Message) /\ down' \in Seq(Frame) /\ channel' \in Seq(Frame)
        /\ subscribed' \in BOOLEAN /\ joining' \in BOOLEAN /\ filter' \in Nat
    BY <1>1, <1>4
  <2> QED BY <1>3, <1>6, <1>12, <2>1, <2>2 DEF FeedTypeOK
<1>8. DOMAIN down' = {} /\ DOMAIN channel' = {} /\ 1 .. Len(down') = {}
  BY <1>1, <1>4
<1>9. Sequenced'
  BY <1>8 DEF Sequenced
<1>10. Numbers'
  <2>1. frame'.maker = "publisher" => filter' < frame'.seq
    BY <1>1, <1>6, Known
  <2> QED BY <1>1, <1>3, <1>6, <1>8, <2>1 DEF Numbers
<1>11. Versions'
  <2>1. seen' <= version'
    BY <1>1, <1>3, Known DEF FeedInv, Versions
  <2> QED BY <1>8, <2>1 DEF Versions
<1> QED BY <1>7, <1>9, <1>10, <1>11 DEF FeedInv

LEMMA LoseKeeps ==
  ASSUME FeedInv, Lose
  PROVE  FeedInv'
<1>1. /\ channel' = <<>> /\ faults' = faults + 1
      /\ UNCHANGED <<sequence, version, changes, locked, feeding, frame, subscribed,
                     joining, filter, up, down, asked, seen>>
  BY DEF Lose, Fault, backend, wire, client
<1>2. <<>> \in Seq(Frame) /\ Len(<<>>) = 0 /\ DOMAIN <<>> = {}
  BY EmptySeq
<1> QED BY <1>1, <1>2
        DEF FeedInv, FeedTypeOK, Numbers, Versions, Sequenced, NotOlder

\* Of the feed the hub uses up faults only.
LEMMA HubKeepsFeed ==
  ASSUME FeedInv, UNCHANGED <<backend, frame, gateway, wire, client>>, faults' \in Nat
  PROVE  FeedInv'
<1>1. UNCHANGED <<sequence, version, changes, locked, feeding, frame, channel,
                  subscribed, joining, filter, up, down, asked, seen>>
  BY DEF backend, gateway, wire, client
<1> QED BY <1>1 DEF FeedInv, FeedTypeOK, Numbers, Versions, Sequenced, NotOlder

-----------------------------------------------------------------------------
(* The whole of the feed.                                                  *)

LEMMA InitFeedInv == FeedInit => FeedInv
<1> SUFFICES ASSUME FeedInit PROVE FeedInv
  OBVIOUS
<1>1. /\ <<>> \in Seq(Frame) /\ <<>> \in Seq(Message)
      /\ Len(<<>>) = 0 /\ DOMAIN <<>> = {}
  BY EmptySeq
<1>2. faults \in Nat /\ asked \in Nat
  BY BoundsAssumption DEF FeedInit
<1>3. /\ down = <<>> /\ channel = <<>> /\ up = <<>> /\ frame = NoFrame /\ seen = 0
      /\ sequence = 0 /\ version = 1 /\ filter = 0
  BY DEF FeedInit
<1>4. FeedTypeOK
  <2>1. NoFrame \in [maker : {"none", "publisher", "gateway"}, seq : Nat]
    BY DEF NoFrame
  <2> QED BY <1>1, <1>2, <2>1 DEF FeedInit, FeedTypeOK
<1>5. Sequenced /\ Versions
  BY <1>1, <1>3 DEF Sequenced, Versions
<1>6. Numbers
  <2>1. frame.maker = "none"
    BY <1>3 DEF NoFrame
  <2> QED BY <1>1, <1>3, <2>1 DEF Numbers
<1> QED BY <1>4, <1>5, <1>6 DEF FeedInv

LEMMA StepKeepsFeedInv == FeedInv /\ [Next]_vars => FeedInv'
<1> SUFFICES ASSUME FeedInv, [Next]_vars PROVE FeedInv'
  OBVIOUS
<1>1. CASE FeedStep
  BY <1>1, BackendKeeps, PublishKeeps, PublishedKeeps, GatewayReadsKeeps,
     GatewaySnapshotKeeps, GatewayAnswersKeeps, GatewayForwardKeeps, AskKeeps, TakeKeeps,
     CutKeeps, LoseKeeps DEF FeedStep, Threads, Loop, Client
<1>2. CASE RestartAll
  BY <1>2, CutKeeps DEF RestartAll
<1>3. CASE UNCHANGED feedVars
  <2>1. UNCHANGED <<backend, frame, gateway, wire, client>> /\ faults' \in Nat
    BY <1>3 DEF feedVars, FeedInv, FeedTypeOK
  <2> QED BY <2>1, HubKeepsFeed
<1>4. CASE HubFaults /\ UNCHANGED <<backend, frame, gateway, wire, client>>
  <2>1. faults' = faults + 1
    BY <1>4 DEF HubFaults, NoToken, FetchFails, Fault
  <2>2. faults' \in Nat
    BY <2>1 DEF FeedInv, FeedTypeOK
  <2> QED BY <1>4, <2>2, HubKeepsFeed
<1> QED BY <1>1, <1>2, <1>3, <1>4 DEF Next, vars

-----------------------------------------------------------------------------
(* The phone.                                                              *)

\* The types of the hub, and a timer that will run out.
HubTyped ==
  /\ consumers \subseteq Consumers
  /\ socket \in BOOLEAN
  /\ reader \in Tasks \cup {Nil} /\ timer \in Tasks \cup {Nil}
  /\ at \in [Tasks -> Await]
  /\ got \in [Tasks -> Nat] /\ shown \in Nat
  /\ connects \in 0 .. MaxConnects
  /\ timer # Nil => at[timer] \in {"waiting", "due"}

HubInv == HubTyped /\ Alive

\* A task goes on, or ends in a hub that is stopped.
LEMMA MoveKeeps ==
  ASSUME HubInv, NEW t \in Tasks, NEW from, NEW to \in Await, Move(t, from, to),
         to = "ended" => consumers = {},
         timer' = Nil \/ (timer' = timer /\ (timer = t => to \in {"waiting", "due"})),
         socket' \in BOOLEAN, reader' \in Tasks \cup {Nil},
         got' \in [Tasks -> Nat], shown' \in Nat, UNCHANGED <<consumers, connects>>
  PROVE  HubInv'
<1>1. at' = [at EXCEPT ![t] = to] /\ at \in [Tasks -> Await]
  BY DEF Move, HubInv, HubTyped
<1>2. at' \in [Tasks -> Await] /\ at'[t] = to /\ \A u \in Tasks \ {t} : at'[u] = at[u]
  BY <1>1
<1>3. HubTyped'
  BY <1>2 DEF HubInv, HubTyped
<1>4. Alive'
  BY <1>2 DEF Alive
<1> QED BY <1>3, <1>4 DEF HubInv

\* A task that is not a timer leaves one behind, or knows of one.
LEMMA ScheduleKeeps ==
  ASSUME HubInv, NEW t \in Tasks, at[t] \in {"opening", "sending", "reading"},
         NEW places \in [Tasks -> Await],
         \A u \in Tasks : places[u] = at[u] \/ at[u] = "starting",
         ScheduleReconnect(t, places),
         socket' \in BOOLEAN, reader' \in Tasks \cup {Nil},
         UNCHANGED <<consumers, got, shown, connects>>
  PROVE  HubInv'
<1>1. /\ timer \in Tasks \cup {Nil} /\ (timer # Nil => at[timer] \in {"waiting", "due"})
      /\ got \in [Tasks -> Nat] /\ shown \in Nat /\ connects \in 0 .. MaxConnects
      /\ consumers \subseteq Consumers
  BY DEF HubInv, HubTyped
<1>2. CASE consumers # {} /\ timer = Nil
  <2>1. at' = [places EXCEPT ![t] = "waiting"] /\ timer' = t
    BY <1>2 DEF ScheduleReconnect, Stopped
  <2>2. at' \in [Tasks -> Await] /\ at'[t] = "waiting"
    BY <2>1 DEF Await
  <2>3. HubTyped'
    BY <1>1, <2>1, <2>2 DEF HubTyped
  <2>4. Alive'
    BY <2>2 DEF Alive
  <2> QED BY <2>3, <2>4 DEF HubInv
<1>3. CASE consumers = {} \/ timer # Nil
  <2>1. at' = [places EXCEPT ![t] = "ended"] /\ timer' = timer
    BY <1>3 DEF ScheduleReconnect, Stopped
  <2>2. /\ at' \in [Tasks -> Await]
        /\ \A u \in Tasks \ {t} : at'[u] = places[u]
    BY <2>1 DEF Await
  <2>3. ASSUME timer # Nil
        PROVE  timer \in Tasks /\ at'[timer] = at[timer]
    <3>0. timer \in Tasks \cup {Nil} /\ (timer # Nil => at[timer] \in {"waiting", "due"})
      BY <1>1
    <3>1. timer \in Tasks /\ at[timer] \in {"waiting", "due"}
      BY <2>3, <3>0
    <3>2. timer # t /\ at[timer] # "starting"
      BY <3>1
    <3>3. at'[timer] = places[timer]
      BY <2>2, <3>1, <3>2
    <3>4. places[timer] = at[timer]
      BY <3>1, <3>2
    <3> QED BY <3>1, <3>3, <3>4
  <2>4. HubTyped'
    BY <1>1, <2>1, <2>2, <2>3 DEF HubTyped
  <2>5. Alive'
    BY <1>1, <1>3, <2>3 DEF Alive
  <2> QED BY <2>4, <2>5 DEF HubInv
<1> QED BY <1>2, <1>3

LEMMA SocketStoppedShape ==
  ASSUME HubInv
  PROVE  /\ SocketStopped \in [Tasks -> Await]
         /\ \A u \in Tasks : SocketStopped[u] = at[u] \/ at[u] = "starting"
         /\ at \in [Tasks -> Await]
BY DEF HubInv, HubTyped, SocketStopped, Await

LEMMA TaskKeeps ==
  ASSUME HubInv, version \in Nat, NEW t \in Tasks, Task(t)
  PROVE  HubInv'
<1>1. /\ timer \in Tasks \cup {Nil} /\ (timer # Nil => at[timer] \in {"waiting", "due"})
      /\ socket \in BOOLEAN /\ reader \in Tasks \cup {Nil}
      /\ got \in [Tasks -> Nat] /\ shown \in Nat /\ Nil \in Nat /\ t # Nil
  BY DEF HubInv, HubTyped, Nil, Tasks
<1>2. {"ended", "opening", "sending", "starting", "reading", "due", "fetching",
       "answered"} \subseteq Await
  BY DEF Await
<1>3. CASE OpenSocket(t)
  <2>1. timer # t
    BY <1>1, <1>3 DEF OpenSocket, Move
  <2> QED BY <1>1, <1>2, <1>3, <2>1, MoveKeeps DEF OpenSocket
<1>4. CASE Sent(t)
  <2>1. timer # t
    BY <1>1, <1>4 DEF Sent, Move
  <2> QED BY <1>1, <1>2, <1>4, <2>1, MoveKeeps DEF Sent
<1>5. CASE SendFails(t)
  BY <1>1, <1>5, SocketStoppedShape, ScheduleKeeps DEF SendFails, StopSocket
<1>6. CASE ReadLoop(t)
  <2>1. timer # t
    BY <1>1, <1>6 DEF ReadLoop, Move
  <2>2. CASE consumers = {}
    <3>1. Move(t, "starting", "ended")
      BY <1>6, <2>2 DEF ReadLoop, Stopped
    <3> QED BY <1>1, <1>2, <1>6, <2>1, <2>2, <3>1, MoveKeeps DEF ReadLoop
  <2>3. CASE consumers # {}
    <3>1. Move(t, "starting", "reading")
      BY <1>6, <2>3 DEF ReadLoop, Stopped
    <3> QED BY <1>1, <1>2, <1>6, <2>1, <3>1, MoveKeeps DEF ReadLoop
  <2> QED BY <2>2, <2>3
<1>7. CASE ReadFails(t)
  <2>1. CASE consumers = {}
    <3>1. Move(t, "reading", "ended") /\ timer # t
      BY <1>1, <1>7, <2>1 DEF ReadFails, Stopped, Move
    <3>2. UNCHANGED <<socket, reader, timer, consumers, got, shown, connects>>
      BY <1>7, <2>1 DEF ReadFails, Stopped
    <3> QED BY <1>1, <1>2, <2>1, <3>1, <3>2, MoveKeeps
  <2>2. CASE consumers # {}
    BY <1>1, <1>7, <2>2, SocketStoppedShape, ScheduleKeeps DEF ReadFails, StopSocket, Stopped
  <2> QED BY <2>1, <2>2
<1>8. CASE Wake(t)
  BY <1>1, <1>2, <1>8, MoveKeeps DEF Wake
<1>9. CASE ReconnectNow(t)
  <2>1. CASE consumers = {}
    <3>1. Move(t, "due", "ended")
      BY <1>9, <2>1 DEF ReconnectNow, Stopped
    <3> QED BY <1>1, <1>2, <1>9, <2>1, <3>1, MoveKeeps DEF ReconnectNow
  <2>2. CASE consumers # {}
    <3>1. Move(t, "due", "fetching")
      BY <1>9, <2>2 DEF ReconnectNow, Stopped
    <3> QED BY <1>1, <1>2, <1>9, <3>1, MoveKeeps DEF ReconnectNow
  <2> QED BY <2>1, <2>2
<1>10. CASE Answer(t)
  <2>1. timer # t
    BY <1>1, <1>10 DEF Answer, Move
  <2>2. got' \in [Tasks -> Nat]
    BY <1>1, <1>10 DEF Answer
  <2> QED BY <1>1, <1>2, <1>10, <2>1, <2>2, MoveKeeps DEF Answer
<1>11. CASE Consume(t)
  <2>1. timer # t
    BY <1>1, <1>11 DEF Consume, Move
  <2>2. got' \in [Tasks -> Nat] /\ shown' \in Nat
    BY <1>1, <1>11 DEF Consume
  <2>3. CASE consumers = {}
    <3>1. Move(t, "answered", "ended")
      BY <1>11, <2>3 DEF Consume, Stopped
    <3> QED BY <1>1, <1>2, <1>11, <2>1, <2>2, <2>3, <3>1, MoveKeeps DEF Consume
  <2>4. CASE consumers # {}
    <3>1. Move(t, "answered", "opening")
      BY <1>11, <2>4 DEF Consume, Stopped
    <3> QED BY <1>1, <1>2, <1>11, <2>1, <2>2, <3>1, MoveKeeps DEF Consume
  <2> QED BY <2>3, <2>4
<1> QED BY <1>3, <1>4, <1>5, <1>6, <1>7, <1>8, <1>9, <1>10, <1>11 DEF Task

LEMMA HubFaultKeeps ==
  ASSUME HubInv, HubFaults
  PROVE  HubInv'
<1>1. PICK t \in Tasks : NoToken(t) \/ FetchFails(t)
  BY DEF HubFaults
<1>2. /\ timer \in Tasks \cup {Nil} /\ (timer # Nil => at[timer] \in {"waiting", "due"})
      /\ socket \in BOOLEAN /\ reader \in Tasks \cup {Nil}
      /\ got \in [Tasks -> Nat] /\ shown \in Nat /\ t # Nil
  BY DEF HubInv, HubTyped, Nil, Tasks
<1>3. CASE NoToken(t)
  BY <1>2, <1>3, SocketStoppedShape, ScheduleKeeps DEF NoToken
<1>4. CASE FetchFails(t)
  <2>1. timer # t
    BY <1>2, <1>4 DEF FetchFails, Move
  <2>2. "answered" \in Await
    BY DEF Await
  <2> QED BY <1>2, <1>4, <2>1, <2>2, MoveKeeps DEF FetchFails
<1> QED BY <1>1, <1>3, <1>4

\* connect and disconnect stop the socket and the timer together.
LEMMA CallKeeps ==
  ASSUME HubInv, Calls
  PROVE  HubInv'
<1>1. PICK c \in Consumers : Connect(c) \/ Disconnect(c)
  BY DEF Calls
<1>2. /\ timer \in Tasks \cup {Nil} /\ (timer # Nil => at[timer] \in {"waiting", "due"})
      /\ socket \in BOOLEAN /\ reader \in Tasks \cup {Nil} /\ at \in [Tasks -> Await]
      /\ got \in [Tasks -> Nat] /\ shown \in Nat /\ connects \in 0 .. MaxConnects
      /\ consumers \subseteq Consumers
  BY DEF HubInv, HubTyped
<1>3. Quietened \in [Tasks -> Await]
  BY SocketStoppedShape DEF Quietened, Await
<1>4. CASE Connect(c)
  <2>1. /\ connects' = connects + 1 /\ connects < MaxConnects
        /\ consumers' = consumers \cup {c} /\ UNCHANGED <<got, shown>>
    BY <1>4 DEF Connect
  <2>2. connects' \in Tasks /\ connects' \in 0 .. MaxConnects
    BY <1>2, <2>1, HubAssumption DEF Tasks
  <2>3. CASE c \notin consumers \/ ~socket
    <3>1. /\ at' = [Quietened EXCEPT ![connects'] = "opening"]
          /\ timer' = Nil /\ socket' = FALSE /\ reader' = Nil
      BY <1>4, <2>3 DEF Connect, StopSocket
    <3>2. at' \in [Tasks -> Await] /\ at'[connects'] = "opening"
      BY <1>3, <2>2, <3>1 DEF Await
    <3>3. HubTyped'
      BY <1>2, <2>1, <2>2, <3>1, <3>2 DEF HubTyped
    <3>4. Alive'
      BY <2>2, <3>2 DEF Alive
    <3> QED BY <3>3, <3>4 DEF HubInv
  <2>4. CASE c \in consumers /\ socket
    <3>1. UNCHANGED <<socket, reader, timer, at>> /\ consumers' = consumers
      BY <1>4, <2>1, <2>4 DEF Connect
    <3> QED BY <1>2, <2>1, <2>2, <3>1 DEF HubInv, HubTyped, Alive
  <2> QED BY <2>3, <2>4, <1>2
<1>5. CASE Disconnect(c)
  <2>1. consumers' = consumers \ {c} /\ UNCHANGED <<got, shown, connects>>
    BY <1>5 DEF Disconnect
  <2>2. CASE consumers' = {}
    <3>1. at' = Quietened /\ timer' = Nil /\ socket' = FALSE /\ reader' = Nil
      BY <1>5, <2>2 DEF Disconnect, StopSocket
    <3> QED BY <1>2, <1>3, <2>1, <2>2, <3>1 DEF HubInv, HubTyped, Alive
  <2>3. CASE consumers' # {}
    <3>1. UNCHANGED <<socket, reader, timer, at>> /\ consumers # {}
      BY <1>5, <2>1, <2>3 DEF Disconnect
    <3> QED BY <1>2, <2>1, <3>1 DEF HubInv, HubTyped, Alive
  <2> QED BY <2>2, <2>3
<1> QED BY <1>1, <1>4, <1>5

LEMMA RestartKeepsHub ==
  ASSUME HubInv, RestartAll
  PROVE  HubInv'
<1>1. PICK lost \in SUBSET {t \in Tasks : at[t] = "fetching"} :
        at' = [t \in Tasks |-> IF t \in lost THEN "answered" ELSE at[t]]
  BY DEF RestartAll
<1>2. /\ UNCHANGED <<consumers, socket, reader, timer, got, shown, connects>>
      /\ at \in [Tasks -> Await]
  BY DEF RestartAll, HubInv, HubTyped
<1>3. /\ at' \in [Tasks -> Await]
      /\ \A t \in Tasks : at'[t] = at[t] \/ (at[t] = "fetching" /\ at'[t] = "answered")
  BY <1>1, <1>2 DEF Await
<1> HIDE DEF Await
<1>4. HubTyped'
  <2>1. timer # Nil => timer \in Tasks /\ at[timer] \in {"waiting", "due"}
    BY DEF HubInv, HubTyped
  <2>2. timer # Nil => at'[timer] \in {"waiting", "due"}
    BY <1>3, <2>1
  <2> QED BY <1>2, <1>3, <2>2 DEF HubInv, HubTyped
<1>5. Alive'
  <2>1. consumers # {} => \E t \in Tasks : at[t] # "ended"
    BY DEF HubInv, Alive
  <2> QED BY <1>2, <1>3, <2>1 DEF Alive
<1> QED BY <1>4, <1>5 DEF HubInv

LEMMA InitHubInv == Init => HubInv
<1> SUFFICES ASSUME Init PROVE HubInv
  OBVIOUS
<1>1. /\ consumers = {} /\ socket = FALSE /\ reader = Nil /\ timer = Nil /\ shown = Nil
      /\ at = [t \in Tasks |-> "ended"] /\ got = [t \in Tasks |-> Nil]
      /\ connects \in 0 .. MaxConnects
  BY DEF Init
<1>2. Nil \in Nat /\ "ended" \in Await
  BY DEF Nil, Await
<1>3. HubTyped
  BY <1>1, <1>2 DEF HubTyped
<1> QED BY <1>1, <1>3 DEF HubInv, Alive

LEMMA StepKeepsHubInv == FeedInv /\ HubInv /\ [Next]_vars => HubInv'
<1> SUFFICES ASSUME FeedInv, HubInv, [Next]_vars PROVE HubInv'
  OBVIOUS
<1>1. CASE UNCHANGED hub
  BY <1>1 DEF hub, HubInv, HubTyped, Alive
<1>2. CASE RestartAll
  BY <1>2, RestartKeepsHub
<1>3. CASE Calls
  BY <1>3, CallKeeps
<1>4. ASSUME NEW t \in Tasks, Task(t) PROVE HubInv'
  BY <1>4, TaskKeeps DEF FeedInv, FeedTypeOK
<1>5. CASE HubFaults
  BY <1>5, HubFaultKeeps
<1> QED BY <1>1, <1>2, <1>3, <1>4, <1>5 DEF Next, vars

-----------------------------------------------------------------------------

\* The invariant of numbers and versions on the way from the publisher to the
\* client (_market_publisher, main.py:561; market_gateway, main.py:493).
THEOREM FeedInvariant == Spec => []FeedInv
<1>1. Init => FeedInv
  BY InitFeedInv DEF Init
<1> QED BY <1>1, StepKeepsFeedInv, PTL DEF Spec

\* The filter of the gateway lets nothing out of order through, wherever the
\* lock made a frame wait, whenever the client subscribes again, and over
\* lost connections (market_gateway, main.py:493).
THEOREM FramesInOrder == Spec => []SentInOrder
<1>1. FeedInv => SentInOrder
  BY Known DEF FeedInv, Versions, Sequenced, SentInOrder
<1> QED BY <1>1, FeedInvariant, PTL

\* The hub's handles and tasks, and that a screen is never left without a task
\* that goes on (MarketDataHub.swift:71-175).
THEOREM HubInvariant == Spec => []HubInv
BY InitHubInv, StepKeepsHubInv, FeedInvariant, PTL DEF Spec

\* While a screen shows the book the hub is on its way to the next snapshot
\* (scheduleReconnect, MarketDataHub.swift:150).
THEOREM HubAlive == Spec => []Alive
<1>1. HubInv => Alive
  BY DEF HubInv
<1> QED BY <1>1, HubInvariant, PTL

\* Every variable keeps its type, and the timer of the hub is a task that will
\* reconnect (market_gateway, main.py:493; scheduleReconnect,
\* MarketDataHub.swift:149).
THEOREM FeedTypeCorrect == Spec => []TypeOK
<1>1. FeedInv /\ HubInv => TypeOK
  BY DEF FeedInv, HubInv, HubTyped, TypeOK
<1> QED BY <1>1, FeedInvariant, HubInvariant, PTL

=============================================================================
