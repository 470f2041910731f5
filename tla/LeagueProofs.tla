---------------------------- MODULE LeagueProofs ----------------------------
(***************************************************************************)
(* Theorems about League for every size of the pool, every interval and    *)
(* every length of runs, rollouts, episodes and evaluations.  LeagueInv is *)
(* the invariant they rest on: that training plays its own past follows    *)
(* from what the pool keeps on disk, and that evaluations are what they    *)
(* say from where in its loops the process is and from the opponent that   *)
(* was set last.                                                           *)
(***************************************************************************)
EXTENDS League, SequenceTheorems, TLAPS

Names == {"nobody", "random_baseline", "gen_", "self"}
         \cup {Heuristics[k] : k \in DOMAIN Heuristics}

Player == [name : Names, place : Int, weights : Nat]

IsDisk(d) == d \in [DOMAIN d -> Nat] /\ DOMAIN d \subseteq Nat \ {0}

LeagueTyped ==
  /\ IsDisk(disk)
  /\ final \in Nat
  /\ checkpoints \in Seq(Nat)
  /\ generation \in Nat
  /\ calls \in Nat /\ last_snapshot \in Nat
  /\ model \in Nat /\ born \in Nat /\ born <= model
  /\ opponents \in Seq(Player)
  /\ forced \in Player /\ active \in Player
  /\ step_count \in Nat
  /\ phase \in {"idle", "train", "choose", "reset", "play", "done"}
  /\ contest \in Nat /\ episode \in Nat
  /\ results \in Seq([opponent : Player, wins : Nat])
  /\ faced \in Seq(Seq(Player))

\* PoolKept of any pool: `held' of generation g on disk d, with weights from
\* lo to hi.
Kept(held, g, d, lo, hi) ==
  /\ Len(held) = IF g < MaxSize THEN g ELSE MaxSize
  /\ \A k \in DOMAIN held : /\ held[k] = g - Len(held) + k
                            /\ held[k] \in DOMAIN d
                            /\ d[held[k]] \in lo .. hi
  /\ \A j, k \in DOMAIN held : j < k => d[held[j]] <= d[held[k]]
  /\ \A h \in DOMAIN d : h <= g => h > g - Len(held)

\* What an agent in training may meet.
FromItsPast(p, lo, hi) ==
  /\ p.weights \in {NoWeights} \cup lo .. hi
  /\ p = Baseline \/ p.weights # NoWeights

\* An opponent that was set comes from the pool; training sets none.
ForcedKnown ==
  /\ generation > 0 =>
       /\ born > 0
       /\ forced # Nobody => FromItsPast(forced, born, model)
  /\ phase = "train" =>
       /\ generation > 0 /\ forced = Nobody
       /\ contest = 0 /\ episode = 0 /\ results = <<>> /\ faced = <<>>

Evaluating == phase \in {"choose", "reset", "play"}

\* Where the two loops of an evaluation are, and what they have recorded.
EvaluationKnown ==
  /\ phase = "play" \/ (Evaluating /\ episode > 0) => Len(faced) = contest
  /\ phase # "play" /\ Evaluating /\ episode = 0 => Len(faced) = contest - 1
  /\ Evaluating =>
       /\ contest \in 1 .. Len(Contests)
       /\ episode < NumEpisodes
       /\ Len(results) = IF episode > 0 THEN contest ELSE contest - 1
       /\ \A c \in DOMAIN faced :
            /\ \A e \in DOMAIN faced[c] : faced[c][e] = Contests[c]
            /\ c < contest => Len(faced[c]) = NumEpisodes
            /\ c = contest => Len(faced[c]) = IF phase = "play" THEN episode + 1
                                              ELSE episode
       /\ \A c \in DOMAIN results :
            /\ results[c].opponent = Contests[c]
            /\ results[c].wins <= IF c < contest THEN NumEpisodes ELSE episode
  /\ phase = "reset" =>
       /\ forced = Contests[contest]
       /\ forced = Nobody => opponents = <<Nobody>>

LeagueInv ==
  /\ LeagueTyped
  /\ PoolKept
  /\ PlaysItsPast
  /\ ForcedKnown
  /\ EvaluationKnown
  /\ EvaluatedAsNamed

-----------------------------------------------------------------------------
(* The pool.                                                               *)

LEMMA Bounds ==
  /\ MaxSize \in Nat /\ MaxSize > 0 /\ SnapshotInterval \in Nat /\ RolloutSteps \in Nat
  /\ RolloutSteps > 0 /\ TotalSteps \in Nat /\ EpisodeLength \in Nat
  /\ NumEpisodes \in Nat /\ NumEpisodes > 0 /\ MaxRuns \in Nat
BY LeagueAssumption

LEMMA PoolKeptIsKept == PoolKept <=> Kept(checkpoints, generation, disk, born, model)
BY DEF PoolKept, Kept

LEMMA RemovedShape ==
  ASSUME NEW d, IsDisk(d), NEW g
  PROVE  /\ IsDisk(Removed(d, g))
         /\ DOMAIN Removed(d, g) = DOMAIN d \ {g}
         /\ \A h \in DOMAIN d \ {g} : Removed(d, g)[h] = d[h]
BY DEF IsDisk, Removed

\* A checkpoint with the newest weights is added to a pool that is kept.
LEMMA AddCheckpointKeeps ==
  ASSUME NEW held \in Seq(Nat), NEW g \in Nat, NEW d, IsDisk(d),
         NEW w \in Nat, NEW lo \in Nat, lo <= w,
         Kept(held, g, d, lo, w), AddCheckpoint(held, g, d, w)
  PROVE  /\ Kept(checkpoints', generation', disk', lo, w)
         /\ checkpoints' \in Seq(Nat) /\ generation' \in Nat /\ generation' > 0
         /\ IsDisk(disk')
<1> DEFINE all == Append(held, g + 1)
           saved == Saved(d, g + 1, w)
           n == Len(held)
<1>1. /\ n \in Nat /\ DOMAIN held = 1 .. n /\ MaxSize \in Nat /\ MaxSize > 0
      /\ generation' = g + 1 /\ g + 1 \in Nat \ {0}
  BY LenProperties, Bounds DEF AddCheckpoint
<1>2. /\ all \in Seq(Nat) /\ Len(all) = n + 1 /\ DOMAIN all = 1 .. (n + 1)
      /\ all[n + 1] = g + 1
      /\ \A k \in 1 .. n : all[k] = held[k]
  <2>1. /\ all \in Seq(Nat) /\ Len(all) = n + 1 /\ all[n + 1] = g + 1
        /\ \A k \in 1 .. n : all[k] = held[k]
    BY <1>1, AppendProperties
  <2>2. DOMAIN all = 1 .. Len(all)
    BY <2>1, LenProperties
  <2> QED BY <2>1, <2>2
<1>3. /\ IsDisk(saved) /\ DOMAIN saved = DOMAIN d \cup {g + 1} /\ saved[g + 1] = w
      /\ \A h \in DOMAIN d : h # g + 1 => saved[h] = d[h]
  <2> DEFINE m == g + 1
  <2>1. m \in Nat \ {0}
    BY <1>1
  <2> HIDE DEF m
  <2>2. /\ IsDisk(Saved(d, m, w)) /\ DOMAIN Saved(d, m, w) = DOMAIN d \cup {m}
        /\ Saved(d, m, w)[m] = w
        /\ \A h \in DOMAIN d : h # m => Saved(d, m, w)[h] = d[h]
    BY <2>1 DEF Saved, IsDisk
  <2> QED BY <2>2 DEF m
<1>4. /\ n = IF g < MaxSize THEN g ELSE MaxSize
      /\ \A k \in 1 .. n : /\ held[k] = g - n + k
                          /\ held[k] \in DOMAIN d
                          /\ d[held[k]] \in lo .. w
      /\ \A j, k \in 1 .. n : j < k => d[held[j]] <= d[held[k]]
      /\ \A h \in DOMAIN d : h <= g => h > g - n
  BY <1>1 DEF Kept
<1> HIDE DEF all, saved
<1>5. \A k \in 1 .. (n + 1) : all[k] = g - n + k
  BY SMTT(20), <1>1, <1>2, <1>4
<1>6. \A k \in 1 .. n : saved[all[k]] = d[held[k]] /\ all[k] \in DOMAIN saved
  BY <1>1, <1>2, <1>3, <1>4
<1>7. \A k \in 1 .. (n + 1) : all[k] \in DOMAIN saved /\ saved[all[k]] \in lo .. w
  <2>1. ASSUME NEW k \in 1 .. (n + 1)
        PROVE  all[k] \in DOMAIN saved /\ saved[all[k]] \in lo .. w
    <3>1. CASE k = n + 1
      BY <3>1, <1>2, <1>3
    <3>2. CASE k # n + 1
      <4>1. k \in 1 .. n
        BY <3>2, <1>1
      <4> QED BY <4>1, <1>4, <1>6
    <3> QED BY <3>1, <3>2
  <2> QED BY <2>1
<1>8. \A j, k \in 1 .. (n + 1) : j < k => saved[all[j]] <= saved[all[k]]
  <2>1. ASSUME NEW j \in 1 .. (n + 1), NEW k \in 1 .. (n + 1), j < k
        PROVE  saved[all[j]] <= saved[all[k]]
    <3>0. j \in 1 .. n
      BY <2>1, <1>1
    <3>1. CASE k = n + 1
      <4>1. saved[all[k]] = w /\ saved[all[j]] \in lo .. w
        BY <3>1, <1>2, <1>3, <1>7
      <4> QED BY <4>1
    <3>2. CASE k # n + 1
      <4>1. k \in 1 .. n
        BY <3>2, <1>1
      <4> QED BY <4>1, <3>0, <2>1, <1>4, <1>6
    <3> QED BY <3>1, <3>2
  <2> QED BY <2>1
<1>9. \A h \in DOMAIN saved : h <= g + 1 => h > g - n
  <2>1. ASSUME NEW h \in DOMAIN saved, h <= g + 1
        PROVE  h > g - n
    <3>1. CASE h = g + 1
      BY <3>1, <1>1
    <3>2. CASE h # g + 1
      <4>1. h \in DOMAIN d /\ h \in Nat
        BY <3>2, <1>3 DEF IsDisk
      <4>2. h <= g
        BY <4>1, <3>2, <2>1, <1>1
      <4> QED BY <4>1, <4>2, <1>4
    <3> QED BY <3>1, <3>2
  <2> QED BY <2>1
<1>10. CASE n < MaxSize
  <2>1. checkpoints' = all /\ disk' = saved
    BY <1>10 DEF AddCheckpoint, all, saved
  <2>2. n = g
    BY <1>1, <1>4, <1>10
  <2>3. Kept(all, g + 1, saved, lo, w)
    <3>1. Len(all) = IF g + 1 < MaxSize THEN g + 1 ELSE MaxSize
      BY <1>1, <1>2, <1>10, <2>2
    <3>2. \A k \in 1 .. (n + 1) : all[k] = (g + 1) - Len(all) + k
      BY <1>1, <1>2, <1>5
    <3>3. \A h \in DOMAIN saved : h <= g + 1 => h > (g + 1) - Len(all)
      BY <1>1, <1>2, <1>9
    <3> QED BY <3>1, <3>2, <3>3, <1>2, <1>7, <1>8 DEF Kept
  <2> QED BY <2>1, <2>3, <1>1, <1>2, <1>3
<1>11. CASE ~(n < MaxSize)
  <2> DEFINE tail == Tail(all)
             kept == Removed(saved, Head(all))
  <2>1. checkpoints' = tail /\ disk' = kept
    BY <1>11 DEF AddCheckpoint, all, saved
  <2>2. n = MaxSize /\ ~(g < MaxSize)
    BY <1>1, <1>4, <1>11
  <2>3. /\ tail \in Seq(Nat) /\ Len(tail) = n
        /\ \A k \in 1 .. n : tail[k] = all[k + 1]
        /\ Head(all) = all[1]
    <3>1. all # <<>>
      BY <1>1, <1>2, EmptySeq
    <3>2. Head(all) = all[1]
      OBVIOUS
    <3> QED BY <3>1, <3>2, <1>1, <1>2, HeadTailProperties
  <2>4. DOMAIN tail = 1 .. n
    BY <2>3, LenProperties
  <2>5. all[1] = g - n + 1
    BY <1>1, <1>5
  <2>6. /\ IsDisk(kept) /\ DOMAIN kept = DOMAIN saved \ {all[1]}
        /\ \A h \in DOMAIN saved \ {all[1]} : kept[h] = saved[h]
    <3>1. kept = Removed(saved, all[1])
      BY <2>3
    <3> HIDE DEF kept
    <3> QED BY <3>1, <1>3, RemovedShape
  <2> HIDE DEF tail, kept
  <2>7. ASSUME NEW k \in 1 .. n
        PROVE  /\ k + 1 \in 1 .. (n + 1) /\ tail[k] = all[k + 1]
               /\ tail[k] = (g + 1) - n + k /\ all[k + 1] # all[1]
               /\ tail[k] \in DOMAIN kept /\ kept[tail[k]] = saved[all[k + 1]]
    <3>1. k + 1 \in 1 .. (n + 1) /\ tail[k] = all[k + 1]
      BY <1>1, <2>3
    <3>2. all[k + 1] = g - n + (k + 1)
      BY <3>1, <1>5
    <3>3. all[k + 1] = (g + 1) - n + k /\ all[k + 1] # all[1]
      BY <3>2, <2>5, <1>1
    <3>4. all[k + 1] \in DOMAIN saved
      BY <3>1, <1>7
    <3> QED BY <3>1, <3>3, <3>4, <2>6
  <2>8. Kept(tail, g + 1, kept, lo, w)
    <3>1. Len(tail) = IF g + 1 < MaxSize THEN g + 1 ELSE MaxSize
      BY <1>1, <2>2, <2>3
    <3>2. \A k \in 1 .. n : /\ tail[k] = (g + 1) - Len(tail) + k
                           /\ tail[k] \in DOMAIN kept
                           /\ kept[tail[k]] \in lo .. w
      BY <2>3, <2>7, <1>7
    <3>3. \A j, k \in 1 .. n : j < k => kept[tail[j]] <= kept[tail[k]]
      <4>1. ASSUME NEW j \in 1 .. n, NEW k \in 1 .. n, j < k
            PROVE  kept[tail[j]] <= kept[tail[k]]
        <5>1. j + 1 < k + 1
          BY <4>1
        <5> QED BY <5>1, <2>7, <1>8
      <4> QED BY <4>1
    <3>4. \A h \in DOMAIN kept : h <= g + 1 => h > (g + 1) - Len(tail)
      <4>1. ASSUME NEW h \in DOMAIN kept, h <= g + 1
            PROVE  h > (g + 1) - n
        <5>1. h \in DOMAIN saved /\ h # g - n + 1 /\ h \in Nat
          BY <2>5, <2>6 DEF IsDisk
        <5>2. h > g - n
          BY <5>1, <4>1, <1>9
        <5> QED BY <5>1, <5>2, <1>1
      <4> QED BY <4>1, <2>3
    <3> QED BY <3>1, <3>2, <3>3, <3>4, <2>4 DEF Kept
  <2> QED BY <2>1, <2>3, <2>6, <2>8, <1>1 DEF tail
<1> QED BY <1>10, <1>11

\* The opponents a pool that is kept gives the environment.
LEMMA RefreshedShape ==
  ASSUME NEW held \in Seq(Nat), NEW g \in Nat, NEW d, IsDisk(d),
         NEW lo \in Nat \ {0}, NEW hi \in Nat, Kept(held, g, d, lo, hi)
  PROVE  /\ Refreshed(held, d) \in Seq(Player)
         /\ Len(Refreshed(held, d)) = Len(held) + 1
         /\ \A k \in DOMAIN Refreshed(held, d) :
              /\ FromItsPast(Refreshed(held, d)[k], lo, hi)
              /\ Refreshed(held, d)[k] # Nobody
<1> DEFINE n == Len(held)
           loaded == [k \in 1 .. n |-> Loaded(held, d, k)]
<1>1. n \in Nat /\ DOMAIN held = 1 .. n
  BY LenProperties
<1>2. Baseline \in Player /\ Baseline # Nobody /\ FromItsPast(Baseline, lo, hi)
  <2>1. /\ Baseline \in Player /\ Baseline.weights = NoWeights
        /\ Baseline.name = "random_baseline" /\ Nobody.name = "nobody"
    BY DEF Baseline, Nobody, Opponent, Player, Names, NoWeights
  <2> QED BY <2>1 DEF FromItsPast
<1>3. ASSUME NEW k \in 1 .. n
      PROVE  /\ Loaded(held, d, k) \in Player
             /\ Loaded(held, d, k) # Nobody
             /\ FromItsPast(Loaded(held, d, k), lo, hi)
  <2>1. held[k] \in DOMAIN d /\ d[held[k]] \in lo .. hi /\ d[held[k]] \in Nat
    BY <1>1, <1>3 DEF Kept, IsDisk
  <2>2. Loaded(held, d, k) = [name |-> "gen_", place |-> k - 1, weights |-> d[held[k]]]
    BY <2>1 DEF Loaded, Opponent
  <2>3. /\ Loaded(held, d, k) \in Player /\ Loaded(held, d, k).name = "gen_"
        /\ Loaded(held, d, k).weights = d[held[k]]
    BY <1>3, <2>1, <2>2 DEF Player, Names
  <2>4. Nobody.name = "nobody"
    BY DEF Nobody, Opponent
  <2>5. d[held[k]] # NoWeights
    BY <2>1 DEF NoWeights
  <2> QED BY <2>1, <2>3, <2>4, <2>5 DEF FromItsPast
<1>4. loaded \in Seq(Player) /\ Len(loaded) = n
  BY <1>1, <1>3, IsASeq
<1>5. <<Baseline>> \in Seq(Player) /\ Len(<<Baseline>>) = 1 /\ <<Baseline>>[1] = Baseline
  BY <1>2
<1>6. Refreshed(held, d) = <<Baseline>> \o loaded
  BY DEF Refreshed
<1> DEFINE first == <<Baseline>>
<1> HIDE DEF loaded, first
<1>7. /\ first \o loaded \in Seq(Player)
      /\ Len(first \o loaded) = 1 + n
      /\ \A k \in 1 .. (1 + n) : (first \o loaded)[k] = IF k <= 1 THEN first[k]
                                                    ELSE loaded[k - 1]
  <2>1. first \in Seq(Player) /\ Len(first) = 1
    BY <1>5 DEF first
  <2>2. /\ first \o loaded \in Seq(Player)
        /\ Len(first \o loaded) = Len(first) + Len(loaded)
        /\ \A k \in 1 .. Len(first) + Len(loaded) :
             (first \o loaded)[k] = IF k <= Len(first) THEN first[k]
                                    ELSE loaded[k - Len(first)]
    BY <2>1, <1>4, ConcatProperties
  <2> QED BY <2>1, <2>2, <1>4
<1>8. ASSUME NEW k \in 1 .. (1 + n)
      PROVE  /\ FromItsPast((first \o loaded)[k], lo, hi)
             /\ (first \o loaded)[k] # Nobody
  <2>1. CASE k = 1
    BY <2>1, <1>2, <1>5, <1>7 DEF first
  <2>2. CASE k # 1
    <3>1. k - 1 \in 1 .. n /\ ~(k <= 1)
      BY <2>2, <1>1
    <3> QED BY <3>1, <1>3, <1>7 DEF loaded
  <2> QED BY <2>1, <2>2
<1>9. DOMAIN (first \o loaded) = 1 .. (1 + n)
  BY <1>7, LenProperties
<1>10. 1 + n = n + 1
  BY <1>1
<1> QED BY <1>6, <1>7, <1>8, <1>9, <1>10 DEF first

-----------------------------------------------------------------------------
(* Training.                                                               *)

LEMMA StartTrainingKeeps ==
  ASSUME LeagueInv, StartTraining
  PROVE  LeagueInv'
<1> DEFINE w == model + 1
<1>1. /\ IsDisk(disk) /\ w \in Nat /\ w > 0 /\ final \in Nat
  BY DEF LeagueInv, LeagueTyped
<1>2. /\ AddCheckpoint(<<>>, 0, disk, w) /\ model' = w /\ born' = w
      /\ calls' = 0 /\ last_snapshot' = 0 /\ step_count' = 0
      /\ opponents' = Refreshed(checkpoints', disk')
      /\ active' \in {opponents'[k] : k \in DOMAIN opponents'}
      /\ forced' = Nobody /\ phase' = "train" /\ contest' = 0 /\ episode' = 0
      /\ results' = <<>> /\ faced' = <<>> /\ final' = final
  BY DEF StartTraining
<1>3. <<>> \in Seq(Nat) /\ Len(<<>>) = 0 /\ DOMAIN <<>> = {}
      /\ <<>> \in Seq([opponent : Player, wins : Nat]) /\ <<>> \in Seq(Seq(Player))
  BY EmptySeq
<1>4. Kept(<<>>, 0, disk, w, w)
  BY <1>1, <1>3, Bounds DEF Kept, IsDisk
<1> HIDE DEF w
<1>5. /\ Kept(checkpoints', generation', disk', w, w)
      /\ checkpoints' \in Seq(Nat) /\ generation' \in Nat /\ generation' > 0
      /\ IsDisk(disk')
  <2> DEFINE none == <<>>
  <2>1. none \in Seq(Nat) /\ Kept(none, 0, disk, w, w) /\ AddCheckpoint(none, 0, disk, w)
    BY <1>2, <1>3, <1>4
  <2> HIDE DEF none
  <2> QED BY <2>1, <1>1, AddCheckpointKeeps
<1>6. /\ opponents' \in Seq(Player)
      /\ \A k \in DOMAIN opponents' : FromItsPast(opponents'[k], w, w)
  BY <1>1, <1>2, <1>5, RefreshedShape
<1>7. active' \in Player /\ FromItsPast(active', w, w)
  BY <1>2, <1>6, ElementOfSeq, LenProperties
<1>8. Nobody \in Player
  BY DEF Nobody, Opponent, Player, Names, NoWeights
<1>9. LeagueTyped'
  BY <1>1, <1>2, <1>3, <1>5, <1>6, <1>7, <1>8 DEF LeagueTyped
<1>10. PoolKept'
  BY <1>2, <1>5 DEF PoolKept, Kept
<1>11. PlaysItsPast'
  BY <1>2, <1>7 DEF PlaysItsPast, FromItsPast
<1>12. ForcedKnown'
  BY <1>1, <1>2, <1>5 DEF ForcedKnown
<1>13. EvaluationKnown' /\ EvaluatedAsNamed'
  BY <1>2, <1>3 DEF EvaluationKnown, Evaluating, EvaluatedAsNamed
<1> QED BY <1>9, <1>10, <1>11, <1>12, <1>13 DEF LeagueInv

\* Newer weights make the past longer.
LEMMA LongerPast ==
  ASSUME NEW lo \in Nat, NEW hi \in Nat, NEW higher \in Nat, hi <= higher
  PROVE  /\ \A held, g, d : Kept(held, g, d, lo, hi) => Kept(held, g, d, lo, higher)
         /\ \A p : FromItsPast(p, lo, hi) => FromItsPast(p, lo, higher)
<1>1. lo .. hi \subseteq lo .. higher
  OBVIOUS
<1> QED BY <1>1 DEF Kept, FromItsPast

LEMMA TrainStepKeeps ==
  ASSUME LeagueInv, TrainStep
  PROVE  LeagueInv'
<1>1. /\ LeagueTyped /\ phase = "train" /\ generation > 0 /\ forced = Nobody
      /\ contest = 0 /\ episode = 0 /\ results = <<>> /\ faced = <<>>
      /\ born \in Nat \ {0} /\ born <= model
      /\ opponents = Refreshed(checkpoints, disk)
      /\ FromItsPast(active, born, model)
  BY DEF TrainStep, LeagueInv, ForcedKnown, PlaysItsPast, FromItsPast, LeagueTyped
<1>2. Kept(checkpoints, generation, disk, born, model)
  BY PoolKeptIsKept DEF LeagueInv
<1>3. /\ IF Truncated THEN Reset(opponents)
         ELSE step_count' = step_count + 1 /\ active' = active /\ forced' = forced
      /\ OnStep
      /\ model' \in {model, model + 1}
      /\ UNCHANGED <<episode, results, faced, born>>
      /\ final' \in {final, model'}
      /\ \/ phase' = "train" /\ contest' = 0
         \/ phase' = "choose" /\ contest' = 1
  BY DEF TrainStep
<1>4. /\ model \in Nat /\ model' \in Nat /\ model <= model' /\ IsDisk(disk)
      /\ checkpoints \in Seq(Nat) /\ generation \in Nat /\ step_count \in Nat
      /\ calls \in Nat /\ last_snapshot \in Nat /\ final \in Nat
  BY <1>1, <1>3 DEF LeagueTyped
<1>5. /\ opponents \in Seq(Player)
      /\ \A k \in DOMAIN opponents : FromItsPast(opponents[k], born, model)
  BY <1>1, <1>2, <1>4, RefreshedShape
<1>6. /\ active' \in Player /\ FromItsPast(active', born, model) /\ forced' = Nobody
      /\ step_count' \in Nat
  <2>1. CASE Truncated
    <3>1. active' \in {opponents[k] : k \in DOMAIN opponents} /\ forced' = Nobody
          /\ step_count' = 0
      BY <2>1, <1>1, <1>3 DEF Reset, SampleOpponent
    <3> QED BY <3>1, <1>5, ElementOfSeq, LenProperties
  <2>2. CASE ~Truncated
    BY <2>2, <1>1, <1>3, <1>4 DEF LeagueTyped
  <2> QED BY <2>1, <2>2
<1>7. /\ Kept(checkpoints', generation', disk', born, model)
      /\ checkpoints' \in Seq(Nat) /\ generation' \in Nat /\ generation' > 0
      /\ IsDisk(disk') /\ opponents' = Refreshed(checkpoints', disk')
      /\ calls' \in Nat /\ last_snapshot' \in Nat
  <2>1. CASE calls + 1 - last_snapshot >= SnapshotInterval
    <3>1. /\ AddCheckpoint(checkpoints, generation, disk, model)
          /\ opponents' = Refreshed(checkpoints', disk')
          /\ calls' = calls + 1 /\ last_snapshot' = calls + 1
      BY <2>1, <1>3 DEF OnStep
    <3> QED BY <3>1, <1>1, <1>2, <1>4, AddCheckpointKeeps
  <2>2. CASE ~(calls + 1 - last_snapshot >= SnapshotInterval)
    <3>1. UNCHANGED <<last_snapshot, disk, checkpoints, generation, opponents>>
          /\ calls' = calls + 1
      BY <2>2, <1>3 DEF OnStep, pool
    <3> QED BY <3>1, <1>1, <1>2, <1>4
  <2> QED BY <2>1, <2>2
<1>8. /\ opponents' \in Seq(Player) /\ Len(opponents') = Len(checkpoints') + 1
      /\ Len(checkpoints') \in Nat
  BY <1>1, <1>4, <1>7, RefreshedShape, LenProperties
<1>9. /\ Kept(checkpoints', generation', disk', born, model')
      /\ FromItsPast(active', born, model')
  BY <1>1, <1>4, <1>6, <1>7, LongerPast
<1>10. LeagueTyped'
  <2>1. Nobody \in Player
    BY DEF Nobody, Opponent, Player, Names, NoWeights
  <2>2. born' \in Nat /\ born' <= model' /\ final' \in Nat
    BY <1>1, <1>3, <1>4
  <2>3. phase' \in {"train", "choose"} /\ contest' \in Nat /\ episode' \in Nat
    BY <1>1, <1>3
  <2>4. results' = results /\ faced' = faced
    BY <1>3
  <2> QED BY <2>1, <2>2, <2>3, <2>4, <1>1, <1>4, <1>6, <1>7, <1>8 DEF LeagueTyped
<1>11. PoolKept' /\ PlaysItsPast'
  BY <1>3, <1>7, <1>9 DEF PoolKept, Kept, PlaysItsPast, FromItsPast
<1>12. ForcedKnown'
  BY <1>1, <1>3, <1>6, <1>7 DEF ForcedKnown
<1>13. EvaluationKnown' /\ EvaluatedAsNamed'
  <2>1. results' = <<>> /\ faced' = <<>> /\ episode' = 0
    BY <1>1, <1>3
  <2>2. Len(<<>>) = 0 /\ DOMAIN <<>> = {}
    OBVIOUS
  <2>3. Contests' = opponents'
    BY <1>7 DEF Contests
  <2>4. phase' = "choose" => contest' = 1 /\ 1 \in 1 .. Len(Contests')
    BY <1>3, <1>8, <2>3
  <2> QED BY <2>1, <2>2, <2>4, <1>3, Bounds
          DEF EvaluationKnown, Evaluating, EvaluatedAsNamed
<1> QED BY <1>10, <1>11, <1>12, <1>13 DEF LeagueInv

-----------------------------------------------------------------------------
(* Evaluation.                                                             *)

\* The opponents of an evaluation without a pool.
LEMMA HeuristicsShape ==
  ASSUME NEW f \in Nat
  PROVE  LET them == [k \in DOMAIN Heuristics |-> Heuristic(Heuristics[k])]
                     \o <<Opponent("self", 0, f)>>
         IN  /\ them \in Seq(Player) /\ Len(them) \in Nat /\ Len(them) > 0
             /\ <<Heuristic(Heuristics[1])>> \in Seq(Player)
<1> DEFINE n == Len(Heuristics)
           first == [k \in 1 .. n |-> Heuristic(Heuristics[k])]
           last == <<Opponent("self", 0, f)>>
<1>1. n \in Nat /\ n > 0 /\ DOMAIN Heuristics = 1 .. n
  BY LeagueAssumption, LenProperties, EmptySeq
<1>2. \A k \in 1 .. n : Heuristic(Heuristics[k]) \in Player
  BY <1>1 DEF Heuristic, Opponent, Player, Names, NoWeights
<1>3. Opponent("self", 0, f) \in Player
  BY DEF Opponent, Player, Names
<1>4. <<Heuristic(Heuristics[1])>> \in Seq(Player) /\ last \in Seq(Player) /\ Len(last) = 1
  <2>1. Heuristic(Heuristics[1]) \in Player
    BY <1>1, <1>2
  <2> QED BY <2>1, <1>3
<1>5. first \in Seq(Player) /\ Len(first) = n
  BY <1>1, <1>2, IsASeq
<1> HIDE DEF first, last
<1>6. first \o last \in Seq(Player) /\ Len(first \o last) = Len(first) + Len(last)
  BY <1>4, <1>5, ConcatProperties
<1>7. Len(first \o last) \in Nat /\ Len(first \o last) > 0
  BY <1>1, <1>4, <1>5, <1>6
<1>8. first = [k \in DOMAIN Heuristics |-> Heuristic(Heuristics[k])]
  BY <1>1 DEF first
<1> QED BY <1>4, <1>6, <1>7, <1>8 DEF last

LEMMA ContestsShape ==
  ASSUME LeagueInv
  PROVE  /\ Contests \in Seq(Player) /\ Len(Contests) \in Nat /\ Len(Contests) > 0
         /\ DOMAIN Contests = 1 .. Len(Contests)
         /\ generation > 0 => /\ Contests = opponents
                              /\ \A k \in DOMAIN Contests :
                                   /\ FromItsPast(Contests[k], born, model)
                                   /\ Contests[k] # Nobody
<1>1. /\ IsDisk(disk) /\ checkpoints \in Seq(Nat) /\ generation \in Nat /\ final \in Nat
      /\ born \in Nat /\ model \in Nat
  BY DEF LeagueInv, LeagueTyped
<1>2. CASE generation > 0
  <2>1. Contests = Refreshed(checkpoints, disk) /\ opponents = Refreshed(checkpoints, disk)
    BY <1>2 DEF Contests, LeagueInv, PlaysItsPast
  <2>2. born \in Nat \ {0}
    BY <1>1, <1>2 DEF LeagueInv, ForcedKnown
  <2>3. Kept(checkpoints, generation, disk, born, model)
    BY PoolKeptIsKept DEF LeagueInv
  <2>4. /\ Contests \in Seq(Player) /\ Len(Contests) = Len(checkpoints) + 1
        /\ \A k \in DOMAIN Contests : /\ FromItsPast(Contests[k], born, model)
                                      /\ Contests[k] # Nobody
    BY <1>1, <2>1, <2>2, <2>3, RefreshedShape
  <2>5. Len(checkpoints) \in Nat
    BY <1>1, LenProperties
  <2>6. Len(Contests) \in Nat /\ Len(Contests) > 0
    BY <2>4, <2>5
  <2> QED BY <2>1, <2>4, <2>6, LenProperties
<1>3. CASE ~(generation > 0)
  <2>1. Contests \in Seq(Player) /\ Len(Contests) \in Nat /\ Len(Contests) > 0
    BY <1>1, <1>3, HeuristicsShape DEF Contests
  <2> QED BY <1>3, <2>1, LenProperties
<1> QED BY <1>2, <1>3

\* What steps that leave the pool and the numbers of weights alone must keep.
LEMMA SamePool ==
  ASSUME LeagueInv, UNCHANGED <<pool, final, model, born>>
  PROVE  PoolKept' /\ Contests' = Contests
BY DEF LeagueInv, PoolKept, Contests, Refreshed, Loaded, pool

LEMMA StartEvaluationKeeps ==
  ASSUME LeagueInv, StartEvaluation
  PROVE  LeagueInv'
<1>1. /\ checkpoints' = <<>> /\ generation' = 0 /\ calls' = 0 /\ last_snapshot' = 0
      /\ opponents' = <<Heuristic(Heuristics[1])>>
      /\ forced' = Nobody /\ active' = Nobody /\ step_count' = 0
      /\ phase' = "choose" /\ contest' = 1 /\ episode' = 0
      /\ results' = <<>> /\ faced' = <<>>
      /\ UNCHANGED <<disk, final, model, born>>
  BY DEF StartEvaluation
<1>2. /\ IsDisk(disk) /\ final \in Nat /\ model \in Nat /\ born \in Nat /\ born <= model
  BY DEF LeagueInv, LeagueTyped
<1>3. <<>> \in Seq(Nat) /\ Len(<<>>) = 0 /\ DOMAIN <<>> = {}
      /\ <<>> \in Seq([opponent : Player, wins : Nat]) /\ <<>> \in Seq(Seq(Player))
  BY EmptySeq
<1>4. Nobody \in Player
  BY DEF Nobody, Opponent, Player, Names, NoWeights
<1>5. /\ Len(Contests') \in Nat /\ Len(Contests') > 0
      /\ opponents' \in Seq(Player)
  BY <1>1, <1>2, HeuristicsShape DEF Contests
<1>6. LeagueTyped'
  BY <1>1, <1>2, <1>3, <1>4, <1>5 DEF LeagueTyped
<1>7. PoolKept'
  BY <1>1, <1>2, <1>3, Bounds DEF PoolKept, IsDisk
<1>8. PlaysItsPast' /\ ForcedKnown'
  BY <1>1 DEF PlaysItsPast, ForcedKnown
<1>9. EvaluationKnown' /\ EvaluatedAsNamed'
  <2>1. 1 \in 1 .. Len(Contests')
    BY <1>5
  <2> QED BY <2>1, <1>1, <1>3, Bounds DEF EvaluationKnown, Evaluating, EvaluatedAsNamed
<1> QED BY <1>6, <1>7, <1>8, <1>9 DEF LeagueInv

LEMMA SetOpponentKeeps ==
  ASSUME LeagueInv, SetOpponent
  PROVE  LeagueInv'
<1>1. /\ phase = "choose" /\ phase' = "reset"
      /\ forced' = Contests[contest]
      /\ opponents' = IF generation > 0 THEN opponents ELSE <<Contests[contest]>>
      /\ UNCHANGED <<pool, final, calls, last_snapshot, model, active, step_count, contest,
                     episode, results, faced, born>>
  BY DEF SetOpponent, callback, evaluation
<1>2. PoolKept' /\ Contests' = Contests /\ UNCHANGED <<disk, checkpoints, generation>>
  BY <1>1, SamePool DEF pool
<1>3. contest \in DOMAIN Contests /\ Contests[contest] \in Player
  BY <1>1, ContestsShape, ElementOfSeq DEF LeagueInv, EvaluationKnown, Evaluating
<1>4. LeagueTyped'
  <2>1. <<Contests[contest]>> \in Seq(Player)
    BY <1>3
  <2> QED BY <2>1, <1>1, <1>2, <1>3 DEF LeagueInv, LeagueTyped
<1>5. PlaysItsPast'
  BY <1>1, <1>2 DEF LeagueInv, PlaysItsPast, Refreshed, Loaded
<1>6. ForcedKnown'
  BY <1>1, <1>2, <1>3, ContestsShape DEF LeagueInv, ForcedKnown
<1>7. EvaluationKnown'
  <2>1. phase' = "reset" => /\ forced' = Contests'[contest']
                            /\ forced' = Nobody => opponents' = <<Nobody>>
    BY <1>1, <1>2, <1>3, ContestsShape
  <2> QED BY <2>1, <1>1, <1>2 DEF LeagueInv, EvaluationKnown, Evaluating
<1>8. EvaluatedAsNamed'
  BY <1>1 DEF LeagueInv, EvaluatedAsNamed
<1> QED BY <1>2, <1>4, <1>5, <1>6, <1>7, <1>8 DEF LeagueInv

LEMMA BeginEpisodeKeeps ==
  ASSUME LeagueInv, BeginEpisode
  PROVE  LeagueInv'
<1>1. /\ phase = "reset" /\ phase' = "play"
      /\ active' \in SampleOpponent(opponents) /\ forced' = Nobody /\ step_count' = 0
      /\ faced' = IF episode = 0 THEN Append(faced, <<active'>>)
                  ELSE [faced EXCEPT ![contest] = Append(@, active')]
      /\ UNCHANGED <<pool, final, calls, last_snapshot, model, opponents, contest, episode,
                     results, born>>
  BY DEF BeginEpisode, Reset, callback
<1>2. PoolKept' /\ Contests' = Contests /\ UNCHANGED <<disk, checkpoints, generation>>
  BY <1>1, SamePool DEF pool
<1>3. contest \in DOMAIN Contests /\ Contests[contest] \in Player
      /\ contest \in Nat /\ contest > 0 /\ episode \in Nat
  BY SMTT(20), <1>1, ContestsShape, ElementOfSeq
  DEF LeagueInv, EvaluationKnown, Evaluating, LeagueTyped
<1>4. active' = Contests[contest]
  <2>1. /\ forced = Contests[contest]
        /\ forced = Nobody => opponents = <<Nobody>>
    BY <1>1 DEF LeagueInv, EvaluationKnown
  <2>2. {<<Nobody>>[k] : k \in DOMAIN <<Nobody>>} = {Nobody}
    OBVIOUS
  <2> QED BY <2>1, <2>2, <1>1 DEF SampleOpponent
<1>5. /\ faced \in Seq(Seq(Player))
      /\ Len(faced) = IF episode > 0 THEN contest ELSE contest - 1
      /\ DOMAIN faced = 1 .. Len(faced)
      /\ \A c \in DOMAIN faced :
           /\ \A e \in DOMAIN faced[c] : faced[c][e] = Contests[c]
           /\ c < contest => Len(faced[c]) = NumEpisodes
           /\ c = contest => Len(faced[c]) = episode
  BY <1>1, <1>3, LenProperties DEF LeagueInv, LeagueTyped, EvaluationKnown, Evaluating
<1>6. /\ faced' \in Seq(Seq(Player)) /\ Len(faced') = contest
      /\ \A c \in 1 .. (contest - 1) : faced'[c] = faced[c]
      /\ Len(faced'[contest]) = episode + 1
      /\ \A e \in DOMAIN faced'[contest] : faced'[contest][e] = Contests[contest]
      /\ DOMAIN faced' = 1 .. contest
  <2>1. CASE episode = 0
    <3>1. faced' = Append(faced, <<active'>>)
      BY <2>1, <1>1
    <3>2. <<active'>> \in Seq(Player) /\ Len(<<active'>>) = 1 /\ <<active'>>[1] = active'
          /\ DOMAIN <<active'>> = 1 .. 1
      BY <1>3, <1>4
    <3>3. Len(faced) = contest - 1 /\ (contest - 1) + 1 = contest
      BY <2>1, <1>3, <1>5
    <3>4. /\ faced' \in Seq(Seq(Player)) /\ Len(faced') = contest
          /\ faced'[contest] = <<active'>>
          /\ \A c \in 1 .. (contest - 1) : faced'[c] = faced[c]
      BY <3>1, <3>2, <3>3, <1>5, AppendProperties
    <3>5. \A e \in 1 .. 1 : e = 1
      OBVIOUS
    <3>6. DOMAIN faced' = 1 .. contest
      BY <3>4, LenProperties
    <3> QED BY <3>2, <3>4, <3>5, <3>6, <2>1, <1>4
  <2>2. CASE episode # 0
    <3>1. faced' = [faced EXCEPT ![contest] = Append(faced[contest], active')]
      BY <2>2, <1>1
    <3>2. Len(faced) = contest /\ contest \in DOMAIN faced
      BY <2>2, <1>3, <1>5
    <3>3. faced[contest] \in Seq(Player) /\ Len(faced[contest]) = episode
          /\ DOMAIN faced[contest] = 1 .. episode
      BY <3>2, <1>5, ElementOfSeq, LenProperties
    <3> DEFINE longer == Append(faced[contest], active')
    <3>4. /\ longer \in Seq(Player) /\ Len(longer) = episode + 1
          /\ longer[episode + 1] = active'
          /\ \A e \in 1 .. episode : longer[e] = faced[contest][e]
      BY <3>3, <1>3, <1>4, AppendProperties
    <3>5. DOMAIN longer = 1 .. (episode + 1)
      BY <3>4, LenProperties
    <3> HIDE DEF longer
    <3>6. \A e \in 1 .. (episode + 1) : longer[e] = Contests[contest]
      <4>1. \A e \in 1 .. (episode + 1) : e = episode + 1 \/ e \in 1 .. episode
        BY <1>3
      <4>2. \A e \in 1 .. episode : faced[contest][e] = Contests[contest]
        BY <3>2, <3>3, <1>5
      <4> QED BY <4>1, <4>2, <3>4, <1>4
    <3>7. faced' = [faced EXCEPT ![contest] = longer]
      BY <3>1 DEF longer
    <3>8. faced' \in Seq(Seq(Player)) /\ Len(faced') = Len(faced)
      BY <3>2, <3>4, <3>7, <1>5, ExceptSeq
    <3>9. faced'[contest] = longer /\ \A c \in 1 .. (contest - 1) : faced'[c] = faced[c]
      BY <3>2, <3>7, <1>3, <1>5
    <3>10. DOMAIN faced' = 1 .. contest
      BY <3>2, <3>8, LenProperties
    <3> QED BY <3>2, <3>4, <3>5, <3>6, <3>8, <3>9, <3>10
  <2> QED BY <2>1, <2>2
<1>7. LeagueTyped'
  <2>1. Nobody \in Player
    BY DEF Nobody, Opponent, Player, Names, NoWeights
  <2> QED BY <2>1, <1>1, <1>2, <1>3, <1>4, <1>6 DEF LeagueInv, LeagueTyped
<1>8. PlaysItsPast' /\ ForcedKnown'
  <2>1. generation > 0 => FromItsPast(active', born, model)
    BY <1>3, <1>4, ContestsShape
  <2>2. PlaysItsPast'
    BY <2>1, <1>1, <1>2 DEF LeagueInv, PlaysItsPast, FromItsPast, Refreshed, Loaded
  <2> QED BY <2>2, <1>1, <1>2 DEF LeagueInv, ForcedKnown
<1>9. EvaluationKnown'
  <2>1. ASSUME NEW c \in DOMAIN faced'
        PROVE  /\ \A e \in DOMAIN faced'[c] : faced'[c][e] = Contests[c]
               /\ c < contest => Len(faced'[c]) = NumEpisodes
               /\ c = contest => Len(faced'[c]) = episode + 1
    <3>1. CASE c = contest
      BY <3>1, <1>6, <1>3
    <3>2. CASE c # contest
      <4>1. c \in 1 .. (contest - 1) /\ c \in DOMAIN faced /\ c < contest
        BY <3>2, <1>3, <1>5, <1>6
      <4> QED BY <4>1, <1>5, <1>6
    <3> QED BY <3>1, <3>2
  <2> QED BY <2>1, <1>1, <1>2, <1>6 DEF LeagueInv, EvaluationKnown, Evaluating
<1>10. EvaluatedAsNamed'
  <2>1. ASSUME NEW c \in DOMAIN results
        PROVE  /\ \A e \in DOMAIN faced'[c] : faced'[c][e] = results[c].opponent
               /\ results[c].wins <= Len(faced'[c])
    <3>1. /\ results \in Seq([opponent : Player, wins : Nat])
          /\ Len(results) = IF episode > 0 THEN contest ELSE contest - 1
          /\ results[c].opponent = Contests[c]
          /\ results[c].wins <= IF c < contest THEN NumEpisodes ELSE episode
      BY <1>1 DEF LeagueInv, LeagueTyped, EvaluationKnown, Evaluating
    <3>2. c \in 1 .. contest /\ results[c].wins \in Nat
      <4>1. c \in 1 .. Len(results) /\ results[c] \in [opponent : Player, wins : Nat]
        BY <3>1, ElementOfSeq, LenProperties
      <4> QED BY <4>1, <3>1, <1>3
    <3>3. CASE c = contest
      BY <3>1, <3>2, <3>3, <1>3, <1>6
    <3>4. CASE c # contest
      <4>1. c \in 1 .. (contest - 1) /\ c \in DOMAIN faced /\ c < contest
        BY <3>2, <3>4, <1>3, <1>5
      <4> QED BY <4>1, <3>1, <1>5, <1>6
    <3> QED BY <3>3, <3>4
  <2> QED BY <2>1, <1>1 DEF EvaluatedAsNamed
<1> QED BY <1>2, <1>7, <1>8, <1>9, <1>10 DEF LeagueInv

LEMMA PlayStepKeeps ==
  ASSUME LeagueInv, PlayStep
  PROVE  LeagueInv'
<1>1. /\ step_count' = step_count + 1
      /\ UNCHANGED <<pool, final, calls, last_snapshot, model, opponents, forced, active,
                     phase, contest, episode, results, faced, born>>
  BY DEF PlayStep, callback, evaluation
<1>2. PoolKept' /\ Contests' = Contests /\ UNCHANGED <<disk, checkpoints, generation>>
  BY <1>1, SamePool DEF pool
<1>3. LeagueTyped'
  BY <1>1, <1>2 DEF LeagueInv, LeagueTyped
<1>4. PlaysItsPast' /\ ForcedKnown'
  BY <1>1, <1>2 DEF LeagueInv, PlaysItsPast, ForcedKnown, Refreshed, Loaded
<1>5. EvaluationKnown' /\ EvaluatedAsNamed'
  BY <1>1, <1>2 DEF LeagueInv, EvaluationKnown, Evaluating, EvaluatedAsNamed
<1> QED BY <1>2, <1>3, <1>4, <1>5 DEF LeagueInv

\* Where the result of an episode goes.
LEMMA ResultRecorded ==
  ASSUME LeagueInv, EndEpisode
  PROVE  /\ results' \in Seq([opponent : Player, wins : Nat])
         /\ Len(results') = contest /\ DOMAIN results' = 1 .. contest
         /\ \A c \in 1 .. (contest - 1) : results'[c] = results[c]
         /\ results'[contest].opponent = Contests[contest]
         /\ results'[contest].wins \in Nat /\ results'[contest].wins <= episode + 1
<1> DEFINE Results == [opponent : Player, wins : Nat]
           before == IF episode = 0 THEN 0 ELSE results[contest].wins
<1>1. /\ phase = "play" /\ results \in Seq(Results)
      /\ contest \in Nat /\ contest > 0 /\ episode \in Nat
      /\ Contests[contest] \in Player
      /\ Len(results) = IF episode > 0 THEN contest ELSE contest - 1
      /\ DOMAIN results = 1 .. Len(results)
      /\ \A c \in DOMAIN results :
           results[c].wins <= IF c < contest THEN NumEpisodes ELSE episode
  <2>1. phase = "play"
    BY DEF EndEpisode
  <2>2. contest \in DOMAIN Contests /\ contest \in 1 .. Len(Contests)
    BY <2>1, ContestsShape DEF LeagueInv, EvaluationKnown, Evaluating
  <2>3. Contests[contest] \in Player
    BY <2>2, ContestsShape, ElementOfSeq
  <2> QED BY <2>1, <2>2, <2>3, LenProperties
          DEF LeagueInv, EvaluationKnown, Evaluating, LeagueTyped
<1>2. PICK won \in {0, 1} :
        results' = IF episode = 0
                   THEN Append(results, [opponent |-> Contests[contest], wins |-> before + won])
                   ELSE [results EXCEPT ![contest] =
                           [opponent |-> Contests[contest], wins |-> before + won]]
  BY DEF EndEpisode
<1> DEFINE entry == [opponent |-> Contests[contest], wins |-> before + won]
<1>3. before \in Nat /\ before <= episode
  <2>1. CASE episode = 0
    BY <2>1
  <2>2. CASE episode # 0
    <3>1. contest \in DOMAIN results
      BY <2>2, <1>1
    <3>2. results[contest] \in Results
      BY <3>1, <1>1, ElementOfSeq
    <3> QED BY <3>1, <3>2, <2>2, <1>1
  <2> QED BY <2>1, <2>2
<1> HIDE DEF before
<1>4. /\ entry \in Results /\ entry.opponent = Contests[contest]
      /\ entry.wins \in Nat /\ entry.wins <= episode + 1
  BY <1>1, <1>3
<1>5. results' = IF episode = 0 THEN Append(results, entry)
                 ELSE [results EXCEPT ![contest] = entry]
  BY <1>2
<1> HIDE DEF entry, Results
<1>6. /\ results' \in Seq(Results) /\ Len(results') = contest
      /\ \A c \in 1 .. (contest - 1) : results'[c] = results[c]
      /\ results'[contest] = entry
  <2>1. CASE episode = 0
    <3>1. Len(results) = contest - 1 /\ (contest - 1) + 1 = contest
      BY <2>1, <1>1
    <3> QED BY <2>1, <3>1, <1>1, <1>4, <1>5, AppendProperties
  <2>2. CASE episode # 0
    <3>1. Len(results) = contest /\ contest \in DOMAIN results
          /\ results' = [results EXCEPT ![contest] = entry]
      BY <2>2, <1>1, <1>5
    <3>2. results' \in Seq(Results) /\ Len(results') = Len(results)
      BY <3>1, <1>1, <1>4, ExceptSeq
    <3>3. results'[contest] = entry /\ \A c \in 1 .. (contest - 1) : results'[c] = results[c]
      BY <3>1, <1>1
    <3> QED BY <3>1, <3>2, <3>3
  <2> QED BY <2>1, <2>2
<1>7. DOMAIN results' = 1 .. contest
  BY <1>6, LenProperties
<1> QED BY <1>4, <1>6, <1>7 DEF Results

LEMMA EndEpisodeKeeps ==
  ASSUME LeagueInv, EndEpisode
  PROVE  LeagueInv'
<1> DEFINE last == episode + 1 = NumEpisodes
<1>1. /\ phase = "play"
      /\ episode' = IF last THEN 0 ELSE episode + 1
      /\ contest' = IF last THEN contest + 1 ELSE contest
      /\ phase' = IF last /\ contest = Len(Contests) THEN "done" ELSE "choose"
      /\ UNCHANGED <<pool, final, calls, last_snapshot, model, opponents, forced, active,
                     step_count, faced, born>>
  BY DEF EndEpisode, callback, env
<1>2. PoolKept' /\ Contests' = Contests /\ UNCHANGED <<disk, checkpoints, generation>>
  BY <1>1, SamePool DEF pool
<1>3. /\ contest \in 1 .. Len(Contests) /\ Len(Contests) \in Nat
      /\ contest \in Nat /\ contest > 0 /\ episode \in Nat /\ episode < NumEpisodes
      /\ NumEpisodes \in Nat
  BY <1>1, ContestsShape, Bounds DEF LeagueInv, EvaluationKnown, Evaluating, LeagueTyped
<1>4. /\ Len(faced) = contest /\ DOMAIN faced = 1 .. contest
      /\ faced \in Seq(Seq(Player))
      /\ \A c \in DOMAIN faced :
           /\ \A e \in DOMAIN faced[c] : faced[c][e] = Contests[c]
           /\ c < contest => Len(faced[c]) = NumEpisodes
           /\ c = contest => Len(faced[c]) = episode + 1
  BY <1>1, LenProperties DEF LeagueInv, LeagueTyped, EvaluationKnown, Evaluating
<1>5. /\ results' \in Seq([opponent : Player, wins : Nat])
      /\ Len(results') = contest /\ DOMAIN results' = 1 .. contest
      /\ \A c \in 1 .. contest :
           /\ results'[c].opponent = Contests[c]
           /\ results'[c].wins \in Nat
           /\ results'[c].wins <= IF c < contest THEN NumEpisodes ELSE episode + 1
  <2>1. ASSUME NEW c \in 1 .. (contest - 1)
        PROVE  /\ results'[c].opponent = Contests[c]
               /\ results'[c].wins \in Nat
               /\ results'[c].wins <= NumEpisodes
    <3>1. /\ results \in Seq([opponent : Player, wins : Nat])
          /\ Len(results) = IF episode > 0 THEN contest ELSE contest - 1
          /\ \A d \in DOMAIN results :
               /\ results[d].opponent = Contests[d]
               /\ results[d].wins <= IF d < contest THEN NumEpisodes ELSE episode
      BY <1>1 DEF LeagueInv, LeagueTyped, EvaluationKnown, Evaluating
    <3>2. c \in DOMAIN results /\ c < contest /\ c \in 1 .. (contest - 1)
      BY <3>1, <1>3, LenProperties
    <3>3. results[c] \in [opponent : Player, wins : Nat]
      <4> DEFINE Results == [opponent : Player, wins : Nat]
      <4>1. results \in Seq(Results) /\ c \in 1 .. Len(results)
        BY <3>1, <3>2, LenProperties
      <4> HIDE DEF Results
      <4>2. results[c] \in Results
        BY <4>1, ElementOfSeq
      <4> QED BY <4>2 DEF Results
    <3>4. results'[c] = results[c]
      BY ResultRecorded
    <3> QED BY <3>1, <3>2, <3>3, <3>4
  <2>2. ASSUME NEW c \in 1 .. contest
        PROVE  /\ results'[c].opponent = Contests[c]
               /\ results'[c].wins \in Nat
               /\ results'[c].wins <= IF c < contest THEN NumEpisodes ELSE episode + 1
    <3>1. CASE c = contest
      BY <3>1, <1>3, ResultRecorded
    <3>2. CASE c # contest
      <4>1. c \in 1 .. (contest - 1) /\ c < contest
        BY <3>2, <1>3
      <4> QED BY <4>1, <2>1
    <3> QED BY <3>1, <3>2
  <2> QED BY <2>2, ResultRecorded
<1>6. LeagueTyped'
  BY <1>1, <1>2, <1>3, <1>5 DEF LeagueInv, LeagueTyped
<1>7. PlaysItsPast' /\ ForcedKnown'
  BY <1>1, <1>2 DEF LeagueInv, PlaysItsPast, ForcedKnown, Refreshed, Loaded
<1>8. EvaluationKnown' /\ EvaluatedAsNamed'
  <2>1. ASSUME NEW c \in 1 .. contest
        PROVE  results'[c].wins <= Len(faced[c])
    <3>1. c < contest \/ c = contest
      BY <1>3
    <3>2. Len(faced[c]) = IF c < contest THEN NumEpisodes ELSE episode + 1
      BY <3>1, <1>4, <1>3
    <3> QED BY <3>2, <1>5
  <2>2. \A c \in 1 .. contest : \A e \in DOMAIN faced[c] :
          faced[c][e] = results'[c].opponent
    BY <1>4, <1>5
  <2>3. CASE last
    <3>1. episode' = 0 /\ contest' = contest + 1 /\ phase' # "play" /\ phase' # "reset"
      BY <2>3, <1>1
    <3>2. \A c \in 1 .. contest : Len(faced[c]) = NumEpisodes /\ c < contest + 1
      BY SMTT(20), <2>3, <1>3, <1>4
    <3>3. (contest + 1) - 1 = contest
      BY <1>3
    <3>4. CASE contest = Len(Contests)
      <4>1. phase' = "done"
        BY <2>3, <3>4, <1>1
      <4> QED BY <4>1, <3>1, <3>2, <3>4, <2>1, <2>2, <1>1, <1>2, <1>4, <1>5
              DEF EvaluationKnown, Evaluating, EvaluatedAsNamed
    <3>5. CASE contest # Len(Contests)
      <4>1. phase' = "choose" /\ contest + 1 \in 1 .. Len(Contests)
        BY <2>3, <3>5, <1>1, <1>3
      <4>2. EvaluatedAsNamed'
        BY <4>1, <2>1, <2>2, <1>1, <1>4, <1>5 DEF EvaluatedAsNamed
      <4>3. \A c \in 1 .. contest : results'[c].wins <= NumEpisodes /\ c # contest + 1
        BY <2>1, <3>2, <1>3
      <4> QED BY <4>1, <4>2, <4>3, <3>1, <3>2, <3>3, <1>1, <1>2, <1>3, <1>4, <1>5, Bounds
              DEF EvaluationKnown, Evaluating
    <3> QED BY <3>4, <3>5
  <2>4. CASE ~last
    <3>1. /\ episode' = episode + 1 /\ contest' = contest /\ phase' = "choose"
          /\ episode + 1 > 0 /\ episode + 1 < NumEpisodes
      BY <2>4, <1>1, <1>3
    <3>2. EvaluatedAsNamed'
      BY <3>1, <2>1, <2>2, <1>1, <1>4, <1>5 DEF EvaluatedAsNamed
    <3> QED BY SMTT(20), <3>1, <3>2, <1>1, <1>2, <1>3, <1>4, <1>5 DEF EvaluationKnown, Evaluating
  <2> QED BY <2>3, <2>4
<1> QED BY <1>2, <1>6, <1>7, <1>8 DEF LeagueInv

-----------------------------------------------------------------------------
(* The end of a process, and the whole.                                    *)

LEMMA ExitKeeps ==
  ASSUME LeagueInv, Exit
  PROVE  LeagueInv'
<1>1. /\ phase' = "idle"
      /\ UNCHANGED <<pool, final, calls, last_snapshot, model, opponents, forced, active,
                     step_count, contest, episode, results, faced, born>>
  BY DEF Exit, callback, env, evaluation
<1>2. PoolKept' /\ Contests' = Contests /\ UNCHANGED <<disk, checkpoints, generation>>
  BY <1>1, SamePool DEF pool
<1>3. LeagueTyped'
  BY <1>1, <1>2 DEF LeagueInv, LeagueTyped
<1>4. PlaysItsPast' /\ ForcedKnown'
  BY <1>1, <1>2 DEF LeagueInv, PlaysItsPast, ForcedKnown, Refreshed, Loaded
<1>5. EvaluationKnown' /\ EvaluatedAsNamed'
  BY <1>1, <1>2 DEF LeagueInv, EvaluationKnown, Evaluating, EvaluatedAsNamed
<1> QED BY <1>2, <1>3, <1>4, <1>5 DEF LeagueInv

\* Whatever a snapshot that was cut short left on disk, no pool holds it.
LEMMA KilledSavingKeeps ==
  ASSUME LeagueInv, KilledSaving
  PROVE  LeagueInv'
<1>1. /\ phase = "train" /\ phase' = "idle" /\ checkpoints' = <<>> /\ generation' = 0
      /\ UNCHANGED <<final, calls, last_snapshot, model, opponents, forced, active,
                     step_count, contest, episode, results, faced, born>>
  BY DEF KilledSaving, callback, env, evaluation
<1>2. IsDisk(disk')
  <2>1. PICK w \in {NoWeights, model} : disk' = Saved(disk, generation + 1, w)
    BY DEF KilledSaving
  <2> DEFINE m == generation + 1
  <2>2. m \in Nat \ {0} /\ w \in Nat /\ IsDisk(disk)
    BY DEF LeagueInv, LeagueTyped, NoWeights
  <2>3. disk' = Saved(disk, m, w)
    BY <2>1
  <2> HIDE DEF m
  <2> QED BY <2>2, <2>3 DEF Saved, IsDisk
<1>3. <<>> \in Seq(Nat) /\ Len(<<>>) = 0 /\ DOMAIN <<>> = {}
  BY EmptySeq
<1>4. LeagueTyped'
  BY <1>1, <1>2, <1>3 DEF LeagueInv, LeagueTyped
<1>5. PoolKept'
  BY <1>1, <1>2, <1>3, Bounds DEF PoolKept, IsDisk
<1>6. PlaysItsPast' /\ ForcedKnown'
  BY <1>1 DEF PlaysItsPast, ForcedKnown
<1>7. EvaluationKnown' /\ EvaluatedAsNamed'
  <2>1. results' = <<>>
    BY <1>1 DEF LeagueInv, ForcedKnown
  <2> QED BY <2>1, <1>1, <1>3 DEF EvaluationKnown, Evaluating, EvaluatedAsNamed
<1> QED BY <1>4, <1>5, <1>6, <1>7 DEF LeagueInv

LEMMA InitLeagueInv == Init => LeagueInv
<1> SUFFICES ASSUME Init PROVE LeagueInv
  OBVIOUS
<1>1. /\ <<>> \in Seq(Nat) /\ Len(<<>>) = 0 /\ DOMAIN <<>> = {}
      /\ <<>> \in Seq([opponent : Player, wins : Nat]) /\ <<>> \in Seq(Seq(Player))
  BY EmptySeq
<1>2. /\ IsDisk(disk) /\ DOMAIN disk = {}
  BY DEF Init, IsDisk
<1>3. Nobody \in Player /\ <<Baseline>> \in Seq(Player)
  BY DEF Nobody, Baseline, Opponent, Player, Names, NoWeights
<1>4. LeagueTyped
  BY <1>1, <1>2, <1>3 DEF Init, LeagueTyped, NoWeights
<1>5. PoolKept
  BY <1>1, <1>2, Bounds DEF Init, PoolKept
<1>6. PlaysItsPast /\ ForcedKnown
  BY DEF Init, PlaysItsPast, ForcedKnown
<1>7. EvaluationKnown /\ EvaluatedAsNamed
  BY <1>1 DEF Init, EvaluationKnown, Evaluating, EvaluatedAsNamed
<1> QED BY <1>4, <1>5, <1>6, <1>7 DEF LeagueInv

LEMMA StepKeepsLeagueInv == LeagueInv /\ [Next]_vars => LeagueInv'
<1> SUFFICES ASSUME LeagueInv, [Next]_vars PROVE LeagueInv'
  OBVIOUS
<1>1. CASE StartTraining
  BY <1>1, StartTrainingKeeps
<1>2. CASE TrainStep
  BY <1>2, TrainStepKeeps
<1>3. CASE StartEvaluation
  BY <1>3, StartEvaluationKeeps
<1>4. CASE SetOpponent
  BY <1>4, SetOpponentKeeps
<1>5. CASE BeginEpisode
  BY <1>5, BeginEpisodeKeeps
<1>6. CASE PlayStep
  BY <1>6, PlayStepKeeps
<1>7. CASE EndEpisode
  BY <1>7, EndEpisodeKeeps
<1>8. CASE Exit
  BY <1>8, ExitKeeps
<1>9. CASE KilledSaving
  BY <1>9, KilledSavingKeeps
<1>10. CASE UNCHANGED vars
  <2>1. UNCHANGED <<pool, final, calls, last_snapshot, model, opponents, forced, active,
                    step_count, phase, contest, episode, results, faced, born>>
    BY <1>10 DEF vars, callback, env, evaluation
  <2>2. PoolKept' /\ Contests' = Contests /\ UNCHANGED <<disk, checkpoints, generation>>
    BY <2>1, SamePool DEF pool
  <2>3. LeagueTyped'
    BY <2>1, <2>2 DEF LeagueInv, LeagueTyped
  <2>4. PlaysItsPast' /\ ForcedKnown'
    BY <2>1, <2>2 DEF LeagueInv, PlaysItsPast, ForcedKnown, Refreshed, Loaded
  <2>5. EvaluationKnown' /\ EvaluatedAsNamed'
    BY <2>1, <2>2 DEF LeagueInv, EvaluationKnown, Evaluating, EvaluatedAsNamed
  <2> QED BY <2>2, <2>3, <2>4, <2>5 DEF LeagueInv
<1> QED BY <1>1, <1>2, <1>3, <1>4, <1>5, <1>6, <1>7, <1>8, <1>9, <1>10 DEF Next

-----------------------------------------------------------------------------
(* The theorems.                                                           *)

\* The invariant of training and evaluation, over every sequence of
\* processes that return, are interrupted or are killed (self_play.py,
\* self_play_env.py:135, evaluate.py:195).
THEOREM LeagueInvariant == Spec => []LeagueInv
BY InitLeagueInv, StepKeepsLeagueInv, PTL DEF Spec

\* The pool and its directory agree, however many checkpoints were evicted
\* and whatever earlier processes left there (add_checkpoint,
\* self_play.py:57).
THEOREM PoolIsKept == Spec => []PoolKept
<1>1. LeagueInv => PoolKept
  BY DEF LeagueInv
<1> QED BY <1>1, LeagueInvariant, PTL

\* An agent in training meets the baseline and weights of its own run, and
\* the pool it draws from is the newest (_refresh_env_opponents,
\* self_play.py:233).
THEOREM MeetsItsPast == Spec => []PlaysItsPast
<1>1. LeagueInv => PlaysItsPast
  BY DEF LeagueInv
<1> QED BY <1>1, LeagueInvariant, PTL

\* What an evaluation reports of an opponent is about that opponent, and
\* about as many episodes as were asked for (_run_episodes,
\* self_play.py:419; _run_evaluation_episodes, evaluate.py:195).
THEOREM EvaluationsNamed == Spec => []EvaluatedAsNamed
<1>1. LeagueInv => EvaluatedAsNamed
  BY DEF LeagueInv
<1> QED BY <1>1, LeagueInvariant, PTL

=============================================================================
