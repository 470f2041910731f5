------------------------------- MODULE League -------------------------------
(***************************************************************************)
(* Self-play training (rl/self_play.py), with the opponent side of its     *)
(* environment (rl/self_play_env.py), and the evaluation of a trained      *)
(* model (rl/evaluate.py): one process each, run one after the other over  *)
(* the same directory of checkpoints, each of which may be interrupted.    *)
(*                                                                         *)
(* Weights are numbered in the order in which they come to be: a new model *)
(* and every update of a model get the next number.  Steps of the          *)
(* environment are counted and not played (Simulation plays them), who     *)
(* wins an episode is a choice.  The loops of stable-baselines3, which is  *)
(* not part of the repository, are modelled from how training uses them:   *)
(* an environment that reports truncation is reset, then the callback is   *)
(* called, and after RolloutSteps steps the model is updated.              *)
(***************************************************************************)
EXTENDS Integers, Sequences

CONSTANTS
  MaxSize,          (* max_size of the pool: 10                             *)
  SnapshotInterval, (* snapshot_interval: 10_000                            *)
  RolloutSteps,     (* n_steps of PPO: 2048                                 *)
  TotalSteps,       (* total_timesteps                                      *)
  EpisodeLength,    (* episode_length: 1000                                 *)
  NumEpisodes,      (* num_episodes of an evaluation                        *)
  Heuristics,       (* opponents of evaluate.py that need no checkpoint     *)
  MaxRuns           (* bound: processes started                             *)

ASSUME LeagueAssumption ==
  /\ {MaxSize, SnapshotInterval, RolloutSteps, TotalSteps, EpisodeLength,
      NumEpisodes, MaxRuns} \subseteq Nat \ {0}
  /\ Heuristics \in Seq(STRING) /\ Heuristics # <<>>

VARIABLES
  disk,          (* save_dir: weights by the number in the file's name      *)
  final,         (* weights of model_save_path                              *)
  checkpoints,   (* the pool's _checkpoints, by number, oldest first        *)
  generation,    (* the pool's _generation                                  *)
  calls, last_snapshot,  (* the callback's _n_calls and _last_snapshot      *)
  model,         (* training: weights of the model; the newest there are    *)
  opponents,     (* the environment's _opponent_pool                        *)
  forced,        (* its _current_opponent                                   *)
  active,        (* its _active_opponent                                    *)
  step_count,    (* its _step_count                                         *)
  phase,         (* what the process is doing                               *)
  contest,       (* evaluation: the opponent whose turn it is               *)
  episode,       (* evaluation: episodes played against it                  *)
  results,       (* evaluation: by contest, its opponent and the wins       *)
  born,          (* history: weights of the run's first model               *)
  faced,         (* history: by contest, the opponents of its episodes      *)
  runs           (* bound: processes started                                *)

pool == <<disk, checkpoints, generation>>
callback == <<calls, last_snapshot>>
env == <<opponents, forced, active, step_count>>
evaluation == <<contest, episode, results, faced>>
vars == <<pool, final, callback, model, env, phase, evaluation, born, runs>>

NoWeights == 0
Opponent(name, place, weights) == [name |-> name, place |-> place, weights |-> weights]
Nobody == Opponent("nobody", 0, NoWeights)
Baseline == Opponent("random_baseline", 0, NoWeights)
Heuristic(h) == Opponent(h, 0, NoWeights)

Init ==
  /\ disk = [g \in {} |-> NoWeights] /\ final = NoWeights
  /\ checkpoints = <<>> /\ generation = 0
  /\ calls = 0 /\ last_snapshot = 0
  /\ model = NoWeights /\ born = NoWeights
  /\ opponents = <<Baseline>> /\ forced = Nobody /\ active = Nobody /\ step_count = 0
  /\ phase = "idle"
  /\ contest = 0 /\ episode = 0 /\ results = <<>> /\ faced = <<>>
  /\ runs = 0

-----------------------------------------------------------------------------
(* The pool.                                                               *)

Saved(d, g, w) == [h \in DOMAIN d \cup {g} |-> IF h = g THEN w ELSE d[h]]
Removed(d, g) == [h \in DOMAIN d \ {g} |-> d[h]]

\* Faulty: the newest checkpoint's file is removed instead of the oldest's.
AddCheckpointEvictingNewest(held, g, d, w) ==
  /\ generation' = g + 1
  /\ IF Len(held) < MaxSize
     THEN /\ checkpoints' = Append(held, g + 1)
          /\ disk' = Saved(d, g + 1, w)
     ELSE /\ checkpoints' = Tail(Append(held, g + 1))
          /\ disk' = Removed(Saved(d, g + 1, w), g + 1)

\* Faulty: a file that is there already is not written again.
AddCheckpointKeepingFile(held, g, d, w) ==
  /\ generation' = g + 1
  /\ LET kept == IF g + 1 \in DOMAIN d THEN d ELSE Saved(d, g + 1, w)
     IN  IF Len(held) < MaxSize
         THEN /\ checkpoints' = Append(held, g + 1)
              /\ disk' = kept
         ELSE /\ checkpoints' = Tail(Append(held, g + 1))
              /\ disk' = Removed(kept, Head(Append(held, g + 1)))

\* add_checkpoint by a pool that holds `held' and is at generation g: the
\* oldest checkpoint and its file go when there are more than MaxSize.
AddCheckpoint(held, g, d, w) ==
  /\ generation' = g + 1
  /\ IF Len(held) < MaxSize
     THEN /\ checkpoints' = Append(held, g + 1)
          /\ disk' = Saved(d, g + 1, w)
     ELSE /\ checkpoints' = Tail(Append(held, g + 1))
          /\ disk' = Removed(Saved(d, g + 1, w), Head(Append(held, g + 1)))

\* The policy that is loaded from the k-th checkpoint of the pool.  It is
\* named by its place, not by its generation.  PoolKept says the file is
\* always there: a load that fails and is skipped is left out.
Loaded(held, d, k) ==
  Opponent("gen_", k - 1, IF held[k] \in DOMAIN d THEN d[held[k]] ELSE NoWeights)

\* The opponents _refresh_env_opponents gives the environment.
Refreshed(held, d) ==
  <<Baseline>> \o [k \in 1 .. Len(held) |-> Loaded(held, d, k)]

-----------------------------------------------------------------------------
(* The environment.                                                        *)

\* The opponents a reset may choose: the one that was set, or a draw.
SampleOpponent(drawn) ==
  IF forced # Nobody THEN {forced} ELSE {drawn[k] : k \in DOMAIN drawn}

Reset(drawn) ==
  /\ active' \in SampleOpponent(drawn)
  /\ forced' = Nobody
  /\ step_count' = 0

Truncated == step_count + 1 >= EpisodeLength

-----------------------------------------------------------------------------
(* Training.                                                               *)

\* Everything before the first step: a pool and a model that are new, the
\* first checkpoint, and the reset that learn begins with.
StartTraining ==
  /\ phase = "idle" /\ runs < MaxRuns
  /\ runs' = runs + 1
  /\ model' = model + 1 /\ born' = model + 1
  /\ AddCheckpoint(<<>>, 0, disk, model + 1)
  /\ calls' = 0 /\ last_snapshot' = 0
  /\ opponents' = Refreshed(checkpoints', disk')
  /\ active' \in {opponents'[k] : k \in DOMAIN opponents'}
  /\ forced' = Nobody /\ step_count' = 0
  /\ phase' = "train"
  /\ contest' = 0 /\ episode' = 0 /\ results' = <<>> /\ faced' = <<>>
  /\ UNCHANGED final

\* Faulty: the environment keeps the opponents it had.
OnStepWithoutRefresh ==
  /\ calls' = calls + 1
  /\ IF calls + 1 - last_snapshot >= SnapshotInterval
     THEN /\ last_snapshot' = calls + 1
          /\ AddCheckpoint(checkpoints, generation, disk, model)
     ELSE UNCHANGED <<last_snapshot, pool>>
  /\ UNCHANGED opponents

\* The callback: a snapshot when it is due, which the environment is told of.
OnStep ==
  /\ calls' = calls + 1
  /\ IF calls + 1 - last_snapshot >= SnapshotInterval
     THEN /\ last_snapshot' = calls + 1
          /\ AddCheckpoint(checkpoints, generation, disk, model)
          /\ opponents' = Refreshed(checkpoints', disk')
     ELSE UNCHANGED <<last_snapshot, pool, opponents>>

\* One step of learn: the environment's step and its reset, the callback,
\* and at the end of a rollout the update of the model.
TrainStep ==
  /\ phase = "train"
  /\ IF Truncated
     THEN Reset(opponents)
     ELSE step_count' = step_count + 1 /\ UNCHANGED <<active, forced>>
  /\ OnStep
  /\ LET full == (calls + 1) % RolloutSteps = 0
         over == full /\ calls + 1 >= TotalSteps
     IN  /\ model' = IF full THEN model + 1 ELSE model
         /\ final' = IF over THEN model' ELSE final
         /\ phase' = IF over THEN "choose" ELSE "train"
         /\ contest' = IF over THEN 1 ELSE 0
  /\ UNCHANGED <<episode, results, faced, born, runs>>

-----------------------------------------------------------------------------
(* Evaluation, by training when it is over and by evaluate.py.             *)

\* evaluate.py loads the final model, and makes an environment of its own
\* for each opponent: see Contests.
StartEvaluation ==
  /\ phase = "idle" /\ runs < MaxRuns /\ final # NoWeights
  /\ runs' = runs + 1
  /\ checkpoints' = <<>> /\ generation' = 0 /\ calls' = 0 /\ last_snapshot' = 0
  /\ opponents' = <<Heuristic(Heuristics[1])>>
  /\ forced' = Nobody /\ active' = Nobody /\ step_count' = 0
  /\ phase' = "choose"
  /\ contest' = 1 /\ episode' = 0 /\ results' = <<>> /\ faced' = <<>>
  /\ UNCHANGED <<disk, final, model, born>>

\* The opponents that are evaluated, in order.
Contests ==
  IF generation > 0
  THEN Refreshed(checkpoints, disk)
  ELSE [k \in DOMAIN Heuristics |-> Heuristic(Heuristics[k])]
       \o <<Opponent("self", 0, final)>>

\* Faulty: the opponent is set for the first episode only.
SetOpponentOnce ==
  /\ phase = "choose"
  /\ forced' = IF episode = 0 THEN Contests[contest] ELSE forced
  /\ opponents' = IF generation > 0 THEN opponents ELSE <<Contests[contest]>>
  /\ phase' = "reset"
  /\ UNCHANGED <<pool, final, callback, model, active, step_count, evaluation, born, runs>>

SetOpponent ==
  /\ phase = "choose"
  /\ forced' = Contests[contest]
  /\ opponents' = IF generation > 0 THEN opponents ELSE <<Contests[contest]>>
  /\ phase' = "reset"
  /\ UNCHANGED <<pool, final, callback, model, active, step_count, evaluation, born, runs>>

BeginEpisode ==
  /\ phase = "reset"
  /\ Reset(opponents)
  /\ phase' = "play"
  /\ faced' = IF episode = 0 THEN Append(faced, <<active'>>)
              ELSE [faced EXCEPT ![contest] = Append(@, active')]
  /\ UNCHANGED <<pool, final, callback, model, opponents, contest, episode, results,
                 born, runs>>

PlayStep ==
  /\ phase = "play" /\ step_count < EpisodeLength
  /\ step_count' = step_count + 1
  /\ UNCHANGED <<pool, final, callback, model, opponents, forced, active, phase,
                 evaluation, born, runs>>

\* get_episode_result, and the result of a contest that is over.
EndEpisode ==
  /\ phase = "play" /\ step_count >= EpisodeLength
  /\ \E won \in {0, 1} :
       LET before == IF episode = 0 THEN 0 ELSE results[contest].wins
           entry == [opponent |-> Contests[contest], wins |-> before + won]
       IN  results' = IF episode = 0 THEN Append(results, entry)
                      ELSE [results EXCEPT ![contest] = entry]
  /\ LET last == episode + 1 = NumEpisodes
     IN  /\ episode' = IF last THEN 0 ELSE episode + 1
         /\ contest' = IF last THEN contest + 1 ELSE contest
         /\ phase' = IF last /\ contest = Len(Contests) THEN "done" ELSE "choose"
  /\ UNCHANGED <<pool, final, callback, model, env, faced, born, runs>>

\* The process returns, or is interrupted: what is on disk stays.
Exit ==
  /\ phase # "idle"
  /\ phase' = "idle"
  /\ UNCHANGED <<pool, final, callback, model, env, evaluation, born, runs>>

\* It is killed in the middle of a snapshot: the file may be whole or not,
\* and the oldest one is still there.
KilledSaving ==
  /\ phase = "train" /\ calls + 1 - last_snapshot >= SnapshotInterval
  /\ disk' \in {Saved(disk, generation + 1, w) : w \in {NoWeights, model}}
  /\ checkpoints' = <<>> /\ generation' = 0
  /\ phase' = "idle"
  /\ UNCHANGED <<final, callback, model, env, evaluation, born, runs>>

Next ==
  \/ StartTraining \/ TrainStep
  \/ StartEvaluation \/ SetOpponent \/ BeginEpisode \/ PlayStep \/ EndEpisode
  \/ Exit \/ KilledSaving

Spec == Init /\ [][Next]_vars

-----------------------------------------------------------------------------
(* Properties.                                                             *)

\* The pool holds the newest checkpoints of this run, at most MaxSize, the
\* oldest first, and on disk each is what this run saved; of this run's
\* files none but those remain (add_checkpoint, self_play.py:57, over a
\* directory that an earlier run left its files in).
PoolKept ==
  /\ Len(checkpoints) = IF generation < MaxSize THEN generation ELSE MaxSize
  /\ \A k \in DOMAIN checkpoints :
       /\ checkpoints[k] = generation - Len(checkpoints) + k
       /\ checkpoints[k] \in DOMAIN disk
       /\ disk[checkpoints[k]] \in born .. model
  /\ \A j, k \in DOMAIN checkpoints :
       j < k => disk[checkpoints[j]] <= disk[checkpoints[k]]
  /\ \A g \in DOMAIN disk : g <= generation => g > generation - Len(checkpoints)

\* An agent in training plays the baseline and earlier weights of its own
\* run, never those an earlier run left under the same names, and what a
\* reset draws from is the pool as it is now, the newest last
\* (_refresh_env_opponents, self_play.py:233; _sample_opponent).
PlaysItsPast ==
  generation > 0 =>
    /\ opponents = Refreshed(checkpoints, disk)
    /\ active.weights \in {NoWeights} \cup born .. model
    /\ active = Baseline \/ active.weights # NoWeights

\* A result is of episodes that were all played against the opponent it is
\* recorded under, though each reset forgets the opponent that was set
\* (_run_episodes, self_play.py:419; _run_evaluation_episodes,
\* evaluate.py:195); in the end every opponent has had all its episodes.
EvaluatedAsNamed ==
  /\ \A c \in DOMAIN results :
       /\ \A e \in DOMAIN faced[c] : faced[c][e] = results[c].opponent
       /\ results[c].wins <= Len(faced[c])
  /\ phase = "done" =>
       /\ Len(results) = Len(Contests)
       /\ \A c \in DOMAIN results : /\ results[c].opponent = Contests[c]
                                    /\ Len(faced[c]) = NumEpisodes

=============================================================================
