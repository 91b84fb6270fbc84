---------------------------- MODULE TrainingLoop ----------------------------
(***************************************************************************)
(* The callbacks of a training run, called in a fixed order after every    *)
(* environment step: checkpoint, validation, early stop, finite guard,     *)
(* drawdown guard and the writers (rl/callbacks/core.py, factory.py).      *)
(* All of them are called in every step, and the run stops when one of     *)
(* them asks for it; an exception ends the step at once.                   *)
(***************************************************************************)
EXTENDS Integers, FiniteSets, Sequences, FiniteSetsExt

CONSTANTS CallbackConfigs,  \* [checkpointFreq, validationFreq, patience, guards, auditFreq]
          Scores,           \* mean returns a validation may report
          Worst,            \* below every score: -inf
          MaxSteps          \* total_timesteps of the trainer

VARIABLES callbacks,  \* the CallbackConfig of the run
          calls,      \* n_calls
          tracker,    \* the ValidationTracker shared by validation and early stop
          written,    \* steps of checkpoints and of audit lines on disk
          scores,     \* every validation score, in order
          training    \* running, or how the run ended

vars == <<callbacks, calls, tracker, written, scores, training>>

TrainingAssumption ==
  /\ \A c \in CallbackConfigs :
       /\ {c.checkpointFreq, c.validationFreq, c.patience, c.auditFreq} \subseteq Nat
       /\ {c.finiteGuard, c.drawdownGuard} \subseteq BOOLEAN
  /\ Scores \subseteq Int /\ Worst \in Int /\ \A score \in Scores : Worst < score
  /\ MaxSteps \in Nat \ {0}

NewTracker == [best |-> Worst, evaluations |-> 0, stale |-> 0]

Init ==
  /\ callbacks \in CallbackConfigs
  /\ calls = 0
  /\ tracker = NewTracker
  /\ written = [checkpoints |-> {}, audit |-> {}]
  /\ scores = <<>>
  /\ training = "running"

Due(frequency, n) == frequency > 0 /\ n % frequency = 0

Validated(score) ==
  [best |-> Max({tracker.best, score}), evaluations |-> tracker.evaluations + 1,
   stale |-> IF score > tracker.best THEN 0 ELSE tracker.stale + 1]

ExhaustedLater(t) == t.evaluations > 0 /\ t.stale > callbacks.patience
Exhausted(t) == t.evaluations > 0 /\ t.stale >= callbacks.patience

\* early stopping exists only beside validation, and with a patience
StopAsked(t, drawdownHit) ==
  \/ callbacks.validationFreq > 0 /\ callbacks.patience > 0 /\ Exhausted(t)
  \/ callbacks.drawdownGuard /\ drawdownHit

\* the callbacks behind a guard that raises are not called in that step
Step(score, finite, drawdownHit) ==
  LET n == calls + 1
      validating == Due(callbacks.validationFreq, n)
      seen == IF validating THEN Validated(score) ELSE tracker
      raises == callbacks.finiteGuard /\ ~finite
  IN  /\ training = "running"
      /\ calls' = n
      /\ tracker' = seen
      /\ scores' = IF validating THEN Append(scores, score) ELSE scores
      /\ written' = [checkpoints |-> written.checkpoints
                                     \cup (IF Due(callbacks.checkpointFreq, n) THEN {n} ELSE {}),
                     audit |-> written.audit
                               \cup (IF Due(callbacks.auditFreq, n) /\ ~raises THEN {n} ELSE {})]
      /\ training' = CASE raises -> "raised"
                       [] ~raises /\ StopAsked(seen, drawdownHit) -> "stopped"
                       [] OTHER -> IF n >= MaxSteps THEN "finished" ELSE "running"
      /\ UNCHANGED callbacks

Next == \E score \in Scores, finite, drawdownHit \in BOOLEAN : Step(score, finite, drawdownHit)

Spec == Init /\ [][Next]_vars

TypeOK ==
  /\ callbacks \in CallbackConfigs /\ calls \in 0..MaxSteps
  /\ tracker.best \in Scores \cup {Worst}
  /\ written.checkpoints \subseteq 1..calls /\ written.audit \subseteq 1..calls
  /\ training \in {"running", "stopped", "raised", "finished"}

\* A run without drawdown guard stops exactly when the last `patience`
\* validations brought nothing better than what came before them: the tracker
\* is evaluated in the step that updated it, before the next one (core.py:201).
EarlyStopJustified ==
  ~callbacks.drawdownGuard /\ callbacks.patience > 0 /\ training \in {"running", "stopped"} =>
    LET fresh == Len(scores) - callbacks.patience
    IN  (training = "stopped") <=>
          /\ fresh >= 1
          /\ \A j \in (fresh + 1)..Len(scores) :
               \E i \in 1..fresh : scores[j] <= scores[i]
=============================================================================
