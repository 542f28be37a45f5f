------------------------------ MODULE Training ------------------------------
(***************************************************************************)
(* graph/src/runner/Trainer.py: train() with its checkpoints and its early *)
(* stop, killed at any time and started again.  A model is the batches it  *)
(* has been trained on; batches are counted through all epochs from 0, and *)
(* epochs * len(dataloader) is Steps.  A file that is being written when   *)
(* the process dies is left unreadable.                                    *)
(***************************************************************************)
EXTENDS Integers, Sequences, SequencesExt

CONSTANTS
    Steps,
    SaveSteps, EvalSteps,
    Patience,    \* early_stop_patience
    Scores,      \* what an evaluation may find; higher is better
    MaxKills     \* bound: times the process dies

ASSUME TrainingAssumption == Steps \in Nat /\ Scores \subseteq Nat

Worst == -1        \* -float('inf')
Unreadable == -2   \* of a best.pt whose writing was cut off

VARIABLES
    trainStage,  \* where train() is
    batchNo,     \* current_step
    progress,    \* the trainer: global_step, model, best score and counter
    checkpoint,  \* checkpoint.pt, or Missing, or Broken
    best,        \* the score of the model in best.pt, Worst if there is none
    kills

trainingVars == <<trainStage, batchNo, progress, checkpoint, best, kills>>

New == [step |-> 1, model |-> <<>>, score |-> Worst, counter |-> 0]
Missing == [file |-> "missing", state |-> New]
Broken == [file |-> "broken", state |-> New]

TrainingInit ==
    /\ trainStage = "off"
    /\ batchNo = 0
    /\ progress = New
    /\ checkpoint = Missing
    /\ best = Worst
    /\ kills = 0

-----------------------------------------------------------------------------
Resumed == checkpoint.state

\* A new Trainer, and _load_checkpoint: torch.load raises for a broken file.
Start ==
    /\ trainStage = "off"
    /\ trainStage' = IF checkpoint = Broken THEN "unreadable" ELSE "batch"
    /\ batchNo' = 0
    /\ progress' = Resumed
    /\ UNCHANGED <<checkpoint, best, kills>>

\* Mutant of Done: the batch of the global step counts as done.
DoneToo == batchNo <= progress.step

\* The batches that a resumed training passes over.
Done == batchNo < progress.step

Skip ==
    /\ trainStage = "batch"
    /\ batchNo < Steps
    /\ Done
    /\ batchNo' = batchNo + 1
    /\ UNCHANGED <<trainStage, progress, checkpoint, best, kills>>

\* _train_step, and what follows at this global step: a checkpoint, then an
\* evaluation.
Train ==
    /\ trainStage = "batch"
    /\ batchNo < Steps
    /\ ~Done
    /\ progress' = [progress EXCEPT !.model = Append(@, batchNo)]
    /\ trainStage' = "save"
    /\ UNCHANGED <<batchNo, checkpoint, best, kills>>

EndTraining ==
    /\ trainStage = "batch"
    /\ batchNo = Steps
    /\ trainStage' = "trained"
    /\ UNCHANGED <<batchNo, progress, checkpoint, best, kills>>

SaveCheckpoint ==
    /\ trainStage = "save"
    /\ IF progress.step % SaveSteps = 0
       THEN checkpoint' = [file |-> "whole", state |-> progress]
       ELSE UNCHANGED checkpoint
    /\ trainStage' = "evaluate"
    /\ UNCHANGED <<batchNo, progress, best, kills>>

NextBatch(state) ==
    /\ progress' = [state EXCEPT !.step = @ + 1]
    /\ batchNo' = batchNo + 1
    /\ trainStage' = "batch"

\* evaluate and _should_early_stop: a better model goes to best.pt, and after
\* Patience evaluations without one the training ends.
Evaluate ==
    /\ trainStage = "evaluate"
    /\ IF progress.step % EvalSteps # 0 THEN NextBatch(progress) /\ UNCHANGED best
       ELSE \E score \in Scores :
          IF score > progress.score
          THEN /\ NextBatch([progress EXCEPT !.score = score, !.counter = 0])
               /\ best' = score
          ELSE /\ IF progress.counter + 1 >= Patience
                  THEN /\ progress' = [progress EXCEPT !.counter = @ + 1]
                       /\ trainStage' = "stopped early"
                       /\ UNCHANGED batchNo
                  ELSE NextBatch([progress EXCEPT !.counter = @ + 1])
               /\ UNCHANGED best
    /\ UNCHANGED <<checkpoint, kills>>

\* The process dies; in the middle of torch.save it leaves a broken file.
Kill ==
    /\ trainStage \in {"batch", "save", "evaluate"}
    /\ kills < MaxKills
    /\ kills' = kills + 1
    /\ trainStage' = "off"
    /\ progress' = New
    /\ checkpoint' \in {checkpoint} \union
          (IF trainStage = "save" /\ progress.step % SaveSteps = 0 THEN {Broken} ELSE {})
    /\ best' \in {best} \union
          (IF /\ trainStage = "evaluate"
              /\ progress.step % EvalSteps = 0
              /\ \E score \in Scores : score > progress.score
           THEN {Unreadable} ELSE {})
    /\ UNCHANGED batchNo

\* train() is called again after it has returned.
Again ==
    /\ trainStage \in {"trained", "stopped early"}
    /\ kills < MaxKills
    /\ kills' = kills + 1
    /\ trainStage' = "off"
    /\ progress' = New
    /\ UNCHANGED <<batchNo, checkpoint, best>>

TrainingNext ==
    Start \/ Skip \/ Train \/ EndTraining \/ SaveCheckpoint \/ Evaluate \/ Kill \/ Again

TrainingSpec == TrainingInit /\ [][TrainingNext]_trainingVars

-----------------------------------------------------------------------------
(***************************************************************************)
(* Properties                                                              *)
(***************************************************************************)

\* Through all deaths and resumptions the model has been trained in order on every
\* batch up to the global step but the very first, which is never used; on each
\* once, and after a resumption on the batch of the checkpoint's step once more.
\* And best.pt is not behind the checkpoint: its model has the score that a
\* resumed training sets out to beat, or a better one.
ResumesInOrder ==
    /\ trainStage \in {"batch", "trained"} =>
        LET trained == progress.model IN
        /\ ToSet(trained) \in {1..progress.step - 1, 1..progress.step}
        /\ \A i \in 1..Len(trained) - 1 : trained[i + 1] - trained[i] \in {0, 1}
        /\ Len(trained) <= progress.step + kills
    /\ best # Unreadable => best >= checkpoint.state.score

=============================================================================
