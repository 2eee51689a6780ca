----------------------------- MODULE MCEvaluation -----------------------------
(***************************************************************************)
(* Evaluation with the assessment lists of test_config.yaml, and one that  *)
(* names a reward provider first and has no TimeLimit; a ball at every     *)
(* place the assessments tell apart.                                       *)
(***************************************************************************)
EXTENDS Evaluation

TestSuite == <<"TimeLimit", "DistanceToCenter">>
Shootout == <<"GoalScored", "TimeLimit", "BallOutOfBounds", "BallProgress">>
PenaltyKick == <<"GoalScored", "TimeLimit", "BallStopped", "BallOutOfBounds">>
Untimed == <<"DistanceToCenter", "BallStopped", "BallOutOfBounds">>

MCSuites == {TestSuite, Shootout, PenaltyKick, Untimed}

At(x, y, fast) == [seen |-> TRUE, x |-> x, y |-> y, fast |-> fast]

\* still and moving on the field; in the goal, before and behind the line; out
\* beside the goal
MCBalls == {At(0, 0, FALSE), At(0, 0, TRUE),
            At(447, 50, FALSE), At(460, 0, TRUE), At(460, 51, FALSE)}

Moving(x, y) == [x |-> x, y |-> y, fast |-> TRUE]
Resting(x, y) == [x |-> x, y |-> y, fast |-> FALSE]

\* no ball, a second one, one without a velocity
MCTracked == {<<>>, <<Moving(0, 0), Resting(460, 51)>>, <<[x |-> 0, y |-> 0]>>,
              <<Moving(460, 0)>>, <<Resting(460, 51)>>}

MCOutReward == -1

MCRobotSets == {{}, {1, 2}}
=============================================================================
