------------------------------- MODULE Rewards -------------------------------
(***************************************************************************)
(* The rewards a transition carries (lynch/state/schema.py, `rewards`) and *)
(* the arithmetic the runner and the registry do on them.  A reward is     *)
(* either a scalar, shared by every robot, or a dict with an entry for     *)
(* each robot of the frame; a NeonFC frame always has the same robots      *)
(* (lynch/state/parsers.py:43), so a dict is a function on Robots.         *)
(* Real-valued rewards are abstracted to integers.                         *)
(***************************************************************************)
EXTENDS Integers

CONSTANTS Robots,    \* robot ids of a frame
          Striker    \* the robot BallProgress is configured with

ASSUME RobotsAssumption == Striker \in Robots

Reward == [kind : {"scalar", "dict"}, value : Int, entries : [Robots -> Int]]

Scalar(v) == [kind |-> "scalar", value |-> v, entries |-> [rid \in Robots |-> 0]]
Dict(table) == [kind |-> "dict", value |-> 0, entries |-> table]

IsDict(reward) == reward.kind = "dict"

(***************************************************************************)
(* What a reward gives one robot: the scalar, or the robot's entry.        *)
(***************************************************************************)
Worth(reward, rid) ==
    IF IsDict(reward) THEN reward.entries[rid] ELSE reward.value

(***************************************************************************)
(* Runner.__merge_rewards: the sum stays scalar only while both summands   *)
(* are scalars; a scalar accumulator met by a dict is first spread over    *)
(* the dict's keys, a scalar addend goes to every key.                     *)
(***************************************************************************)
Spread(acc) == IF IsDict(acc) THEN acc.entries ELSE [rid \in Robots |-> acc.value]

\* mutant: the entry is overwritten instead of summed
AddTablesOverwrites(base, other) == other

AddTables(base, other) == [rid \in Robots |-> base[rid] + other[rid]]

MergeRewards(acc, addend) ==
    IF ~IsDict(acc) /\ ~IsDict(addend)
    THEN Scalar(acc.value + addend.value)
    ELSE IF IsDict(addend)
         THEN Dict(AddTables(Spread(acc), addend.entries))
         ELSE Dict([rid \in Robots |-> acc.entries[rid] + addend.value])

(***************************************************************************)
(* BallProgress.shape: the distance to the ball that was closed, weight 1. *)
(***************************************************************************)
Progress(prevDistance, distance) == prevDistance - distance

(***************************************************************************)
(* AssessmentRegistry.shape with BallProgress loaded: every robot of the   *)
(* frame has an entry, 0 unless a provider shapes it.                      *)
(***************************************************************************)
Shape(prevDistance, distance) ==
    Dict([rid \in Robots |-> IF rid = Striker THEN Progress(prevDistance, distance) ELSE 0])
=============================================================================
