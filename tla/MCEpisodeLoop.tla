---------------------------- MODULE MCEpisodeLoop ----------------------------
(***************************************************************************)
(* EpisodeLoop on a small instance: two robots, two held actions, two      *)
(* distances and the outcomes of a goal and of a shaped timeout.           *)
(***************************************************************************)
EXTENDS EpisodeLoop

CONSTANTS keeper, striker, kick, dribble, none

MCRobots == {keeper, striker}
MCActions == {kick, dribble}
MCDistances == {1, 3}
MCOutcomes == {Scalar(10), Dict([rid \in MCRobots |-> IF rid = striker THEN 1 ELSE -2])}
=============================================================================
