------------------------------- MODULE MCField -------------------------------
(***************************************************************************)
(* Field with templates like the shipped ones under each strategy, a       *)
(* template that lacks what the noise is for, one with a malformed entry,  *)
(* and the README's example, which places the yellow team.                 *)
(***************************************************************************)
EXTENDS Field

At(id, x, y) == [id |-> id, x |-> x, y |-> y, theta |-> 0]

Pair == [ball |-> [x |-> 3, y |-> 0], robots |-> [blue |-> <<At(0, 4, 0), At(1, 1, 0)>>]]

\* the malformed entry is between the two
Sloppy == [ball |-> [x |-> 3],
           robots |-> [blue |-> <<At(1, 2, 2), [x |-> 9, y |-> 9], At(0, 2, -2)>>]]

Yellow == [ball |-> [x |-> 0, y |-> 0],
           robots |-> [blue |-> <<>>, yellow |-> <<At(0, -2, 0), At(1, 3, 0)>>]]

Negative == [robots |-> [blue |-> <<At(-1, 0, 0)>>]]

Uniform == [ball |-> [x |-> <<-2, 2>>], robots |-> [blue |-> [id \in {0} |-> [y |-> <<1, 3>>, theta |-> <<0, 2>>]]]]

Gaussian == [ball |-> [x |-> 1, y |-> 1], robots |-> [blue |-> [id \in {1} |-> [x |-> 1]]]]

BothTeams == [robots |-> [team \in Team |-> [id \in {0} |-> [x |-> <<-1, 1>>]]]]

Scenario(template_, strategy, variance) ==
    [template |-> template_, strategy |-> strategy, variance |-> variance]

MCConfig ==
    [uniform |-> Scenario(Pair, "uniform_random", Uniform),
     gaussian |-> Scenario(Pair, "gaussian_random", Gaussian),
     sloppy |-> Scenario(Sloppy, "uniform_random", Uniform),
     yellow |-> Scenario(Yellow, "no_variance", NoKeys),
     noYellow |-> Scenario(Pair, "uniform_random", BothTeams),
     noBallY |-> Scenario(Sloppy, "gaussian_random", Gaussian),
     negative |-> Scenario(Negative, "no_variance", NoKeys)]

MCDraw == [seed \in 0 .. 3 |->
    <<<<2, 2, 0, 1>>, <<0, 1, 2, 2>>, <<2, 0, 1, 0>>, <<1, 1, 1, 1>>>>[seed + 1]]

\* some of each team posed, one of them twice
MCPresets == {[ball |-> [x |-> -4, y |-> 0], yellow |-> <<At(0, 5, 0)>>,
               blue |-> <<At(1, 9, 9), At(1, 0, 3)>>]}

MCElsewhere == [x |-> 7, y |-> 7]
=============================================================================
