-------------------------------- MODULE Field --------------------------------
(***************************************************************************)
(* What an episode starts from: Manager.setup_scenario                     *)
(* (lynch/field/manager.py) adds the noise of the scenario's strategy      *)
(* (lynch/field/variance.py) to the batch's template and sends one packet  *)
(* to the simulator, which acknowledges nothing and keeps, between two     *)
(* packets, whatever a packet did not mention.  Someone may send it a      *)
(* packet by hand in between (scripts/manual_sim_control.py).              *)
(*                                                                         *)
(* A dict is a function; a key it has not is not in its domain.  Lengths   *)
(* and angles are integers.  Random(seed) is the sequence Draw[seed].      *)
(***************************************************************************)
EXTENDS Integers, FiniteSets, SequencesExt

CONSTANTS
    Config,      \* the scenarios: name -> template, strategy, variance
    BaseSeeds,   \* what randint may return for a batch
    Draw,        \* seed -> the numbers 0..2 the generator yields
    BatchSize,   \* batch_size
    MaxAir,      \* bound: packets on their way to the simulator
    Presets,     \* manual_sim_control's teleports
    Elsewhere    \* where play takes what is on the field

VARIABLES
    scenario,    \* the batch's scenario; "none" between batches
    template,    \* ctx.template
    base,        \* ctx.base_seed
    index,       \* episodes set up
    socket,      \* the manager has its socket
    air,         \* packets on their way, each with the scenario and seed it is of
    field,       \* the simulator's ball and robots
    shown,       \* history: whose packet the field shows untouched, or NoScene
    kept         \* history: one packet remembered, or NoScene

batch == <<scenario, template, base, index>>
vars == <<batch, socket, air, field, shown, kept>>

Get(dict, key, default) == IF key \in DOMAIN dict THEN dict[key] ELSE default

NoKeys == [key \in {} |-> 0]

-----------------------------------------------------------------------------
(***************************************************************************)
(* The packet (ssl_simulation_control.proto, ssl_gc_common.proto).         *)
(***************************************************************************)
Team == {"blue", "yellow"}

RobotId == [team : Team, id : Nat]

TeleportBall == [x : Int, y : Int]

TeleportRobot == [id : RobotId, present : BOOLEAN, x : Int, y : Int, orientation : Int]

SimulatorControl == [teleport_ball : TeleportBall, teleport_robot : Seq(TeleportRobot)]

-----------------------------------------------------------------------------
(***************************************************************************)
(* The noise.  A slot is a number of the template: <<"ball", 0, field>> or *)
(* <<team, place in the team's list, field>>.                              *)
(***************************************************************************)
\* a list entry that is no dict, or has no id, is a dict without one here
WellFormed(robot) == "id" \in DOMAIN robot

TeamSlots(robots, team) ==
    {team} \X (DOMAIN Get(robots, team, <<>>)) \X {"x", "y", "theta"}

\* every slot apply() may come to
Slots(baseline) ==
    LET robots == Get(baseline, "robots", NoKeys)
    IN  ({"ball"} \X {0} \X {"x", "y"})
            \cup TeamSlots(robots, "yellow") \cup TeamSlots(robots, "blue")

\* apply()'s loops: the ball, the yellow team, the blue one; x, y, theta
Turn == [ball |-> 1, yellow |-> 2, blue |-> 3, x |-> 1, y |-> 2, theta |-> 3]

Earlier(slot, other) ==
    \/ Turn[slot[1]] < Turn[other[1]]
    \/ slot[1] = other[1] /\ slot[2] < other[2]
    \/ slot[1] = other[1] /\ slot[2] = other[2] /\ Turn[slot[3]] < Turn[other[3]]

\* the fields the scenario configures for what the slot is of
SlotNoise(baseline, noise, slot) ==
    IF slot[1] = "ball"
    THEN IF "ball" \in DOMAIN baseline THEN Get(noise, "ball", NoKeys) ELSE NoKeys
    ELSE LET robot == baseline.robots[slot[1]][slot[2]]
             team == Get(Get(noise, "robots", NoKeys), slot[1], NoKeys)
         IN  IF WellFormed(robot) THEN Get(team, robot.id, NoKeys) ELSE NoKeys

Configured(baseline, noise, slot) == slot[3] \in DOMAIN SlotNoise(baseline, noise, slot)

NoisySlots(baseline, noise) ==
    {slot \in Slots(baseline) : Configured(baseline, noise, slot)}

\* which draw of the generator a slot gets
DrawNumber(baseline, noise, slot) ==
    1 + Cardinality({s \in NoisySlots(baseline, noise) : Earlier(s, slot)})

\* uniform(*args): the ends or the middle; gauss(0, args): up to three sigma
Sample(strategy, args, drawn) ==
    IF strategy = "uniform_random"
    THEN args[1] + ((args[2] - args[1]) * drawn) \div 2
    ELSE 3 * args * (drawn - 1)

\* mutant: one generator per batch, seeded with its base
RngOfBatch(seed) == Draw[base]

Rng(seed) == Draw[seed]

\* what is added to a slot
NoiseAt(baseline, noise, strategy, seed, slot) ==
    IF strategy = "no_variance" \/ slot \notin NoisySlots(baseline, noise) THEN 0
    ELSE Sample(strategy, SlotNoise(baseline, noise, slot)[slot[3]],
                Rng(seed)[DrawNumber(baseline, noise, slot)])

\* strategy.apply(baseline, noise); it leaves the baseline alone
Apply(baseline, noise, strategy, seed) ==
    LET At(dict, team, i) ==
            [key \in DOMAIN dict |->
                IF key = "id" THEN dict[key]
                ELSE dict[key] + NoiseAt(baseline, noise, strategy, seed, <<team, i, key>>)]
        robots == Get(baseline, "robots", NoKeys)
    IN  [ball |-> At(Get(baseline, "ball", NoKeys), "ball", 0),
         robots |-> [team \in DOMAIN robots |->
                        [i \in DOMAIN robots[team] |-> At(robots[team][i], team, i)]]]

\* an unknown strategy; noise for a team the template does not list, or a
\* number it does not give
ApplyRaises(baseline, noise, strategy) ==
    \/ strategy \notin {"no_variance", "uniform_random", "gaussian_random"}
    \/ /\ strategy # "no_variance"
       /\ \/ /\ {"robots"} \subseteq DOMAIN noise \cap DOMAIN baseline
             /\ \E team \in Team \cap DOMAIN noise.robots : team \notin DOMAIN baseline.robots
          \/ \E slot \in NoisySlots(baseline, noise) :
                slot[3] \notin DOMAIN (IF slot[1] = "ball" THEN baseline.ball
                                       ELSE baseline.robots[slot[1]][slot[2]])

-----------------------------------------------------------------------------
\* a dict of numbers
IsDict(dict, keys) == DOMAIN dict \subseteq keys /\ \A key \in DOMAIN dict : dict[key] \in Int

IsTeam(list) ==
    /\ list \in Seq(ToSet(list))
    /\ \A robot \in ToSet(list) : IsDict(robot, {"id", "x", "y", "theta"})

(***************************************************************************)
(* Templates place a ball and teams.  uniform() takes two numbers, gauss() *)
(* one, and the generator never runs dry.  Of a template that breaks off   *)
(* an episode all the same see ApplyRaises and PacketRaises.               *)
(***************************************************************************)
ASSUME FieldAssumption ==
    /\ BaseSeeds \subseteq Nat /\ {BatchSize, MaxAir} \subseteq Nat
    /\ {seed + i : seed \in BaseSeeds, i \in 0 .. BatchSize - 1} \subseteq DOMAIN Draw
    /\ \A seed \in DOMAIN Draw : Draw[seed] \in Seq(0 .. 2)
    /\ \A name \in DOMAIN Config :
          LET baseline == Config[name].template
              noise == Config[name].variance
              robots == Get(baseline, "robots", NoKeys)
          IN  /\ IsDict(Get(baseline, "ball", NoKeys), {"x", "y"})
              /\ \A team \in DOMAIN robots : IsTeam(robots[team])
              /\ \A slot \in NoisySlots(baseline, noise) :
                    LET args == SlotNoise(baseline, noise, slot)[slot[3]]
                    IN  /\ Config[name].strategy = "uniform_random" => args \in Int \X Int
                        /\ Config[name].strategy = "gaussian_random" => args \in Int
                        /\ \A seed \in DOMAIN Draw :
                              DrawNumber(baseline, noise, slot) \in DOMAIN Draw[seed]
    /\ \A preset \in Presets :
          /\ preset.ball \in TeleportBall
          /\ \A team \in Team : IsTeam(preset[team])

-----------------------------------------------------------------------------
(***************************************************************************)
(* Manager._send_replacement.                                              *)
(***************************************************************************)
Placed(robot) ==
    [id |-> [team |-> "blue", id |-> robot.id], present |-> TRUE,
     x |-> Get(robot, "x", 0), y |-> Get(robot, "y", 0),
     orientation |-> Get(robot, "theta", 0)]

Gone(team, id) ==
    [id |-> [team |-> team, id |-> id], present |-> FALSE,
     x |-> 0, y |-> 0, orientation |-> 0]

\* mutant: range(0, 10)
YellowGoneShort == [i \in 1 .. 10 |-> Gone("yellow", i - 1)]

BlueGone == [i \in 1 .. 9 |-> Gone("blue", i + 1)]
YellowGone == [i \in 1 .. 11 |-> Gone("yellow", i - 1)]

\* a list without its malformed entries
Accepted(list) ==
    LET upTo[n \in 0 .. Len(list)] ==
            IF n = 0 THEN <<>>
            ELSE IF WellFormed(list[n]) THEN Append(upTo[n - 1], list[n])
            ELSE upTo[n - 1]
    IN  upTo[Len(list)]

BlueOf(positions) == Accepted(Get(positions.robots, "blue", <<>>))

Packet(positions) ==
    LET blue == BlueOf(positions)
    IN  [teleport_ball |-> [x |-> Get(positions.ball, "x", 0), y |-> Get(positions.ball, "y", 0)],
         teleport_robot |-> [i \in DOMAIN blue |-> Placed(blue[i])] \o BlueGone \o YellowGone]

\* the packet's ids are unsigned; the assignment is not inside the try
PacketRaises(positions) == \E robot \in ToSet(BlueOf(positions)) : robot.id < 0

-----------------------------------------------------------------------------
Robots == [team : Team, id : 0 .. 10]

Absent == [present |-> FALSE]
There(x, y, orientation) == [present |-> TRUE, x |-> x, y |-> y, orientation |-> orientation]

\* the place of the last entry with an id, 0 if none has it
LastWith(entries, id) == SelectLastInSeq(entries, LAMBDA entry : entry.id = id)

\* the simulator goes through the entries in order: the last one counts
Shown(control, before) ==
    LET entries == control.teleport_robot
        Place(robot) ==
            LET k == LastWith(entries, robot)
            IN  IF k = 0 THEN before.robots[robot]
                ELSE IF ~entries[k].present THEN Absent
                ELSE There(entries[k].x, entries[k].y, entries[k].orientation)
    IN  [ball |-> control.teleport_ball, robots |-> [robot \in Robots |-> Place(robot)]]

NoScene == [scenario |-> "none", seed |-> 0]

Init ==
    /\ scenario = "none" /\ template = NoKeys /\ base = 0 /\ index = 0
    /\ socket = TRUE /\ air = <<>>
    /\ field = [ball |-> Elsewhere,
                robots |-> [robot \in Robots |-> There(Elsewhere.x, Elsewhere.y, 0)]]
    /\ shown = NoScene /\ kept = [of |-> NoScene]

\* the command's context: the template is read, the base seed drawn
BuildContext ==
    /\ scenario = "none"
    /\ scenario' \in DOMAIN Config
    /\ template' = Config[scenario'].template
    /\ base' \in BaseSeeds
    /\ index' = 0
    /\ UNCHANGED <<socket, air, field, shown, kept>>

\* mutant: one episode more than the batch has
MoreOrEqual == scenario # "none" /\ index <= BatchSize

More == scenario # "none" /\ index < BatchSize

Seed == base + index

(***************************************************************************)
(* ManualSimControl.send_teleport: of each team robots 0 to 5 are present, *)
(* those without a pose off the field, and 6 to 10 are not.                *)
(***************************************************************************)
ManualRobot(team, poses, id) ==
    LET k == LastWith(poses, id)
        beside == IF team = "blue" THEN -1000 ELSE 1000
    IN  IF id > 5 THEN Gone(team, id)
        ELSE IF k = 0 THEN [Gone(team, id) EXCEPT !.present = TRUE, !.x = beside, !.y = 100 * id]
        ELSE [Placed(poses[k]) EXCEPT !.id.team = team]

ManualPacket(preset) ==
    [teleport_ball |-> preset.ball,
     teleport_robot |-> [i \in 1 .. 22 |->
        IF i <= 11 THEN ManualRobot("yellow", preset.yellow, i - 1)
                   ELSE ManualRobot("blue", preset.blue, i - 12)]]

SendByHand ==
    /\ Len(air) < MaxAir
    /\ \E preset \in Presets :
          air' = Append(air, [of |-> NoScene, control |-> ManualPacket(preset)])
    /\ UNCHANGED <<batch, socket, field, shown, kept>>

Noisy ==
    LET cfg == Config[scenario] IN Apply(template, cfg.variance, cfg.strategy, Seed)

\* sendto on a socket that is closed or gone raises, which is logged
Send(packet) ==
    IF socket THEN air' = Append(air, packet) ELSE UNCHANGED air

\* mutant: the noise is added to the template itself
SetupInPlace ==
    /\ More /\ Len(air) < MaxAir
    /\ ~ApplyRaises(template, Config[scenario].variance, Config[scenario].strategy)
    /\ ~PacketRaises(Noisy)
    /\ LET sent == [of |-> [scenario |-> scenario, seed |-> Seed], control |-> Packet(Noisy)]
       IN  /\ Send(sent)
           /\ kept' \in IF kept.of = NoScene /\ socket THEN {kept, sent} ELSE {kept}
    /\ template' = Noisy
    /\ index' = index + 1
    /\ UNCHANGED <<scenario, base, socket, field, shown>>

Setup ==
    /\ More /\ Len(air) < MaxAir
    /\ ~ApplyRaises(template, Config[scenario].variance, Config[scenario].strategy)
    /\ ~PacketRaises(Noisy)
    /\ LET sent == [of |-> [scenario |-> scenario, seed |-> Seed], control |-> Packet(Noisy)]
       IN  /\ Send(sent)
           /\ kept' \in IF kept.of = NoScene /\ socket THEN {kept, sent} ELSE {kept}
    /\ index' = index + 1
    /\ UNCHANGED <<scenario, template, base, socket, field, shown>>

\* the episode fails before anything is sent
SetupRaises ==
    /\ More
    /\ \/ ApplyRaises(template, Config[scenario].variance, Config[scenario].strategy)
       \/ PacketRaises(Noisy)
    /\ index' = index + 1
    /\ UNCHANGED <<scenario, template, base, socket, air, field, shown, kept>>

BatchDone ==
    /\ scenario # "none" /\ ~More
    /\ scenario' = "none" /\ template' = NoKeys /\ base' = 0 /\ index' = 0
    /\ UNCHANGED <<socket, air, field, shown, kept>>

\* close(), from the thread of the runner's close()
Close ==
    /\ socket
    /\ socket' = FALSE
    /\ UNCHANGED <<batch, air, field, shown, kept>>

-----------------------------------------------------------------------------
Arrive ==
    /\ air # <<>>
    /\ field' = Shown(Head(air).control, field)
    /\ shown' = Head(air).of
    /\ air' = Tail(air)
    /\ UNCHANGED <<batch, socket, kept>>

Lost ==
    /\ air # <<>>
    /\ air' = Tail(air)
    /\ UNCHANGED <<batch, socket, field, shown, kept>>

\* the ball is kicked and robots drive
Play ==
    /\ field' = [ball |-> Elsewhere,
                 robots |-> [robot \in Robots |->
                    IF field.robots[robot].present
                    THEN There(Elsewhere.x, Elsewhere.y, 0) ELSE Absent]]
    /\ shown' = NoScene
    /\ UNCHANGED <<batch, socket, air, kept>>

Next ==
    \/ BuildContext \/ Setup \/ SetupRaises \/ BatchDone \/ Close
    \/ SendByHand \/ Arrive \/ Lost \/ Play

Spec == Init /\ [][Next]_vars

-----------------------------------------------------------------------------
TypeOK ==
    /\ scenario \in DOMAIN Config \cup {"none"}
    /\ scenario # "none" => base \in BaseSeeds
    /\ index \in 0 .. BatchSize /\ socket \in BOOLEAN
    /\ \A i \in DOMAIN air : air[i].control \in SimulatorControl
    /\ DOMAIN field.robots = Robots

PresentRobots == {robot \in Robots : field.robots[robot].present}

ShownTemplate == Config[shown.scenario].template

\* the template's robots of a team, where the list gives ids
Named(team) ==
    LET robots == Get(Get(ShownTemplate, "robots", NoKeys), team, <<>>)
    IN  {[team |-> team, id |-> robots[i].id] : i \in {j \in DOMAIN robots : WellFormed(robots[j])}}

(***************************************************************************)
(* "so the simulator doesn't keep robots from a previous episode"          *)
(* (tests/integration/test_manager.py:40): a template that names blue 0    *)
(* and 1, as the shipped ones do, puts exactly these two on the field,     *)
(* whoever was there before and whichever packets were lost                *)
(* (manager.py:62-90).                                                     *)
(***************************************************************************)
NobodyLeftOver ==
    shown # NoScene =>
        (Named("blue") = {[team |-> "blue", id |-> 0], [team |-> "blue", id |-> 1]}
            => PresentRobots = Named("blue"))

Between(a, b) == a .. b \cup b .. a

\* where the noise of a slot may take it
Reach(slot, value) ==
    LET cfg == Config[shown.scenario]
        noise == SlotNoise(ShownTemplate, cfg.variance, slot)
        args == noise[slot[3]]
    IN  IF cfg.strategy = "no_variance" \/ slot[3] \notin DOMAIN noise THEN {value}
        ELSE IF cfg.strategy = "uniform_random" THEN Between(value + args[1], value + args[2])
        ELSE Between(value - 3 * args, value + 3 * args)

(***************************************************************************)
(* An episode starts within its noise of the template, the last of a batch *)
(* as the first: the batch shares one template, and noise that stayed in   *)
(* it would add up (variance.py:42).                                       *)
(***************************************************************************)
NoDrift ==
    shown # NoScene =>
        /\ "ball" \in DOMAIN ShownTemplate =>
               \A key \in DOMAIN ShownTemplate.ball \cap {"x", "y"} :
                   field.ball[key] \in Reach(<<"ball", 0, key>>, ShownTemplate.ball[key])
        /\ LET blue == Get(Get(ShownTemplate, "robots", NoKeys), "blue", <<>>)
               Showing(i) ==
                   /\ WellFormed(blue[i]) /\ blue[i].id \in 0 .. 1
                   /\ \A j \in i + 1 .. Len(blue) : WellFormed(blue[j]) => blue[j].id # blue[i].id
           IN  \A i \in DOMAIN blue : Showing(i) =>
                   LET robot == field.robots[[team |-> "blue", id |-> blue[i].id]]
                   IN  \A key \in DOMAIN blue[i] \cap {"x", "y"} :
                           robot[key] \in Reach(<<"blue", i, key>>, blue[i][key])

(***************************************************************************)
(* The seeds a summary names tell what its episodes started from: two      *)
(* episodes of a scenario with the same seed, in whichever batch and at    *)
(* whichever place of it, are sent the same packet (runner.py:197-198).    *)
(***************************************************************************)
SameSeedSameScene ==
    kept.of # NoScene => \A i \in DOMAIN air : air[i].of = kept.of => air[i] = kept
=============================================================================
