------------------------------ MODULE FieldProofs ------------------------------
(***************************************************************************)
(* Theorems of Field: what an episode starts from, for every set of        *)
(* scenarios, every generator, every preset and any number of packets on   *)
(* their way.                                                              *)
(*                                                                         *)
(* The inductive invariant is FieldInv.  A packet tells whose it is, so    *)
(* it is enough to know that the packets on their way are the ones of      *)
(* scenes that can be sent, or are sent by hand (OnTheWay), that the one   *)
(* remembered is such a packet too, and that a field which shows a scene   *)
(* is what its packet makes of some field before (Showing).  What the      *)
(* packet of a scene says follows from the scenario alone.                 *)
(***************************************************************************)
EXTENDS Field, TLAPS, NaturalsInduction, WellFoundedInduction, SequenceTheorems

(***************************************************************************)
(* Lists.                                                                  *)
(***************************************************************************)
\* what holds of 0, and of a number if of the one before it, holds of all
LEMMA UpTo ==
    ASSUME NEW last \in Nat, NEW S, 0 \in S, \A n \in 1 .. last : n - 1 \in S => n \in S
    PROVE  0 .. last \subseteq S
<1> DEFINE missing == {n \in 0 .. last : n \notin S}
<1> SUFFICES ASSUME missing # {}
             PROVE  FALSE
  OBVIOUS
<1>1. \E x \in missing : \A y \in missing : ~(<<y, x>> \in OpToRel(<, Nat))
  <2>1. missing \subseteq Nat
    OBVIOUS
  <2> HIDE DEF missing
  <2> QED
    BY <2>1, NatLessThanWellFounded, WFMin
<1>2. PICK x \in missing : \A y \in missing : ~(<<y, x>> \in OpToRel(<, Nat))
  BY <1>1
<1>3. x \in 1 .. last
  OBVIOUS
<1>4. x - 1 \in S
  <2> SUFFICES ASSUME x - 1 \notin S
               PROVE  FALSE
    OBVIOUS
  <2>1. x - 1 \in missing
    BY <1>3
  <2>2. <<x - 1, x>> \in OpToRel(<, Nat)
    BY <1>3 DEF OpToRel
  <2> QED
    BY <1>2, <2>1, <2>2
<1> QED
  BY <1>3, <1>4

\* there is a last place
LEMMA LastPlace ==
    ASSUME NEW last \in Nat, NEW places \in SUBSET (1 .. last), places # {}
    PROVE  Max(places) \in places /\ \A i \in places : i <= Max(places)
<1> DEFINE S == {n \in 0 .. last : (\E i \in places : last - n <= i)
                   => \E i \in places : \A j \in places : j <= i}
<1>1. 0 \in S
  OBVIOUS
<1>2. ASSUME NEW n \in 1 .. last, n - 1 \in S
      PROVE  n \in S
  <2>1. n \in 0 .. last
    OBVIOUS
  <2>2. ASSUME NEW i \in places, last - n <= i
        PROVE  \E x \in places : \A j \in places : j <= x
    <3>1. CASE \E j \in places : last - (n - 1) <= j
      BY <1>2, <3>1
    <3>2. CASE \A j \in places : ~(last - (n - 1) <= j)
      <4>1. \A j \in places : j <= i
        BY <2>2, <3>2
      <4> QED
        BY <4>1
    <3> QED
      BY <3>1, <3>2
  <2> QED
    BY <2>1, <2>2
<1> HIDE DEF S
<1>3. last \in S
  BY <1>1, <1>2, UpTo
<1>4. \E i \in places : \A j \in places : j <= i
  <2>1. PICK i \in places : TRUE
    OBVIOUS
  <2>2. last - last <= i
    BY i \in 1 .. last
  <2> QED
    BY <1>3, <2>2 DEF S
<1>5. Max(places) = CHOOSE x \in places : \A y \in places : x >= y
  BY DEF Max
<1> QED
  BY <1>4, <1>5

\* the last entry with an id
LEMMA LastWithId ==
    ASSUME NEW S, NEW entries \in Seq(S), NEW id
    PROVE  \/ /\ LastWith(entries, id) = 0
              /\ \A i \in 1 .. Len(entries) : entries[i].id # id
           \/ /\ LastWith(entries, id) \in 1 .. Len(entries)
              /\ entries[LastWith(entries, id)].id = id
              /\ \A i \in 1 .. Len(entries) :
                    entries[i].id = id => i <= LastWith(entries, id)
<1> DEFINE places == {i \in 1 .. Len(entries) : entries[i].id = id}
<1>1. LastWith(entries, id) = IF places # {} THEN Max(places) ELSE 0
  BY DEF LastWith, SelectLastInSeq
<1>2. Len(entries) \in Nat /\ places \in SUBSET (1 .. Len(entries))
  OBVIOUS
<1>3. \A i \in 1 .. Len(entries) : entries[i].id = id <=> i \in places
  OBVIOUS
<1> HIDE DEF places
<1>4. CASE places = {}
  BY <1>1, <1>3, <1>4
<1>5. CASE places # {}
  <2>1. Max(places) \in places /\ \A i \in places : i <= Max(places)
    BY <1>2, <1>5, LastPlace
  <2>2. LastWith(entries, id) = Max(places)
    BY <1>1, <1>5
  <2> HIDE DEF LastWith
  <2> QED
    BY <1>2, <1>3, <2>1, <2>2
<1> QED
  BY <1>4, <1>5

\* the entries of a list that are kept, one place after the other
Filters(upTo, list, last) ==
    upTo = [n \in 0 .. last |->
               IF n = 0 THEN <<>>
               ELSE IF WellFormed(list[n]) THEN Append(upTo[n - 1], list[n])
               ELSE upTo[n - 1]]

LEMMA SomeFilters ==
    ASSUME NEW list, NEW last \in Nat
    PROVE  \E upTo : Filters(upTo, list, last)
<1> DEFINE S == {m \in 0 .. last : \E upTo : Filters(upTo, list, m)}
<1>1. 0 \in S
  <2>1. Filters([n \in 0 .. 0 |-> <<>>], list, 0)
    BY DEF Filters
  <2> QED
    BY <2>1
<1>2. ASSUME NEW m \in 1 .. last, m - 1 \in S
      PROVE  m \in S
  <2>1. PICK upTo : Filters(upTo, list, m - 1)
    BY <1>2
  <2> DEFINE entry == IF WellFormed(list[m]) THEN Append(upTo[m - 1], list[m]) ELSE upTo[m - 1]
             longer == [n \in 0 .. m |-> IF n = m THEN entry ELSE upTo[n]]
  <2> HIDE DEF entry
  <2>2. \A n \in 0 .. m - 1 : longer[n] = upTo[n]
    OBVIOUS
  <2>3. longer[m] = entry
    OBVIOUS
  <2>4. ASSUME NEW n \in 0 .. m
        PROVE  longer[n] = IF n = 0 THEN <<>>
                           ELSE IF WellFormed(list[n]) THEN Append(longer[n - 1], list[n])
                           ELSE longer[n - 1]
    <3> HIDE DEF longer
    <3>1. CASE n = m
      <4>1. n # 0 /\ longer[n - 1] = upTo[m - 1]
        BY <2>2, <3>1
      <4> QED
        BY <2>3, <3>1, <4>1 DEF entry
    <3>2. CASE n # m
      <4>1. n \in 0 .. m - 1 /\ longer[n] = upTo[n]
        BY <2>2, <3>2
      <4>2. upTo[n] = IF n = 0 THEN <<>>
                      ELSE IF WellFormed(list[n]) THEN Append(upTo[n - 1], list[n])
                      ELSE upTo[n - 1]
        BY <2>1, <4>1 DEF Filters
      <4>3. n # 0 => longer[n - 1] = upTo[n - 1]
        BY <2>2, <4>1
      <4> QED
        BY <4>1, <4>2, <4>3
    <3> QED
      BY <3>1, <3>2
  <2>5. Filters(longer, list, m)
    <3>1. longer = [n \in 0 .. m |-> longer[n]]
      OBVIOUS
    <3> HIDE DEF longer
    <3> QED
      BY <2>4, <3>1 DEF Filters
  <2> QED
    BY <2>5
<1> HIDE DEF S
<1>3. last \in S
  BY <1>1, <1>2, UpTo
<1> QED
  BY <1>3 DEF S

\* what is left of a list when the entries without an id are left out
Leaves(part, list, n) ==
    /\ part \in Seq(ToSet(list))
    /\ \A k \in 1 .. Len(part) : \E i \in 1 .. n : WellFormed(list[i]) /\ part[k] = list[i]
    /\ \A i \in 1 .. n : WellFormed(list[i]) => \E k \in 1 .. Len(part) : part[k] = list[i]
    /\ \A i \in 1 .. n :
          /\ WellFormed(list[i])
          /\ \A j \in i + 1 .. n : WellFormed(list[j]) => list[j].id # list[i].id
          => \E k \in 1 .. Len(part) :
                /\ part[k] = list[i]
                /\ \A l \in k + 1 .. Len(part) : part[l].id # list[i].id

LEMMA LeavesMore ==
    ASSUME NEW list, NEW m \in Nat \ {0}, NEW part, Leaves(part, list, m - 1),
           WellFormed(list[m]), list[m] \in ToSet(list)
    PROVE  Leaves(Append(part, list[m]), list, m)
<1> DEFINE more == Append(part, list[m])
<1>1. part \in Seq(ToSet(list))
  BY DEF Leaves
<1>2. /\ more \in Seq(ToSet(list)) /\ Len(more) = Len(part) + 1 /\ more[Len(part) + 1] = list[m]
      /\ \A k \in 1 .. Len(part) : more[k] = part[k]
      /\ Len(part) \in Nat
  BY <1>1, AppendProperties
<1> HIDE DEF more
<1>3. ASSUME NEW k \in 1 .. Len(more)
      PROVE  \E i \in 1 .. m : WellFormed(list[i]) /\ more[k] = list[i]
  <2>1. CASE k = Len(part) + 1
    BY <1>2, <2>1
  <2>2. CASE k \in 1 .. Len(part)
    <3>1. PICK i \in 1 .. m - 1 : WellFormed(list[i]) /\ part[k] = list[i]
      BY <2>2 DEF Leaves
    <3> QED
      BY <1>2, <2>2, <3>1
  <2> QED
    BY <1>2, <2>1, <2>2
<1>4. ASSUME NEW i \in 1 .. m, WellFormed(list[i])
      PROVE  \E k \in 1 .. Len(more) : more[k] = list[i]
  <2>1. CASE i = m
    BY <1>2, <2>1
  <2>2. CASE i \in 1 .. m - 1
    <3>1. PICK k \in 1 .. Len(part) : part[k] = list[i]
      BY <1>4, <2>2 DEF Leaves
    <3> QED
      BY <1>2, <3>1
  <2> QED
    BY <2>1, <2>2
<1>5. ASSUME NEW i \in 1 .. m, WellFormed(list[i]),
             \A j \in i + 1 .. m : WellFormed(list[j]) => list[j].id # list[i].id
      PROVE  \E k \in 1 .. Len(more) :
                /\ more[k] = list[i]
                /\ \A l \in k + 1 .. Len(more) : more[l].id # list[i].id
  <2>1. CASE i = m
    <3>1. /\ Len(more) \in 1 .. Len(more) /\ more[Len(more)] = list[i]
          /\ \A l \in Len(more) + 1 .. Len(more) : more[l].id # list[i].id
      BY <1>2, <2>1
    <3> QED
      BY <3>1
  <2>2. CASE i \in 1 .. m - 1
    <3>1. \A j \in i + 1 .. m - 1 : WellFormed(list[j]) => list[j].id # list[i].id
      BY <1>5, <2>2
    <3>2. PICK k \in 1 .. Len(part) :
             part[k] = list[i] /\ \A l \in k + 1 .. Len(part) : part[l].id # list[i].id
      BY <1>5, <2>2, <3>1 DEF Leaves
    <3>3. list[m].id # list[i].id
      BY <1>5, <2>2
    <3>4. ASSUME NEW l \in k + 1 .. Len(more)
          PROVE  more[l].id # list[i].id
      <4>1. CASE l = Len(part) + 1
        BY <1>2, <3>3, <4>1
      <4>2. CASE l \in k + 1 .. Len(part)
        <5>1. more[l] = part[l]
          BY <1>2, <4>2
        <5> QED
          BY <3>2, <4>2, <5>1
      <4> QED
        BY <1>2, <4>1, <4>2
    <3>5. k \in 1 .. Len(more) /\ more[k] = list[i]
      BY <1>2, <3>2
    <3> QED
      BY <3>4, <3>5
  <2> QED
    BY <2>1, <2>2
<1>6. Leaves(more, list, m)
  BY <1>2, <1>3, <1>4, <1>5 DEF Leaves
<1> QED
  BY <1>6 DEF more

LEMMA LeavesSame ==
    ASSUME NEW list, NEW m \in Nat \ {0}, NEW part, Leaves(part, list, m - 1),
           ~WellFormed(list[m])
    PROVE  Leaves(part, list, m)
<1>1. \A i \in 1 .. m : WellFormed(list[i]) => i \in 1 .. m - 1
  OBVIOUS
<1>2. \A i \in 1 .. m - 1 : i \in 1 .. m /\ i + 1 .. m - 1 \subseteq i + 1 .. m
  OBVIOUS
<1>3. part \in Seq(ToSet(list))
  BY DEF Leaves
<1>4. \A k \in 1 .. Len(part) : \E i \in 1 .. m : WellFormed(list[i]) /\ part[k] = list[i]
  BY <1>2 DEF Leaves
<1>5. \A i \in 1 .. m : WellFormed(list[i]) => \E k \in 1 .. Len(part) : part[k] = list[i]
  BY <1>1 DEF Leaves
<1>6. ASSUME NEW i \in 1 .. m, WellFormed(list[i]),
             \A j \in i + 1 .. m : WellFormed(list[j]) => list[j].id # list[i].id
      PROVE  \E k \in 1 .. Len(part) :
                part[k] = list[i] /\ \A l \in k + 1 .. Len(part) : part[l].id # list[i].id
  <2>1. i \in 1 .. m - 1
    BY <1>1, <1>6
  <2>2. \A j \in i + 1 .. m - 1 : WellFormed(list[j]) => list[j].id # list[i].id
    BY <1>2, <1>6, <2>1
  <2> QED
    BY <1>6, <2>1, <2>2 DEF Leaves
<1> QED
  BY <1>3, <1>4, <1>5, <1>6 DEF Leaves

LEMMA AcceptedLeaves ==
    ASSUME NEW S, NEW list \in Seq(S)
    PROVE  Leaves(Accepted(list), list, Len(list))
<1>1. Len(list) \in Nat /\ \A i \in 1 .. Len(list) : list[i] \in ToSet(list)
  BY DEF ToSet
<1> DEFINE upTo == CHOOSE f : Filters(f, list, Len(list))
<1>2. Filters(upTo, list, Len(list))
  BY <1>1, SomeFilters
<1>3. Accepted(list) = upTo[Len(list)]
  BY DEF Accepted, Filters
<1> HIDE DEF upTo
<1>4. \A n \in 0 .. Len(list) :
         upTo[n] = IF n = 0 THEN <<>>
                   ELSE IF WellFormed(list[n]) THEN Append(upTo[n - 1], list[n])
                   ELSE upTo[n - 1]
  BY <1>2 DEF Filters
<1> DEFINE S0 == {n \in 0 .. Len(list) : Leaves(upTo[n], list, n)}
<1>5. 0 \in S0
  <2>1. upTo[0] = <<>>
    BY <1>1, <1>4
  <2>2. Leaves(<<>>, list, 0)
    BY DEF Leaves
  <2> QED
    BY <1>1, <2>1, <2>2
<1>6. ASSUME NEW n \in 1 .. Len(list), n - 1 \in S0
      PROVE  n \in S0
  <2>1. Leaves(upTo[n - 1], list, n - 1) /\ list[n] \in ToSet(list) /\ n \in Nat \ {0}
    BY <1>1, <1>6
  <2>2. CASE WellFormed(list[n])
    <3>1. Leaves(Append(upTo[n - 1], list[n]), list, n)
      BY <2>1, <2>2, LeavesMore
    <3> QED
      BY <1>1, <1>4, <2>2, <3>1
  <2>3. CASE ~WellFormed(list[n])
    <3>1. Leaves(upTo[n - 1], list, n)
      BY <2>1, <2>3, LeavesSame
    <3> QED
      BY <1>1, <1>4, <2>3, <3>1
  <2> QED
    BY <2>2, <2>3
<1> HIDE DEF S0
<1>7. Len(list) \in S0
  <2>1. 0 .. Len(list) \subseteq S0
    BY <1>1, <1>5, <1>6, UpTo
  <2> QED
    BY <1>1, <2>1
<1> QED
  BY <1>3, <1>7 DEF S0

-----------------------------------------------------------------------------
\* where the robots and the ball of a scene are to be
Positions(scene) ==
    Apply(Config[scene.scenario].template, Config[scene.scenario].variance,
          Config[scene.scenario].strategy, scene.seed)

\* the scenes setup_scenario comes to send
Scenes ==
    {scene \in [scenario : DOMAIN Config, seed : DOMAIN Draw] :
        /\ ~ApplyRaises(Config[scene.scenario].template, Config[scene.scenario].variance,
                        Config[scene.scenario].strategy)
        /\ ~PacketRaises(Positions(scene))}

OfScene(scene) == [of |-> scene, control |-> Packet(Positions(scene))]

ByHand(preset) == [of |-> NoScene, control |-> ManualPacket(preset)]

Packets == {OfScene(scene) : scene \in Scenes} \cup {ByHand(preset) : preset \in Presets}

-----------------------------------------------------------------------------
(***************************************************************************)
(* The noise.                                                              *)
(***************************************************************************)
\* a draw is within its arguments
LEMMA UniformWithin ==
    ASSUME NEW args \in Int \X Int, NEW drawn \in 0 .. 2
    PROVE  Sample("uniform_random", args, drawn) \in Between(args[1], args[2])
<1>1. args[1] \in Int /\ args[2] \in Int
  OBVIOUS
<1>2. PICK a \in Int, b \in Int : a = args[1] /\ b = args[2]
  BY <1>1
<1>3. Sample("uniform_random", args, drawn) = a + ((b - a) * drawn) \div 2
  BY <1>2 DEF Sample
<1>4. CASE drawn = 0
  <2>1. ((b - a) * drawn) \div 2 = 0
    BY <1>4
  <2>2. Sample("uniform_random", args, drawn) = a
    BY <1>2, <1>3, <2>1
  <2>3. a \in Between(a, b)
    BY DEF Between
  <2> QED
    BY <1>2, <2>2, <2>3
<1>5. CASE drawn = 1
  <2>1. ((b - a) * drawn) \div 2 = (b - a) \div 2
    BY <1>5
  <2>2. a + (b - a) \div 2 \in Between(a, b)
    BY DEF Between
  <2> QED
    BY <1>2, <1>3, <2>1, <2>2
<1>6. CASE drawn = 2
  <2>1. ((b - a) * drawn) \div 2 = b - a
    BY <1>6
  <2>2. Sample("uniform_random", args, drawn) = b
    BY <1>2, <1>3, <2>1
  <2>3. b \in Between(a, b)
    BY DEF Between
  <2> QED
    BY <1>2, <2>2, <2>3
<1> QED
  BY <1>4, <1>5, <1>6

LEMMA GaussianWithin ==
    ASSUME NEW args \in Int, NEW drawn \in 0 .. 2
    PROVE  Sample("gaussian_random", args, drawn) \in Between(-(3 * args), 3 * args)
<1>1. Sample("gaussian_random", args, drawn) = 3 * args * (drawn - 1)
  BY DEF Sample
<1>2. 3 * args * (drawn - 1) \in {-(3 * args), 0, 3 * args}
  <2>1. drawn = 0 \/ drawn = 1 \/ drawn = 2
    OBVIOUS
  <2> QED
    BY <2>1
<1> QED
  BY <1>1, <1>2 DEF Between

Template(scene) == Config[scene.scenario].template
Noise(scene) == Config[scene.scenario].variance
Strategy(scene) == Config[scene.scenario].strategy

Added(scene, slot) ==
    NoiseAt(Template(scene), Noise(scene), Strategy(scene), scene.seed, slot)

\* what a scenario configures for a slot
Args(scene, slot) == SlotNoise(Template(scene), Noise(scene), slot)[slot[3]]

LEMMA Arguments ==
    ASSUME NEW name \in DOMAIN Config, NEW seed \in DOMAIN Draw,
           NEW slot \in NoisySlots(Config[name].template, Config[name].variance)
    PROVE  LET args == SlotNoise(Config[name].template, Config[name].variance, slot)[slot[3]]
           IN  /\ Config[name].strategy = "uniform_random" => args \in Int \X Int
               /\ Config[name].strategy = "gaussian_random" => args \in Int
               /\ DrawNumber(Config[name].template, Config[name].variance, slot)
                     \in DOMAIN Draw[seed]
<1> DEFINE args == SlotNoise(Config[name].template, Config[name].variance, slot)[slot[3]]
<1>1. Config[name].strategy = "uniform_random" => args \in Int \X Int
  BY FieldAssumption
<1>2. Config[name].strategy = "gaussian_random" => args \in Int
  BY FieldAssumption
<1>3. \A s \in DOMAIN Draw :
         DrawNumber(Config[name].template, Config[name].variance, slot) \in DOMAIN Draw[s]
  BY FieldAssumption
<1> QED
  BY <1>1, <1>2, <1>3

LEMMA AddedWithin ==
    ASSUME NEW scene \in Scenes, NEW slot
    PROVE  \/ /\ Added(scene, slot) = 0
              /\ \/ Strategy(scene) = "no_variance"
                 \/ slot \notin NoisySlots(Template(scene), Noise(scene))
           \/ /\ Strategy(scene) = "uniform_random" /\ Args(scene, slot) \in Int \X Int
              /\ Added(scene, slot) \in Between(Args(scene, slot)[1], Args(scene, slot)[2])
           \/ /\ Strategy(scene) = "gaussian_random" /\ Args(scene, slot) \in Int
              /\ Added(scene, slot) \in Between(-(3 * Args(scene, slot)), 3 * Args(scene, slot))
<1>1. /\ scene.scenario \in DOMAIN Config /\ scene.seed \in DOMAIN Draw
      /\ ~ApplyRaises(Template(scene), Noise(scene), Strategy(scene))
  BY DEF Scenes, Template, Noise, Strategy
<1>2. Strategy(scene) \in {"no_variance", "uniform_random", "gaussian_random"}
  BY <1>1 DEF ApplyRaises
<1> DEFINE noisy == slot \in NoisySlots(Template(scene), Noise(scene))
<1>3. CASE Strategy(scene) = "no_variance" \/ ~noisy
  BY <1>3 DEF Added, NoiseAt
<1>4. CASE Strategy(scene) # "no_variance" /\ noisy
  <2> DEFINE drawn == Draw[scene.seed][DrawNumber(Template(scene), Noise(scene), slot)]
  <2>1. Added(scene, slot) = Sample(Strategy(scene), Args(scene, slot), drawn)
    BY <1>4 DEF Added, NoiseAt, Args, Rng
  <2>2. /\ Strategy(scene) = "uniform_random" => Args(scene, slot) \in Int \X Int
        /\ Strategy(scene) = "gaussian_random" => Args(scene, slot) \in Int
        /\ DrawNumber(Template(scene), Noise(scene), slot) \in DOMAIN Draw[scene.seed]
    BY <1>1, <1>4, Arguments DEF Template, Noise, Strategy, Args
  <2>3. drawn \in 0 .. 2
    <3>1. Draw[scene.seed] \in Seq(0 .. 2)
      BY <1>1, FieldAssumption
    <3> QED
      BY <2>2, <3>1
  <2> HIDE DEF drawn
  <2>4. CASE Strategy(scene) = "uniform_random"
    BY <2>1, <2>2, <2>3, <2>4, UniformWithin
  <2>5. CASE Strategy(scene) = "gaussian_random"
    BY <2>1, <2>2, <2>3, <2>5, GaussianWithin
  <2> QED
    BY <1>2, <1>4, <2>4, <2>5
<1> QED
  BY <1>3, <1>4

LEMMA AddedType ==
    ASSUME NEW scene \in Scenes, NEW slot
    PROVE  Added(scene, slot) \in Int
<1>1. \A a, b \in Int : Between(a, b) \subseteq Int
  BY DEF Between
<1>2. CASE Args(scene, slot) \in Int \X Int
  BY <1>1, <1>2, AddedWithin
<1> QED
  BY <1>1, AddedWithin

-----------------------------------------------------------------------------
(***************************************************************************)
(* The positions of a scene.                                               *)
(***************************************************************************)
Blue(scene) == Get(Get(Template(scene), "robots", NoKeys), "blue", <<>>)
NoisyBlue(scene) == Get(Positions(scene).robots, "blue", <<>>)

LEMMA Templates ==
    ASSUME NEW name \in DOMAIN Config
    PROVE  LET robots == Get(Config[name].template, "robots", NoKeys)
           IN  /\ IsDict(Get(Config[name].template, "ball", NoKeys), {"x", "y"})
               /\ \A team \in DOMAIN robots : IsTeam(robots[team])
<1>1. IsDict(Get(Config[name].template, "ball", NoKeys), {"x", "y"})
  BY FieldAssumption
<1>2. \A team \in DOMAIN Get(Config[name].template, "robots", NoKeys) :
         IsTeam(Get(Config[name].template, "robots", NoKeys)[team])
  BY FieldAssumption
<1> QED
  BY <1>1, <1>2

\* the ball of a scene is its template's and what is added to it
LEMMA BallPlaced ==
    ASSUME NEW scene \in Scenes
    PROVE  LET ball == Get(Template(scene), "ball", NoKeys)
           IN  /\ IsDict(ball, {"x", "y"}) /\ IsDict(Positions(scene).ball, {"x", "y"})
               /\ DOMAIN Positions(scene).ball = DOMAIN ball
               /\ \A key \in DOMAIN ball :
                     Positions(scene).ball[key] = ball[key] + Added(scene, <<"ball", 0, key>>)
<1> DEFINE ball == Get(Template(scene), "ball", NoKeys)
<1>1. IsDict(ball, {"x", "y"})
  BY FieldAssumption DEF Scenes, Template
<1>2. \A key \in DOMAIN ball : key # "id"
  BY <1>1 DEF IsDict
<1>3. Positions(scene).ball = [key \in DOMAIN ball |-> IF key = "id" THEN ball[key]
                                 ELSE ball[key] + Added(scene, <<"ball", 0, key>>)]
  BY DEF Positions, Apply, Added, Template, Noise, Strategy
<1> HIDE DEF ball
<1>4. /\ DOMAIN Positions(scene).ball = DOMAIN ball
      /\ \A key \in DOMAIN ball :
            Positions(scene).ball[key] = ball[key] + Added(scene, <<"ball", 0, key>>)
  BY <1>2, <1>3
<1>5. IsDict(Positions(scene).ball, {"x", "y"})
  <2>1. DOMAIN Positions(scene).ball \subseteq {"x", "y"}
    BY <1>1, <1>4 DEF IsDict
  <2>2. ASSUME NEW key \in DOMAIN ball
        PROVE  Positions(scene).ball[key] \in Int
    <3>1. ball[key] \in Int /\ Added(scene, <<"ball", 0, key>>) \in Int
      BY <1>1, AddedType DEF IsDict
    <3> QED
      BY <1>4, <3>1
  <2> QED
    BY <1>4, <2>1, <2>2 DEF IsDict
<1> QED
  BY <1>1, <1>4, <1>5 DEF ball

\* so are its blue robots, one by one
LEMMA BluePlaced ==
    ASSUME NEW scene \in Scenes
    PROVE  /\ IsTeam(Blue(scene))
           /\ NoisyBlue(scene) \in Seq(ToSet(NoisyBlue(scene)))
           /\ Len(NoisyBlue(scene)) = Len(Blue(scene))
           /\ \A i \in 1 .. Len(Blue(scene)) :
                 LET robot == Blue(scene)[i]
                     noisy == NoisyBlue(scene)[i]
                 IN  /\ IsDict(robot, {"id", "x", "y", "theta"})
                     /\ DOMAIN noisy = DOMAIN robot
                     /\ "id" \in DOMAIN robot => noisy.id = robot.id
                     /\ \A key \in DOMAIN robot \ {"id"} :
                           noisy[key] = robot[key] + Added(scene, <<"blue", i, key>>)
<1> DEFINE robots == Get(Template(scene), "robots", NoKeys)
           blue == Blue(scene)
           noisyBlue == NoisyBlue(scene)
<1>1. \A team \in DOMAIN robots : IsTeam(robots[team])
  <2>1. scene.scenario \in DOMAIN Config
    BY DEF Scenes
  <2> QED
    BY <2>1, Templates DEF Template
<1>2. Positions(scene).robots =
         [team \in DOMAIN robots |-> [i \in DOMAIN robots[team] |->
             [key \in DOMAIN robots[team][i] |->
                IF key = "id" THEN robots[team][i][key]
                ELSE robots[team][i][key] + Added(scene, <<team, i, key>>)]]]
  BY DEF Positions, Apply, Added, Template, Noise, Strategy
<1>3. blue = Get(robots, "blue", <<>>)
  BY DEF Blue
<1> HIDE DEF robots, blue, noisyBlue
<1>4. IsTeam(blue)
  <2>1. CASE "blue" \in DOMAIN robots
    BY <1>1, <1>3, <2>1 DEF Get
  <2>2. CASE "blue" \notin DOMAIN robots
    BY <1>3, <2>2 DEF Get, IsTeam, ToSet
  <2> QED
    BY <2>1, <2>2
<1>5. /\ DOMAIN blue = 1 .. Len(blue) /\ Len(blue) \in Nat
      /\ \A i \in 1 .. Len(blue) : IsDict(blue[i], {"id", "x", "y", "theta"})
  <2>1. blue \in Seq(ToSet(blue))
    BY <1>4 DEF IsTeam
  <2>2. DOMAIN blue = 1 .. Len(blue) /\ Len(blue) \in Nat
    BY <2>1
  <2>3. \A i \in 1 .. Len(blue) : blue[i] \in ToSet(blue)
    BY <2>2 DEF ToSet
  <2> QED
    BY <1>4, <2>2, <2>3 DEF IsTeam
<1>6. noisyBlue = [i \in 1 .. Len(blue) |->
                     [key \in DOMAIN blue[i] |->
                        IF key = "id" THEN blue[i][key]
                        ELSE blue[i][key] + Added(scene, <<"blue", i, key>>)]]
  <2>1. CASE "blue" \in DOMAIN robots
    <3>1. blue = robots["blue"]
      BY <1>3, <2>1 DEF Get
    <3>2. noisyBlue = Positions(scene).robots["blue"]
      BY <1>2, <2>1 DEF NoisyBlue, Get, noisyBlue
    <3> QED
      BY <1>2, <1>5, <2>1, <3>1, <3>2
  <2>2. CASE "blue" \notin DOMAIN robots
    <3>1. blue = <<>> /\ noisyBlue = <<>>
      BY <1>2, <1>3, <2>2 DEF NoisyBlue, Get, noisyBlue
    <3> QED
      BY <1>5, <3>1
  <2> QED
    BY <2>1, <2>2
<1>7. noisyBlue \in Seq(ToSet(noisyBlue)) /\ Len(noisyBlue) = Len(blue)
  <2>1. DOMAIN noisyBlue = 1 .. Len(blue)
    BY <1>6
  <2>2. noisyBlue = [i \in 1 .. Len(blue) |-> noisyBlue[i]]
    BY <1>6
  <2>3. \A i \in 1 .. Len(blue) : noisyBlue[i] \in ToSet(noisyBlue)
    BY <2>1 DEF ToSet
  <2> QED
    BY <1>5, <2>2, <2>3
<1>8. \A i \in 1 .. Len(blue) :
         noisyBlue[i] = [key \in DOMAIN blue[i] |->
                            IF key = "id" THEN blue[i][key]
                            ELSE blue[i][key] + Added(scene, <<"blue", i, key>>)]
  BY <1>6
<1>9. ASSUME NEW i \in 1 .. Len(blue)
      PROVE  /\ DOMAIN noisyBlue[i] = DOMAIN blue[i]
             /\ "id" \in DOMAIN blue[i] => noisyBlue[i].id = blue[i].id
             /\ \A key \in DOMAIN blue[i] \ {"id"} :
                   noisyBlue[i][key] = blue[i][key] + Added(scene, <<"blue", i, key>>)
  BY <1>8
<1> QED
  BY <1>4, <1>5, <1>7, <1>9 DEF blue, noisyBlue

-----------------------------------------------------------------------------
(***************************************************************************)
(* The packets.                                                            *)
(***************************************************************************)
LEMMA GetInt ==
    ASSUME NEW keys, NEW dict, IsDict(dict, keys), NEW key
    PROVE  Get(dict, key, 0) \in Int
BY DEF IsDict, Get

LEMMA PlacedType ==
    ASSUME NEW robot, IsDict(robot, {"id", "x", "y", "theta"}), robot.id \in Nat
    PROVE  Placed(robot) \in TeleportRobot
<1>1. Get(robot, "x", 0) \in Int /\ Get(robot, "y", 0) \in Int /\ Get(robot, "theta", 0) \in Int
  BY GetInt
<1> QED
  BY <1>1 DEF Placed, TeleportRobot, RobotId, Team

\* three lists, one behind the other
LEMMA Behind ==
    ASSUME NEW S, NEW a \in Seq(S), NEW b \in Seq(S), NEW c \in Seq(S)
    PROVE  /\ a \o b \o c \in Seq(S)
           /\ Len(a \o b \o c) = Len(a) + Len(b) + Len(c)
           /\ \A i \in 1 .. Len(a) : (a \o b \o c)[i] = a[i]
           /\ \A i \in 1 .. Len(b) : (a \o b \o c)[Len(a) + i] = b[i]
           /\ \A i \in 1 .. Len(c) : (a \o b \o c)[Len(a) + Len(b) + i] = c[i]
<1> DEFINE ab == a \o b
<1>1. /\ ab \in Seq(S) /\ Len(ab) = Len(a) + Len(b)
      /\ \A i \in 1 .. Len(a) + Len(b) : ab[i] = IF i <= Len(a) THEN a[i] ELSE b[i - Len(a)]
      /\ Len(a) \in Nat /\ Len(b) \in Nat /\ Len(c) \in Nat
  BY ConcatProperties
<1> HIDE DEF ab
<1>2. /\ ab \o c \in Seq(S) /\ Len(ab \o c) = Len(ab) + Len(c)
      /\ \A i \in 1 .. Len(ab) + Len(c) :
            (ab \o c)[i] = IF i <= Len(ab) THEN ab[i] ELSE c[i - Len(ab)]
  <2>1. ab \in Seq(S)
    BY <1>1
  <2> QED
    BY <2>1, ConcatProperties
<1> DEFINE abc == ab \o c
<1>3. abc = a \o b \o c
  BY DEF ab
<1> HIDE DEF abc
<1>4. ASSUME NEW i \in 1 .. Len(a)
      PROVE  abc[i] = a[i]
  BY <1>1, <1>2 DEF abc
<1>5. ASSUME NEW i \in 1 .. Len(b)
      PROVE  abc[Len(a) + i] = b[i]
  <2>1. Len(a) + i \in 1 .. Len(ab) /\ ~(Len(a) + i <= Len(a)) /\ Len(a) + i - Len(a) = i
    BY <1>1
  <2> QED
    BY <1>1, <1>2, <2>1 DEF abc
<1>6. ASSUME NEW i \in 1 .. Len(c)
      PROVE  abc[Len(a) + Len(b) + i] = c[i]
  <2> DEFINE n == Len(a) + Len(b) + i
  <2>1. n \in 1 .. Len(ab) + Len(c) /\ ~(n <= Len(ab)) /\ n - Len(ab) = i
    BY <1>1
  <2> HIDE DEF n
  <2>2. abc[n] = c[i]
    BY <1>2, <2>1 DEF abc
  <2> QED
    BY <2>2 DEF n
<1>7. abc \in Seq(S) /\ Len(abc) = Len(a) + Len(b) + Len(c)
  BY <1>1, <1>2 DEF abc
<1> QED
  BY <1>3, <1>4, <1>5, <1>6, <1>7

\* the robots that are sent are the list's that have an id, as they are
LEMMA Sent ==
    ASSUME NEW scene \in Scenes
    PROVE  LET sent == BlueOf(Positions(scene))
           IN  /\ Leaves(sent, NoisyBlue(scene), Len(Blue(scene)))
               /\ sent \in Seq(ToSet(sent))
               /\ \A k \in 1 .. Len(sent) :
                     IsDict(sent[k], {"id", "x", "y", "theta"}) /\ sent[k].id \in Nat
<1> DEFINE sent == BlueOf(Positions(scene))
           noisy == NoisyBlue(scene)
<1>1. /\ noisy \in Seq(ToSet(noisy)) /\ Len(noisy) = Len(Blue(scene))
      /\ \A i \in 1 .. Len(noisy) : IsDict(noisy[i], {"id", "x", "y", "theta"})
  <2>1. noisy \in Seq(ToSet(noisy)) /\ Len(noisy) = Len(Blue(scene))
    BY BluePlaced
  <2>2. ASSUME NEW i \in 1 .. Len(Blue(scene))
        PROVE  IsDict(noisy[i], {"id", "x", "y", "theta"})
    <3> DEFINE robot == Blue(scene)[i]
    <3>1. /\ IsDict(robot, {"id", "x", "y", "theta"}) /\ DOMAIN noisy[i] = DOMAIN robot
          /\ "id" \in DOMAIN robot => noisy[i].id = robot.id
          /\ \A key \in DOMAIN robot \ {"id"} :
                noisy[i][key] = robot[key] + Added(scene, <<"blue", i, key>>)
      BY BluePlaced
    <3> HIDE DEF robot, noisy
    <3>2. ASSUME NEW key \in DOMAIN robot
          PROVE  noisy[i][key] \in Int
      <4>1. robot[key] \in Int /\ Added(scene, <<"blue", i, key>>) \in Int
        BY <3>1, AddedType DEF IsDict
      <4>2. CASE key = "id"
        BY <3>1, <4>1, <4>2
      <4>3. CASE key # "id"
        BY <3>1, <4>1, <4>3
      <4> QED
        BY <4>2, <4>3
    <3> QED
      BY <3>1, <3>2 DEF IsDict
  <2> QED
    BY <2>1, <2>2
<1> HIDE DEF noisy
<1>2. Leaves(sent, noisy, Len(noisy))
  <2>1. sent = Accepted(noisy)
    BY DEF BlueOf, NoisyBlue, noisy
  <2> HIDE DEF sent
  <2> QED
    BY <1>1, <2>1, AcceptedLeaves
<1>3. ~PacketRaises(Positions(scene))
  BY DEF Scenes
<1>4. /\ Len(sent) \in Nat /\ sent \in Seq(ToSet(sent))
      /\ \A k \in 1 .. Len(sent) : sent[k] \in ToSet(sent)
  <2>1. sent \in Seq(ToSet(noisy))
    BY <1>2 DEF Leaves
  <2> HIDE DEF sent
  <2>2. DOMAIN sent = 1 .. Len(sent) /\ Len(sent) \in Nat /\ sent = [k \in 1 .. Len(sent) |-> sent[k]]
    BY <2>1
  <2>3. \A k \in 1 .. Len(sent) : sent[k] \in ToSet(sent)
    BY <2>2 DEF ToSet
  <2> QED
    BY <2>2, <2>3
<1>5. ASSUME NEW k \in 1 .. Len(sent)
      PROVE  IsDict(sent[k], {"id", "x", "y", "theta"}) /\ sent[k].id \in Nat
  <2>1. PICK i \in 1 .. Len(noisy) : WellFormed(noisy[i]) /\ sent[k] = noisy[i]
    BY <1>2 DEF Leaves
  <2>2. ~(sent[k].id < 0)
    BY <1>3, <1>4 DEF PacketRaises
  <2> HIDE DEF sent
  <2>3. IsDict(sent[k], {"id", "x", "y", "theta"}) /\ "id" \in DOMAIN sent[k]
    BY <1>1, <2>1 DEF WellFormed
  <2>4. sent[k].id \in Int
    BY <2>3 DEF IsDict
  <2> QED
    BY <2>2, <2>3, <2>4
<1> QED
  BY <1>1, <1>2, <1>4, <1>5 DEF noisy

-----------------------------------------------------------------------------
\* the packet: the template's robots, then who is to be gone
LEMMA Entries ==
    ASSUME NEW scene \in Scenes
    PROVE  LET sent == BlueOf(Positions(scene))
               entries == Packet(Positions(scene)).teleport_robot
           IN  /\ entries \in Seq(TeleportRobot) /\ Len(entries) = Len(sent) + 20
               /\ \A k \in 1 .. Len(sent) : entries[k] = Placed(sent[k])
               /\ \A i \in 1 .. 9 : entries[Len(sent) + i] = Gone("blue", i + 1)
               /\ \A i \in 1 .. 11 : entries[Len(sent) + 9 + i] = Gone("yellow", i - 1)
<1> DEFINE sent == BlueOf(Positions(scene))
           placed == [i \in DOMAIN sent |-> Placed(sent[i])]
<1>1. /\ sent \in Seq(ToSet(sent)) /\ Len(sent) \in Nat /\ DOMAIN sent = 1 .. Len(sent)
      /\ \A k \in 1 .. Len(sent) : Placed(sent[k]) \in TeleportRobot
  <2>1. sent \in Seq(ToSet(sent))
    BY Sent
  <2>2. \A k \in 1 .. Len(sent) : Placed(sent[k]) \in TeleportRobot
    BY Sent, PlacedType
  <2> HIDE DEF sent
  <2> QED
    BY <2>1, <2>2
<1>2. Packet(Positions(scene)).teleport_robot = placed \o BlueGone \o YellowGone
  BY DEF Packet
<1> HIDE DEF sent
<1>3. /\ placed \in Seq(TeleportRobot) /\ Len(placed) = Len(sent)
      /\ \A k \in 1 .. Len(sent) : placed[k] = Placed(sent[k])
  <2>1. placed = [k \in 1 .. Len(sent) |-> Placed(sent[k])]
    BY <1>1
  <2> HIDE DEF placed
  <2> QED
    BY <1>1, <2>1
<1> HIDE DEF placed
<1>4. \A team \in Team, id \in Nat : Gone(team, id) \in TeleportRobot
  BY DEF Gone, TeleportRobot, RobotId
<1>5. /\ BlueGone \in Seq(TeleportRobot) /\ Len(BlueGone) = 9
      /\ \A i \in 1 .. 9 : BlueGone[i] = Gone("blue", i + 1)
  <2>1. \A i \in 1 .. 9 : Gone("blue", i + 1) \in TeleportRobot
    BY <1>4 DEF Team
  <2> QED
    BY <2>1 DEF BlueGone
<1>6. /\ YellowGone \in Seq(TeleportRobot) /\ Len(YellowGone) = 11
      /\ \A i \in 1 .. 11 : YellowGone[i] = Gone("yellow", i - 1)
  <2>1. \A i \in 1 .. 11 : Gone("yellow", i - 1) \in TeleportRobot
    BY <1>4 DEF Team
  <2> QED
    BY <2>1 DEF YellowGone
<1> DEFINE entries == placed \o BlueGone \o YellowGone
<1>7. /\ entries \in Seq(TeleportRobot) /\ Len(entries) = Len(sent) + 9 + 11
      /\ \A k \in 1 .. Len(sent) : entries[k] = placed[k]
      /\ \A i \in 1 .. 9 : entries[Len(sent) + i] = BlueGone[i]
      /\ \A i \in 1 .. 11 : entries[Len(sent) + 9 + i] = YellowGone[i]
  <2> HIDE DEF entries
  <2>1. /\ entries \in Seq(TeleportRobot)
        /\ Len(entries) = Len(placed) + Len(BlueGone) + Len(YellowGone)
        /\ \A k \in 1 .. Len(placed) : entries[k] = placed[k]
        /\ \A i \in 1 .. Len(BlueGone) : entries[Len(placed) + i] = BlueGone[i]
        /\ \A i \in 1 .. Len(YellowGone) :
              entries[Len(placed) + Len(BlueGone) + i] = YellowGone[i]
    <3>1. /\ placed \in Seq(TeleportRobot) /\ BlueGone \in Seq(TeleportRobot)
          /\ YellowGone \in Seq(TeleportRobot)
      BY <1>3, <1>5, <1>6
    <3> QED
      BY <3>1, Behind DEF entries
  <2>2. Len(placed) = Len(sent) /\ Len(BlueGone) = 9 /\ Len(YellowGone) = 11
    BY <1>3, <1>5, <1>6
  <2> QED
    BY <2>1, <2>2
<1> HIDE DEF entries
<1>8. /\ entries \in Seq(TeleportRobot) /\ Len(entries) = Len(sent) + 20
      /\ \A k \in 1 .. Len(sent) : entries[k] = Placed(sent[k])
      /\ \A i \in 1 .. 9 : entries[Len(sent) + i] = Gone("blue", i + 1)
      /\ \A i \in 1 .. 11 : entries[Len(sent) + 9 + i] = Gone("yellow", i - 1)
  <2>1. Len(entries) = Len(sent) + 20
    BY <1>1, <1>7
  <2>2. \A k \in 1 .. Len(sent) : entries[k] = Placed(sent[k])
    BY <1>3, <1>7
  <2>3. \A i \in 1 .. 9 : entries[Len(sent) + i] = Gone("blue", i + 1)
    BY <1>5, <1>7
  <2>4. \A i \in 1 .. 11 : entries[Len(sent) + 9 + i] = Gone("yellow", i - 1)
    BY <1>6, <1>7
  <2> QED
    BY <1>7, <2>1, <2>2, <2>3, <2>4
<1> QED
  BY <1>2, <1>8 DEF sent, entries

\* a packet is one the protocol has a form for
LEMMA PacketType ==
    ASSUME NEW scene \in Scenes
    PROVE  Packet(Positions(scene)) \in SimulatorControl
<1> DEFINE ball == Positions(scene).ball
<1>1. Packet(Positions(scene)).teleport_robot \in Seq(TeleportRobot)
  BY Entries
<1>2. IsDict(ball, {"x", "y"})
  BY BallPlaced
<1>3. Get(ball, "x", 0) \in Int /\ Get(ball, "y", 0) \in Int
  BY <1>2, GetInt
<1>4. Packet(Positions(scene)) =
         [teleport_ball |-> [x |-> Get(ball, "x", 0), y |-> Get(ball, "y", 0)],
          teleport_robot |-> Packet(Positions(scene)).teleport_robot]
  BY DEF Packet
<1> QED
  BY <1>1, <1>3, <1>4 DEF SimulatorControl, TeleportBall

LEMMA ManualType ==
    ASSUME NEW preset \in Presets
    PROVE  ManualPacket(preset) \in SimulatorControl
<1>1. /\ preset.ball \in TeleportBall /\ IsTeam(preset.yellow) /\ IsTeam(preset.blue)
  <2>1. preset.ball \in TeleportBall /\ \A team \in Team : IsTeam(preset[team])
    BY FieldAssumption
  <2> QED
    BY <2>1 DEF Team
<1>2. ASSUME NEW team \in Team, NEW poses, IsTeam(poses), NEW id \in 0 .. 10
      PROVE  ManualRobot(team, poses, id) \in TeleportRobot
  <2> DEFINE k == LastWith(poses, id)
             gone == Gone(team, id)
  <2>1. gone \in TeleportRobot
    BY DEF Gone, TeleportRobot, RobotId
  <2>2. CASE id > 5
    BY <2>1, <2>2 DEF ManualRobot
  <2>3. CASE id <= 5 /\ k = 0
    <3>1. ManualRobot(team, poses, id) =
             [gone EXCEPT !.present = TRUE, !.x = IF team = "blue" THEN -1000 ELSE 1000,
                          !.y = 100 * id]
      BY <2>3 DEF ManualRobot
    <3>2. 100 * id \in Int /\ (IF team = "blue" THEN -1000 ELSE 1000) \in Int
      OBVIOUS
    <3> DEFINE x == IF team = "blue" THEN -1000 ELSE 1000
               y == 100 * id
    <3>3. ManualRobot(team, poses, id) = [gone EXCEPT !.present = TRUE, !.x = x, !.y = y]
      BY <3>1
    <3> HIDE DEF gone, x, y
    <3>4. x \in Int /\ y \in Int
      BY <3>2 DEF x, y
    <3>5. [gone EXCEPT !.present = TRUE, !.x = x, !.y = y] \in TeleportRobot
      BY <2>1, <3>4 DEF TeleportRobot
    <3> QED
      BY <3>3, <3>5
  <2>4. CASE id <= 5 /\ k # 0
    <3>1. poses \in Seq(ToSet(poses))
      BY <1>2 DEF IsTeam
    <3>2. k \in 1 .. Len(poses) /\ poses[k].id = id
      BY <2>4, <3>1, LastWithId
    <3> HIDE DEF k
    <3>3. poses[k] \in ToSet(poses)
      BY <3>1, <3>2 DEF ToSet
    <3>4. Placed(poses[k]) \in TeleportRobot
      BY <1>2, <3>2, <3>3, PlacedType DEF IsTeam
    <3>5. ManualRobot(team, poses, id) = [Placed(poses[k]) EXCEPT !.id.team = team]
      BY <2>4 DEF ManualRobot, k
    <3> QED
      BY <3>4, <3>5 DEF TeleportRobot, RobotId
  <2> QED
    BY <2>2, <2>3, <2>4
<1>3. ManualPacket(preset).teleport_robot \in Seq(TeleportRobot)
  <2>1. ASSUME NEW i \in 1 .. 22
        PROVE  (IF i <= 11 THEN ManualRobot("yellow", preset.yellow, i - 1)
                ELSE ManualRobot("blue", preset.blue, i - 12)) \in TeleportRobot
    <3>1. CASE i <= 11
      <4>1. i - 1 \in 0 .. 10 /\ "yellow" \in Team
        BY <3>1 DEF Team
      <4> QED
        BY <1>1, <1>2, <3>1, <4>1
    <3>2. CASE ~(i <= 11)
      <4>1. i - 12 \in 0 .. 10 /\ "blue" \in Team
        BY <3>2 DEF Team
      <4> QED
        BY <1>1, <1>2, <3>2, <4>1
    <3> QED
      BY <3>1, <3>2
  <2> QED
    BY <2>1 DEF ManualPacket
<1>4. ManualPacket(preset) = [teleport_ball |-> preset.ball,
                              teleport_robot |-> ManualPacket(preset).teleport_robot]
  BY DEF ManualPacket
<1> QED
  BY <1>1, <1>3, <1>4 DEF SimulatorControl

-----------------------------------------------------------------------------
\* the batch has its own scenario, and its template as it was read
Own ==
    /\ scenario # "none" =>
          scenario \in DOMAIN Config /\ template = Config[scenario].template
                                     /\ base \in BaseSeeds
    /\ index \in 0 .. BatchSize

\* whose field it is
Showing ==
    /\ DOMAIN field.robots = Robots
    /\ shown # NoScene =>
          shown \in Scenes /\ \E before : field = Shown(Packet(Positions(shown)), before)

FieldInv ==
    /\ Own
    /\ socket \in BOOLEAN
    /\ air \in Seq(Packets)
    /\ kept \in Packets \cup {[of |-> NoScene]}
    /\ Showing

LEMMA InitInv == Init => FieldInv
<1> SUFFICES ASSUME Init
             PROVE  FieldInv
  OBVIOUS
<1>1. 0 \in 0 .. BatchSize
  BY FieldAssumption
<1>2. Own
  BY <1>1 DEF Init, Own
<1>3. Showing
  BY DEF Init, Showing
<1> QED
  BY <1>2, <1>3 DEF Init, FieldInv

\* a scene set up is one that can be sent
LEMMA SetUp ==
    ASSUME FieldInv, Setup
    PROVE  LET scene == [scenario |-> scenario, seed |-> Seed]
           IN  /\ scene \in Scenes
               /\ air' \in {air, Append(air, OfScene(scene))}
               /\ kept' \in {kept, OfScene(scene)}
<1> DEFINE scene == [scenario |-> scenario, seed |-> Seed]
<1>1. /\ scenario \in DOMAIN Config /\ template = Config[scenario].template
      /\ base \in BaseSeeds /\ index \in 0 .. BatchSize - 1
  BY FieldAssumption DEF FieldInv, Own, Setup, More
<1>2. Seed \in DOMAIN Draw
  BY <1>1, FieldAssumption DEF Seed
<1>3. Noisy = Positions(scene)
  BY <1>1 DEF Noisy, Positions
<1>4. /\ ~ApplyRaises(template, Config[scenario].variance, Config[scenario].strategy)
      /\ ~PacketRaises(Noisy)
      /\ Send([of |-> scene, control |-> Packet(Noisy)])
      /\ kept' \in IF kept.of = NoScene /\ socket
                   THEN {kept, [of |-> scene, control |-> Packet(Noisy)]} ELSE {kept}
  BY DEF Setup
<1>5. scene \in Scenes
  BY <1>1, <1>2, <1>3, <1>4 DEF Scenes
<1>6. OfScene(scene) = [of |-> scene, control |-> Packet(Noisy)]
  BY <1>3 DEF OfScene
<1> HIDE DEF scene
<1>7. air' \in {air, Append(air, OfScene(scene))} /\ kept' \in {kept, OfScene(scene)}
  BY <1>4, <1>6 DEF Send
<1> QED
  BY <1>5, <1>7 DEF scene

LEMMA StepInv == FieldInv /\ [Next]_vars => FieldInv'
<1> SUFFICES ASSUME FieldInv, [Next]_vars
             PROVE  FieldInv'
  OBVIOUS
<1> DEFINE One == Packets \cup {[of |-> NoScene]}
<1>1. ASSUME UNCHANGED batch, UNCHANGED socket
      PROVE  Own' /\ socket' \in BOOLEAN
  BY <1>1 DEF FieldInv, Own, batch
<1>2. ASSUME UNCHANGED <<field, shown>>
      PROVE  Showing'
  BY <1>2 DEF FieldInv, Showing
<1>3. CASE BuildContext
  <2>1. Own'
    BY <1>3, FieldAssumption DEF BuildContext, Own
  <2> QED
    BY <1>2, <1>3, <2>1 DEF BuildContext, FieldInv
<1>4. CASE Setup
  <2> DEFINE scene == [scenario |-> scenario, seed |-> Seed]
  <2>1. /\ scene \in Scenes /\ air' \in {air, Append(air, OfScene(scene))}
        /\ kept' \in {kept, OfScene(scene)}
    BY <1>4, SetUp
  <2> HIDE DEF scene
  <2>2. OfScene(scene) \in Packets
    BY <2>1 DEF Packets
  <2>3. air' \in Seq(Packets) /\ kept' \in One
    BY <2>1, <2>2, AppendProperties DEF FieldInv
  <2>4. Own'
    BY <1>4, FieldAssumption DEF Setup, FieldInv, Own, More
  <2> QED
    BY <1>2, <1>4, <2>3, <2>4 DEF Setup, FieldInv
<1>5. CASE SetupRaises
  <2>1. Own'
    BY <1>5, FieldAssumption DEF SetupRaises, FieldInv, Own, More
  <2> QED
    BY <1>2, <1>5, <2>1 DEF SetupRaises, FieldInv
<1>6. CASE BatchDone
  <2>1. Own'
    BY <1>6, FieldAssumption DEF BatchDone, Own
  <2> QED
    BY <1>2, <1>6, <2>1 DEF BatchDone, FieldInv
<1>7. CASE Close
  BY <1>2, <1>7 DEF Close, FieldInv, Own, batch
<1>8. CASE SendByHand
  <2>1. PICK preset \in Presets : air' = Append(air, ByHand(preset))
    BY <1>8 DEF SendByHand, ByHand
  <2>2. air' \in Seq(Packets)
    <3>1. ByHand(preset) \in Packets
      BY DEF Packets
    <3> QED
      BY <2>1, <3>1, AppendProperties DEF FieldInv
  <2> QED
    BY <1>1, <1>2, <1>8, <2>2 DEF SendByHand, FieldInv
<1>9. CASE Arrive
  <2>1. /\ Head(air) \in Packets /\ Tail(air) \in Seq(Packets)
    BY <1>9, HeadTailProperties DEF Arrive, FieldInv
  <2>2. Showing'
    <3>1. field' = Shown(Head(air).control, field) /\ shown' = Head(air).of
      BY <1>9 DEF Arrive
    <3>2. DOMAIN field'.robots = Robots
      BY <3>1 DEF Shown
    <3>3. CASE \E scene \in Scenes : Head(air) = OfScene(scene)
      <4>1. PICK scene \in Scenes : Head(air) = OfScene(scene)
        BY <3>3
      <4>2. shown' = scene /\ field' = Shown(Packet(Positions(shown')), field)
        BY <3>1, <4>1 DEF OfScene
      <4> QED
        BY <3>2, <4>2 DEF Showing
    <3>4. CASE \E preset \in Presets : Head(air) = ByHand(preset)
      BY <3>1, <3>2, <3>4 DEF ByHand, Showing
    <3> QED
      BY <2>1, <3>3, <3>4 DEF Packets
  <2> QED
    BY <1>1, <1>9, <2>1, <2>2 DEF Arrive, FieldInv
<1>10. CASE Lost
  <2>1. Tail(air) \in Seq(Packets)
    BY <1>10, HeadTailProperties DEF Lost, FieldInv
  <2> QED
    BY <1>1, <1>2, <1>10, <2>1 DEF Lost, FieldInv
<1>11. CASE Play
  <2>1. Showing'
    BY <1>11 DEF Play, Showing
  <2> QED
    BY <1>1, <1>11, <2>1 DEF Play, FieldInv
<1>12. CASE UNCHANGED vars
  BY <1>1, <1>2, <1>12 DEF vars, FieldInv
<1> QED
  BY <1>3, <1>4, <1>5, <1>6, <1>7, <1>8, <1>9, <1>10, <1>11, <1>12 DEF Next

\* FieldInv holds of every state of the field
LEMMA AlwaysInv == Spec => []FieldInv
BY InitInv, StepInv, PTL DEF Spec

(***************************************************************************)
(* Two episodes of a scenario with the same seed are sent the same packet, *)
(* whatever the runs before them were (runner.py:197-198): a packet is a   *)
(* function of the scenario and the seed it is of.                         *)
(***************************************************************************)
THEOREM SeedReplays == Spec => []SameSeedSameScene
<1>1. FieldInv => SameSeedSameScene
  <2> SUFFICES ASSUME FieldInv, kept.of # NoScene, NEW i \in DOMAIN air, air[i].of = kept.of
               PROVE  air[i] = kept
    BY DEF SameSeedSameScene
  <2>1. air[i] \in Packets /\ kept \in Packets
    BY ElementOfSeq DEF FieldInv
  <2>2. \A packet \in Packets : packet.of # NoScene => packet = OfScene(packet.of)
    BY DEF Packets, OfScene, ByHand
  <2> QED
    BY <2>1, <2>2
<1> QED
  BY <1>1, AlwaysInv, PTL

(***************************************************************************)
(* What the manager sends, and a teleport by hand, is a packet the         *)
(* protocol has a form for, whatever the template leaves out (manager.py:  *)
(* 50-90); a batch sets up no more episodes than it has, from a template   *)
(* and a base seed of its own.                                             *)
(***************************************************************************)
THEOREM FieldTypeCorrect == Spec => []TypeOK
<1>1. FieldInv => TypeOK
  <2> SUFFICES ASSUME FieldInv
               PROVE  TypeOK
    OBVIOUS
  <2>1. ASSUME NEW i \in DOMAIN air
        PROVE  air[i].control \in SimulatorControl
    <3>1. air[i] \in Packets
      BY ElementOfSeq DEF FieldInv
    <3>2. \A scene \in Scenes : OfScene(scene).control \in SimulatorControl
      BY PacketType DEF OfScene
    <3>3. \A preset \in Presets : ByHand(preset).control \in SimulatorControl
      BY ManualType DEF ByHand
    <3> QED
      BY <3>1, <3>2, <3>3 DEF Packets
  <2> QED
    BY <2>1 DEF FieldInv, Own, Showing, TypeOK
<1> QED
  BY <1>1, AlwaysInv, PTL

-----------------------------------------------------------------------------
(***************************************************************************)
(* Who is on the field.                                                    *)
(***************************************************************************)
Robot(team, id) == [team |-> team, id |-> id]

\* whom every packet sends away
Away == {Robot("blue", id) : id \in 2 .. 10} \cup {Robot("yellow", id) : id \in 0 .. 10}

LEMMA SomeRobots ==
    /\ \A robot \in Robots : robot \in Away \/ robot \in {Robot("blue", 0), Robot("blue", 1)}
    /\ Away \subseteq Robots /\ {Robot("blue", 0), Robot("blue", 1)} \subseteq Robots
    /\ \A robot \in Away : robot \notin {Robot("blue", 0), Robot("blue", 1)}
<1>1. ASSUME NEW robot \in Robots
      PROVE  robot \in Away \/ robot \in {Robot("blue", 0), Robot("blue", 1)}
  <2>1. PICK team \in Team, id \in 0 .. 10 : robot = Robot(team, id)
    BY DEF Robots, Robot
  <2>2. CASE team = "yellow"
    BY <2>1, <2>2 DEF Away
  <2>3. CASE team = "blue"
    BY <2>1, <2>3 DEF Away
  <2> QED
    BY <2>2, <2>3 DEF Team
<1>2. Away \subseteq Robots /\ {Robot("blue", 0), Robot("blue", 1)} \subseteq Robots
  BY DEF Away, Robot, Robots, Team
<1>3. \A robot \in Away : robot \notin {Robot("blue", 0), Robot("blue", 1)}
  BY DEF Away, Robot
<1> QED
  BY <1>1, <1>2, <1>3

\* an entry places one of the list or sends one away
LEMMA EntryKinds ==
    ASSUME NEW scene \in Scenes
    PROVE  LET sent == BlueOf(Positions(scene))
               entries == Packet(Positions(scene)).teleport_robot
           IN  /\ \A k \in 1 .. Len(entries) :
                     \/ /\ k \in 1 .. Len(sent) /\ entries[k] = Placed(sent[k])
                        /\ entries[k].present /\ entries[k].id = Robot("blue", sent[k].id)
                     \/ k > Len(sent) /\ ~entries[k].present /\ entries[k].id \in Away
               /\ \A robot \in Away : \E k \in 1 .. Len(entries) : entries[k].id = robot
               /\ \A k \in 1 .. Len(sent) : k \in 1 .. Len(entries)
<1> DEFINE sent == BlueOf(Positions(scene))
           entries == Packet(Positions(scene)).teleport_robot
<1>1. /\ Len(entries) = Len(sent) + 20 /\ Len(sent) \in Nat
      /\ \A k \in 1 .. Len(sent) : entries[k] = Placed(sent[k])
      /\ \A i \in 1 .. 9 : entries[Len(sent) + i] = Gone("blue", i + 1)
      /\ \A i \in 1 .. 11 : entries[Len(sent) + 9 + i] = Gone("yellow", i - 1)
  <2>1. sent \in Seq(ToSet(sent))
    BY Sent
  <2>2. Len(sent) \in Nat
    BY <2>1
  <2> QED
    BY <2>2, Entries
<1> HIDE DEF sent, entries
<1>2. Len(entries) = Len(sent) + 20 /\ Len(sent) \in Nat
  BY <1>1
<1>3. /\ \A i \in 1 .. 9 : entries[Len(sent) + i] = Gone("blue", i + 1)
      /\ \A i \in 1 .. 11 : entries[Len(sent) + 9 + i] = Gone("yellow", i - 1)
  BY <1>1
<1>4. \A team, id : ~Gone(team, id).present /\ Gone(team, id).id = Robot(team, id)
  BY DEF Gone, Robot
<1>5. \A robot : Placed(robot).present /\ Placed(robot).id = Robot("blue", robot.id)
  BY DEF Placed, Robot
<1>6. ASSUME NEW k \in 1 .. Len(entries)
      PROVE  \/ /\ k \in 1 .. Len(sent) /\ entries[k] = Placed(sent[k])
                /\ entries[k].present /\ entries[k].id = Robot("blue", sent[k].id)
             \/ k > Len(sent) /\ ~entries[k].present /\ entries[k].id \in Away
  <2>1. CASE k \in 1 .. Len(sent)
    BY <1>1, <1>5, <2>1
  <2>2. CASE k > Len(sent) /\ k <= Len(sent) + 9
    <3>1. PICK i \in 1 .. 9 : k = Len(sent) + i
      <4>1. k - Len(sent) \in 1 .. 9 /\ k = Len(sent) + (k - Len(sent))
        BY <1>2, <2>2
      <4> QED
        BY <4>1
    <3>2. entries[k] = Gone("blue", i + 1)
      BY <1>3, <3>1
    <3>3. i + 1 \in 2 .. 10
      OBVIOUS
    <3> QED
      BY <1>4, <2>2, <3>2, <3>3 DEF Away
  <2>3. CASE k > Len(sent) + 9
    <3>1. PICK i \in 1 .. 11 : k = Len(sent) + 9 + i
      <4>1. k - Len(sent) - 9 \in 1 .. 11 /\ k = Len(sent) + 9 + (k - Len(sent) - 9)
        BY <1>2, <2>3
      <4> QED
        BY <4>1
    <3>2. entries[k] = Gone("yellow", i - 1)
      BY <1>3, <3>1
    <3>3. k > Len(sent) /\ i - 1 \in 0 .. 10
      BY <1>2, <2>3
    <3> QED
      BY <1>4, <3>2, <3>3 DEF Away
  <2> QED
    BY <1>2, <2>1, <2>2, <2>3
<1>7. ASSUME NEW robot \in Away
      PROVE  \E k \in 1 .. Len(entries) : entries[k].id = robot
  <2>1. CASE \E id \in 2 .. 10 : robot = Robot("blue", id)
    <3>1. PICK id \in 2 .. 10 : robot = Robot("blue", id)
      BY <2>1
    <3>2. id - 1 \in 1 .. 9 /\ id - 1 + 1 = id
      OBVIOUS
    <3>3. PICK i \in 1 .. 9 : i + 1 = id
      BY <3>2
    <3>4. entries[Len(sent) + i] = Gone("blue", id)
      BY <1>3, <3>3
    <3>5. Len(sent) + i \in 1 .. Len(entries)
      BY <1>2
    <3> QED
      BY <1>4, <3>1, <3>4, <3>5
  <2>2. CASE \E id \in 0 .. 10 : robot = Robot("yellow", id)
    <3>1. PICK id \in 0 .. 10 : robot = Robot("yellow", id)
      BY <2>2
    <3>2. id + 1 \in 1 .. 11 /\ id + 1 - 1 = id
      OBVIOUS
    <3>3. PICK i \in 1 .. 11 : i - 1 = id
      BY <3>2
    <3>4. entries[Len(sent) + 9 + i] = Gone("yellow", id)
      BY <1>3, <3>3
    <3>5. Len(sent) + 9 + i \in 1 .. Len(entries)
      BY <1>2
    <3> QED
      BY <1>4, <3>1, <3>4, <3>5
  <2> QED
    BY <2>1, <2>2 DEF Away
<1>8. \A k \in 1 .. Len(sent) : k \in 1 .. Len(entries)
  BY <1>2
<1> QED
  BY <1>6, <1>7, <1>8 DEF sent, entries

\* what the field shows of a robot, by the last entry with its id
Counts(entries, k, robot, there) ==
    \/ \A i \in 1 .. Len(entries) : entries[i].id # robot
    \/ /\ k \in 1 .. Len(entries) /\ entries[k].id = robot
       /\ \A i \in 1 .. Len(entries) : entries[i].id = robot => i <= k
       /\ entries[k].present =>
             there = There(entries[k].x, entries[k].y, entries[k].orientation)
       /\ ~entries[k].present => there = Absent

LEMMA ShownAs ==
    ASSUME NEW scene \in Scenes, NEW before, NEW robot \in Robots
    PROVE  Counts(Packet(Positions(scene)).teleport_robot,
                  LastWith(Packet(Positions(scene)).teleport_robot, robot), robot,
                  Shown(Packet(Positions(scene)), before).robots[robot])
<1> DEFINE entries == Packet(Positions(scene)).teleport_robot
           k == LastWith(entries, robot)
           there == Shown(Packet(Positions(scene)), before).robots[robot]
<1>1. there = IF k = 0 THEN before.robots[robot]
              ELSE IF ~entries[k].present THEN Absent
              ELSE There(entries[k].x, entries[k].y, entries[k].orientation)
  BY DEF Shown
<1>2. entries \in Seq(TeleportRobot)
  BY Entries
<1> HIDE DEF entries, there
<1>3. \/ \A i \in 1 .. Len(entries) : entries[i].id # robot
      \/ /\ k \in 1 .. Len(entries) /\ entries[k].id = robot
         /\ \A i \in 1 .. Len(entries) : entries[i].id = robot => i <= k
  BY <1>2, LastWithId
<1> HIDE DEF k
<1>4. k \in 1 .. Len(entries) => k # 0
  OBVIOUS
<1>5. Counts(entries, k, robot, there)
  BY <1>1, <1>3, <1>4 DEF Counts
<1> QED
  BY <1>5 DEF entries, there, k

\* a list that is sent and the template's have the same ids
LEMMA SentIds ==
    ASSUME NEW scene \in Scenes
    PROVE  LET sent == BlueOf(Positions(scene))
               blue == Blue(scene)
           IN  /\ \A k \in 1 .. Len(sent) :
                     \E i \in 1 .. Len(blue) : WellFormed(blue[i]) /\ sent[k].id = blue[i].id
               /\ \A i \in 1 .. Len(blue) : WellFormed(blue[i]) =>
                     \E k \in 1 .. Len(sent) : sent[k].id = blue[i].id
<1> DEFINE sent == BlueOf(Positions(scene))
           blue == Blue(scene)
           noisy == NoisyBlue(scene)
<1>1. Leaves(sent, noisy, Len(blue))
  BY Sent
<1>2. \A i \in 1 .. Len(blue) :
         /\ WellFormed(noisy[i]) <=> WellFormed(blue[i])
         /\ WellFormed(blue[i]) => noisy[i].id = blue[i].id
  BY BluePlaced DEF WellFormed
<1> HIDE DEF sent, blue, noisy
<1>3. ASSUME NEW k \in 1 .. Len(sent)
      PROVE  \E i \in 1 .. Len(blue) : WellFormed(blue[i]) /\ sent[k].id = blue[i].id
  <2>1. PICK i \in 1 .. Len(blue) : WellFormed(noisy[i]) /\ sent[k] = noisy[i]
    BY <1>1 DEF Leaves
  <2> QED
    BY <1>2, <2>1
<1>4. ASSUME NEW i \in 1 .. Len(blue), WellFormed(blue[i])
      PROVE  \E k \in 1 .. Len(sent) : sent[k].id = blue[i].id
  <2>1. WellFormed(noisy[i]) /\ noisy[i].id = blue[i].id
    BY <1>2, <1>4
  <2>2. PICK k \in 1 .. Len(sent) : sent[k] = noisy[i]
    BY <1>1, <2>1 DEF Leaves
  <2> QED
    BY <2>1, <2>2
<1> QED
  BY <1>3, <1>4 DEF sent, blue

(***************************************************************************)
(* A template that names blue 0 and 1 starts its episode with these two on *)
(* the field and nobody else, whoever was there before: the entries behind *)
(* the template's own name everyone else, and none of the two              *)
(* (manager.py:62-90).                                                     *)
(***************************************************************************)
THEOREM OnlyTheTwo == Spec => []NobodyLeftOver
<1>1. FieldInv => NobodyLeftOver
  <2> DEFINE on == {Robot("blue", 0), Robot("blue", 1)}
  <2> SUFFICES ASSUME FieldInv, shown # NoScene, Named("blue") = on
               PROVE  PresentRobots = on
    BY DEF NobodyLeftOver, Robot
  <2>1. shown \in Scenes /\ \E before : field = Shown(Packet(Positions(shown)), before)
    BY DEF FieldInv, Showing
  <2>2. PICK before : field = Shown(Packet(Positions(shown)), before)
    BY <2>1
  <2> DEFINE sent == BlueOf(Positions(shown))
             entries == Packet(Positions(shown)).teleport_robot
             blue == Blue(shown)
  <2>3. on = {Robot("blue", blue[i].id) : i \in {j \in DOMAIN blue : WellFormed(blue[j])}}
    BY DEF Named, ShownTemplate, Blue, Template, Robot
  <2>4. DOMAIN blue = 1 .. Len(blue)
    BY <2>1, BluePlaced DEF IsTeam
  <2>5. /\ \A k \in 1 .. Len(sent) :
              \E i \in 1 .. Len(blue) : WellFormed(blue[i]) /\ sent[k].id = blue[i].id
        /\ \A i \in 1 .. Len(blue) : WellFormed(blue[i]) =>
              \E k \in 1 .. Len(sent) : sent[k].id = blue[i].id
    BY <2>1, SentIds
  <2>6. /\ \A k \in 1 .. Len(entries) :
              \/ /\ k \in 1 .. Len(sent) /\ entries[k].present
                 /\ entries[k].id = Robot("blue", sent[k].id)
              \/ ~entries[k].present /\ entries[k].id \in Away
        /\ \A robot \in Away : \E k \in 1 .. Len(entries) : entries[k].id = robot
        /\ \A k \in 1 .. Len(sent) :
              k \in 1 .. Len(entries) /\ entries[k].id = Robot("blue", sent[k].id)
    <3>1. \A k \in 1 .. Len(sent) : k \in 1 .. Len(entries) /\ entries[k] = Placed(sent[k])
      BY <2>1, EntryKinds, Entries
    <3>2. \A robot : Placed(robot).id = Robot("blue", robot.id)
      BY DEF Placed, Robot
    <3> HIDE DEF sent, entries
    <3>3. \A k \in 1 .. Len(sent) : entries[k].id = Robot("blue", sent[k].id)
      BY <3>1, <3>2
    <3> QED
      BY <2>1, <3>1, <3>3, EntryKinds DEF sent, entries
  <2>7. \A robot \in Robots :
           \/ \A i \in 1 .. Len(entries) : entries[i].id # robot
           \/ \E k \in 1 .. Len(entries) :
                 entries[k].id = robot /\ (field.robots[robot].present <=> entries[k].present)
    <3> SUFFICES ASSUME NEW robot \in Robots, \E i \in 1 .. Len(entries) : entries[i].id = robot
                 PROVE  \E k \in 1 .. Len(entries) :
                           /\ entries[k].id = robot
                           /\ field.robots[robot].present <=> entries[k].present
      OBVIOUS
    <3> DEFINE k == LastWith(entries, robot)
    <3>1. /\ k \in 1 .. Len(entries) /\ entries[k].id = robot
          /\ entries[k].present => field.robots[robot] =
                There(entries[k].x, entries[k].y, entries[k].orientation)
          /\ ~entries[k].present => field.robots[robot] = Absent
      <4>1. Counts(entries, k, robot, Shown(Packet(Positions(shown)), before).robots[robot])
        BY <2>1, ShownAs
      <4> HIDE DEF k, entries
      <4>2. Counts(entries, k, robot, field.robots[robot])
        BY <2>2, <4>1
      <4> QED
        BY <4>2 DEF Counts
    <3>2. ~Absent.present /\ \A x, y, o : There(x, y, o).present
      BY DEF Absent, There
    <3> HIDE DEF k, entries
    <3> QED
      BY <3>1, <3>2
  <2> HIDE DEF sent, entries, blue
  <2>8. ASSUME NEW robot \in Away
        PROVE  ~field.robots[robot].present
    <3>1. robot \in Robots /\ robot \notin on
      BY SomeRobots
    <3>2. PICK k \in 1 .. Len(entries) :
             entries[k].id = robot /\ (field.robots[robot].present <=> entries[k].present)
      BY <2>6, <2>7, <3>1
    <3>3. \A j \in 1 .. Len(sent) : Robot("blue", sent[j].id) \in on
      BY <2>3, <2>4, <2>5
    <3> HIDE DEF on
    <3>4. ~(k \in 1 .. Len(sent) /\ entries[k].id = Robot("blue", sent[k].id))
      BY <3>1, <3>2, <3>3
    <3>5. ~entries[k].present
      BY <2>6, <3>4
    <3> QED
      BY <3>2, <3>5, Zenon
  <2>9. ASSUME NEW robot \in on
        PROVE  field.robots[robot].present
    <3>1. robot \in Robots /\ robot \notin Away
      BY SomeRobots
    <3>2. PICK j \in 1 .. Len(sent) : robot = Robot("blue", sent[j].id)
      <4> HIDE DEF on
      <4>1. PICK i \in 1 .. Len(blue) : WellFormed(blue[i]) /\ robot = Robot("blue", blue[i].id)
        BY <2>3, <2>4
      <4>2. PICK j \in 1 .. Len(sent) : sent[j].id = blue[i].id
        BY <2>5, <4>1
      <4> QED
        BY <4>1, <4>2
    <3>3. PICK k \in 1 .. Len(entries) :
             entries[k].id = robot /\ (field.robots[robot].present <=> entries[k].present)
      BY <2>6, <2>7, <3>1, <3>2
    <3> QED
      BY <2>6, <3>1, <3>3
  <2>10. \A robot \in Robots : robot \in Away \/ robot \in on
    BY SomeRobots
  <2>11. on \subseteq Robots
    BY SomeRobots
  <2> HIDE DEF on
  <2> QED
    BY <2>8, <2>9, <2>10, <2>11 DEF PresentRobots
<1> QED
  BY <1>1, AlwaysInv, PTL

-----------------------------------------------------------------------------
(***************************************************************************)
(* Where the ball and the robots are.                                      *)
(***************************************************************************)
LEMMA ReachAdded ==
    ASSUME shown \in Scenes, NEW slot \in Slots(Template(shown)), NEW value \in Int
    PROVE  value + Added(shown, slot) \in Reach(slot, value)
<1> DEFINE noise == SlotNoise(Template(shown), Noise(shown), slot)
<1>1. Reach(slot, value) =
         IF Strategy(shown) = "no_variance" \/ slot[3] \notin DOMAIN noise THEN {value}
         ELSE IF Strategy(shown) = "uniform_random"
              THEN Between(value + Args(shown, slot)[1], value + Args(shown, slot)[2])
         ELSE Between(value - 3 * Args(shown, slot), value + 3 * Args(shown, slot))
  BY DEF Reach, ShownTemplate, Template, Noise, Strategy, Args
<1>2. slot \in NoisySlots(Template(shown), Noise(shown)) <=> slot[3] \in DOMAIN noise
  BY DEF NoisySlots, Configured
<1> HIDE DEF noise
<1>3. \A a, b, x \in Int : x \in Between(a, b) => value + x \in Between(value + a, value + b)
  BY DEF Between
<1>4. CASE Strategy(shown) = "no_variance" \/ slot[3] \notin DOMAIN noise
  <2>1. Added(shown, slot) = 0
    BY <1>2, <1>4 DEF Added, NoiseAt
  <2> QED
    BY <1>1, <1>4, <2>1
<1>5. CASE ~(Strategy(shown) = "no_variance" \/ slot[3] \notin DOMAIN noise)
  <2>1. \/ /\ Strategy(shown) = "uniform_random" /\ Args(shown, slot) \in Int \X Int
           /\ Added(shown, slot) \in Between(Args(shown, slot)[1], Args(shown, slot)[2])
        \/ /\ Strategy(shown) = "gaussian_random" /\ Args(shown, slot) \in Int
           /\ Added(shown, slot) \in Between(-(3 * Args(shown, slot)), 3 * Args(shown, slot))
    BY <1>2, <1>5, AddedWithin
  <2>2. Added(shown, slot) \in Int
    BY AddedType
  <2>3. CASE Strategy(shown) = "uniform_random" /\ Args(shown, slot) \in Int \X Int
    <3>1. Args(shown, slot)[1] \in Int /\ Args(shown, slot)[2] \in Int
      BY <2>3
    <3>2. Added(shown, slot) \in Between(Args(shown, slot)[1], Args(shown, slot)[2])
      BY <2>1, <2>3
    <3> QED
      BY <1>1, <1>3, <1>5, <2>2, <2>3, <3>1, <3>2
  <2>4. CASE Strategy(shown) = "gaussian_random" /\ Args(shown, slot) \in Int
    <3>1. PICK b \in Int : b = 3 * Args(shown, slot)
      BY <2>4
    <3>2. Added(shown, slot) \in Between(-b, b)
      BY <2>1, <2>4, <3>1
    <3>3. value + Added(shown, slot) \in Between(value + (-b), value + b)
      BY <1>3, <2>2, <3>2
    <3>4. value + (-b) = value - b
      OBVIOUS
    <3> QED
      BY <1>1, <1>5, <2>4, <3>1, <3>3, <3>4
  <2> QED
    BY <2>1, <2>3, <2>4
<1> QED
  BY <1>4, <1>5

\* the entry that counts for blue 0 and 1 is the last of the list
LEMMA LastCounts ==
    ASSUME NEW scene \in Scenes, NEW before, NEW i \in 1 .. Len(Blue(scene)),
           WellFormed(Blue(scene)[i]), Blue(scene)[i].id \in 0 .. 1,
           \A j \in i + 1 .. Len(Blue(scene)) :
              WellFormed(Blue(scene)[j]) => Blue(scene)[j].id # Blue(scene)[i].id
    PROVE  LET noisy == NoisyBlue(scene)[i]
               robot == Robot("blue", Blue(scene)[i].id)
           IN  Shown(Packet(Positions(scene)), before).robots[robot] =
                  There(Get(noisy, "x", 0), Get(noisy, "y", 0), Get(noisy, "theta", 0))
<1> DEFINE sent == BlueOf(Positions(scene))
           entries == Packet(Positions(scene)).teleport_robot
           blue == Blue(scene)
           noisy == NoisyBlue(scene)
           id == blue[i].id
           robot == Robot("blue", id)
           there == Shown(Packet(Positions(scene)), before).robots[robot]
           last == LastWith(entries, robot)
<1>1. robot \in Robots /\ robot \notin Away
  <2>1. robot \in {Robot("blue", 0), Robot("blue", 1)}
    OBVIOUS
  <2> QED
    BY <2>1, SomeRobots
<1>2. \A j \in 1 .. Len(blue) :
         /\ WellFormed(noisy[j]) <=> WellFormed(blue[j])
         /\ WellFormed(blue[j]) => noisy[j].id = blue[j].id
  BY BluePlaced DEF WellFormed
<1>3. Leaves(sent, noisy, Len(blue))
  BY Sent
<1>4. /\ \A k \in 1 .. Len(entries) :
            \/ /\ k \in 1 .. Len(sent) /\ entries[k] = Placed(sent[k])
               /\ entries[k].present /\ entries[k].id = Robot("blue", sent[k].id)
            \/ k > Len(sent) /\ ~entries[k].present /\ entries[k].id \in Away
      /\ \A k \in 1 .. Len(sent) : k \in 1 .. Len(entries)
  BY EntryKinds
<1>5. Counts(entries, last, robot, there)
  BY <1>1, ShownAs
<1>6. sent \in Seq(ToSet(sent))
  BY Sent
<1>7. \A j \in i + 1 .. Len(blue) : WellFormed(blue[j]) => blue[j].id # id
  OBVIOUS
<1>8. WellFormed(blue[i]) /\ i \in 1 .. Len(blue) /\ Len(blue) \in Nat
  <2>1. blue \in Seq(ToSet(blue))
    BY BluePlaced DEF IsTeam
  <2> HIDE DEF blue
  <2>2. Len(blue) \in Nat
    BY <2>1
  <2> QED
    BY <2>2 DEF blue
<1> HIDE DEF sent, entries, blue, noisy, there, last
<1>9. PICK k \in 1 .. Len(sent) :
         sent[k] = noisy[i] /\ \A l \in k + 1 .. Len(sent) : sent[l].id # id
  <2>1. WellFormed(noisy[i]) /\ noisy[i].id = id
    BY <1>2, <1>8
  <2>2. ASSUME NEW j \in i + 1 .. Len(blue), WellFormed(noisy[j])
        PROVE  noisy[j].id # noisy[i].id
    <3>1. j \in 1 .. Len(blue)
      BY <1>8
    <3> QED
      BY <1>2, <1>7, <2>1, <2>2, <3>1
  <2>3. \E k \in 1 .. Len(sent) :
           sent[k] = noisy[i] /\ \A l \in k + 1 .. Len(sent) : sent[l].id # noisy[i].id
    BY <1>3, <1>8, <2>1, <2>2 DEF Leaves
  <2> QED
    BY <2>1, <2>3
<1>10. sent[k].id = id
  BY <1>2, <1>8, <1>9
<1>11. \A a, b : Robot("blue", a) = Robot("blue", b) => a = b
  BY DEF Robot
<1>12. k \in 1 .. Len(entries) /\ entries[k] = Placed(sent[k]) /\ entries[k].id = robot
  <2>1. k \in 1 .. Len(entries)
    BY <1>4
  <2>2. Len(sent) \in Nat /\ ~(k > Len(sent))
    BY <1>6
  <2>3. entries[k] = Placed(sent[k]) /\ entries[k].id = Robot("blue", sent[k].id)
    BY <1>4, <2>1, <2>2
  <2> QED
    BY <1>10, <2>1, <2>3
<1>13. /\ last \in 1 .. Len(entries) /\ entries[last].id = robot /\ k <= last
       /\ entries[last].present =>
             there = There(entries[last].x, entries[last].y, entries[last].orientation)
  BY <1>5, <1>12 DEF Counts
<1>14. last \in 1 .. Len(sent) /\ entries[last].present /\ robot = Robot("blue", sent[last].id)
  <2> HIDE DEF robot
  <2> QED
    BY <1>1, <1>4, <1>13
<1>15. last = k
  <2>1. sent[last].id = id
    BY <1>11, <1>14
  <2>2. ~(last \in k + 1 .. Len(sent))
    BY <1>9, <2>1
  <2> QED
    BY <1>6, <1>13, <1>14, <2>2
<1>16. there = There(Placed(noisy[i]).x, Placed(noisy[i]).y, Placed(noisy[i]).orientation)
  BY <1>9, <1>12, <1>13, <1>14, <1>15
<1>17. there = There(Get(noisy[i], "x", 0), Get(noisy[i], "y", 0), Get(noisy[i], "theta", 0))
  BY <1>16 DEF Placed
<1> QED
  BY <1>17 DEF there, noisy, blue

(***************************************************************************)
(* An episode starts within its noise of the template, whichever of the    *)
(* batch it is: the noise is added to a copy, by a generator whose draws   *)
(* stay within what the strategy allows, and the entry of the list that    *)
(* counts is the one the noise of its place was added to (variance.py:42). *)
(***************************************************************************)
THEOREM StartsWithinItsNoise == Spec => []NoDrift
<1>1. FieldInv => NoDrift
  <2> SUFFICES ASSUME FieldInv, shown # NoScene
               PROVE  NoDrift
    BY DEF NoDrift
  <2>1. shown \in Scenes /\ \E before : field = Shown(Packet(Positions(shown)), before)
    BY DEF FieldInv, Showing
  <2>2. PICK before : field = Shown(Packet(Positions(shown)), before)
    BY <2>1
  <2>3. ASSUME "ball" \in DOMAIN ShownTemplate, NEW key \in DOMAIN ShownTemplate.ball \cap {"x", "y"}
        PROVE  field.ball[key] \in Reach(<<"ball", 0, key>>, ShownTemplate.ball[key])
    <3> DEFINE ball == Get(Template(shown), "ball", NoKeys)
               positions == Positions(shown).ball
    <3>1. ball = ShownTemplate.ball
      BY <2>3 DEF Get, Template, ShownTemplate
    <3>2. /\ IsDict(ball, {"x", "y"}) /\ DOMAIN positions = DOMAIN ball
          /\ \A k \in DOMAIN ball : positions[k] = ball[k] + Added(shown, <<"ball", 0, k>>)
      BY <2>1, BallPlaced
    <3>3. field.ball = [x |-> Get(positions, "x", 0), y |-> Get(positions, "y", 0)]
      BY <2>2 DEF Shown, Packet
    <3> HIDE DEF ball, positions
    <3>4. key \in DOMAIN ball /\ (key = "x" \/ key = "y")
      BY <2>3, <3>1
    <3>5. field.ball[key] = Get(positions, key, 0)
      BY <3>3, <3>4
    <3>6. Get(positions, key, 0) = ball[key] + Added(shown, <<"ball", 0, key>>)
      BY <3>2, <3>4 DEF Get
    <3>7. ball[key] \in Int
      BY <3>2, <3>4 DEF IsDict
    <3>8. <<"ball", 0, key>> \in Slots(Template(shown))
      BY <3>4 DEF Slots
    <3>9. ball[key] + Added(shown, <<"ball", 0, key>>) \in Reach(<<"ball", 0, key>>, ball[key])
      BY <2>1, <3>7, <3>8, ReachAdded
    <3> QED
      BY <3>1, <3>5, <3>6, <3>9
  <2> DEFINE blue == Blue(shown)
  <2>4. /\ blue = Get(Get(ShownTemplate, "robots", NoKeys), "blue", <<>>)
        /\ DOMAIN blue = 1 .. Len(blue)
    BY <2>1, BluePlaced DEF Blue, Template, ShownTemplate, IsTeam
  <2>5. ASSUME NEW i \in 1 .. Len(blue), WellFormed(blue[i]), blue[i].id \in 0 .. 1,
               \A j \in i + 1 .. Len(blue) : WellFormed(blue[j]) => blue[j].id # blue[i].id,
               NEW key \in DOMAIN blue[i] \cap {"x", "y"}
        PROVE  field.robots[[team |-> "blue", id |-> blue[i].id]][key]
                  \in Reach(<<"blue", i, key>>, blue[i][key])
    <3> DEFINE noisy == NoisyBlue(shown)[i]
               robot == field.robots[Robot("blue", blue[i].id)]
    <3>1. robot = There(Get(noisy, "x", 0), Get(noisy, "y", 0), Get(noisy, "theta", 0))
      BY <2>1, <2>2, <2>5, LastCounts
    <3>2. /\ IsDict(blue[i], {"id", "x", "y", "theta"}) /\ DOMAIN noisy = DOMAIN blue[i]
          /\ \A k \in DOMAIN blue[i] \ {"id"} :
                noisy[k] = blue[i][k] + Added(shown, <<"blue", i, k>>)
      BY <2>1, BluePlaced
    <3>3. robot = field.robots[[team |-> "blue", id |-> blue[i].id]]
      BY DEF Robot
    <3>4. <<"blue", i, key>> \in Slots(Template(shown))
      <4>1. i \in DOMAIN Get(Get(Template(shown), "robots", NoKeys), "blue", <<>>)
        BY <2>4 DEF Blue
      <4> QED
        BY <4>1 DEF Slots, TeamSlots
    <3> HIDE DEF noisy, robot, blue
    <3>5. key \in DOMAIN blue[i] /\ (key = "x" \/ key = "y")
      OBVIOUS
    <3>6. robot[key] = Get(noisy, key, 0)
      BY <3>1, <3>5 DEF There
    <3>7. Get(noisy, key, 0) = blue[i][key] + Added(shown, <<"blue", i, key>>)
      BY <3>2, <3>5 DEF Get
    <3>8. blue[i][key] \in Int
      BY <3>2, <3>5 DEF IsDict
    <3>9. blue[i][key] + Added(shown, <<"blue", i, key>>) \in Reach(<<"blue", i, key>>, blue[i][key])
      BY <2>1, <3>4, <3>8, ReachAdded
    <3> QED
      BY <3>3, <3>6, <3>7, <3>9
  <2> HIDE DEF blue
  <2> QED
    BY <2>3, <2>4, <2>5 DEF NoDrift
<1> QED
  BY <1>1, AlwaysInv, PTL
=============================================================================
