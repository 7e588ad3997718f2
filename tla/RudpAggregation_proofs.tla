----------------------- MODULE RudpAggregation_proofs -----------------------
(***************************************************************************)
(* Theorems about RudpAggregation, for every set of factories: however     *)
(* aggregations nest and in whatever order objects join, one factory is    *)
(* made, each layer is wired once, and sockets know their node.            *)
(***************************************************************************)
EXTENDS RudpAggregation, FiniteSetTheorems, SequenceTheorems, TLAPS

FramesOf(st) == {st[i] : i \in DOMAIN st}

IsAggregating(fr) == fr.call = "AggregateObject"
IsNotified(fr) == fr.call = "NotifyNewAggregate"

(* Aggregates partition the objects; what is disposed of is disposed of    *)
(* with its aggregate; a factory not made yet is in none.                  *)
Partition(a) ==
  /\ a \in [Objects -> SUBSET Objects]
  /\ \A o \in Objects : o \in a[o]
       /\ \A x \in a[o] : a[x] = a[o]

PartInv ==
  /\ Partition(aggregate)
  /\ created \subseteq Factories /\ disposed \subseteq Objects
  /\ \A o \in disposed : aggregate[o] \subseteq disposed
  /\ \A f \in Factories \ created : aggregate[f] = {f} /\ f \notin disposed

(* The calls under way are about objects not disposed of, and what a       *)
(* notification found is still in the aggregate.                           *)
LiveFrames ==
  {fr \in Frames :
     /\ IsAggregating(fr) => (fr.first \cup fr.second) \cap disposed = {}
     /\ IsNotified(fr) => "rudp" \notin disposed /\ fr.found \subseteq aggregate["rudp"]}

(* Aggregations and notifications alternate in a stack of frames from S,   *)
(* the outermost call is an aggregation, and only a protocol that has its  *)
(* node is deeper than one of each.                                        *)
Shaped(S, st, node) ==
  /\ st \in Seq(S) /\ Len(st) <= 4
  /\ \A i \in DOMAIN st :
       IF Len(st) - i \in {0, 2} THEN IsAggregating(st[i]) ELSE IsNotified(st[i])
  /\ Len(st) >= 3 => node = "node"

ShapeInv == Shaped(LiveFrames, stack, m_node)

(* A null pointer is none of the values it is compared with.               *)
LEMMA NullDistinct == Null \notin {"rudp", "node", "other"} \cup IpLayers \cup Factories
  BY NullAssumption DEF Objects

(* Who made which factory, and what it leads to.                           *)
MadeInv ==
  /\ m_node \in {"node", Null}
  /\ m_rudp \in [Factories -> {"rudp", Null}]
  /\ \A f, g \in created : f = g
  /\ created # {} => m_node = "node" \/ "rudp" \in disposed
  /\ "rudp" \in disposed => m_node = Null
  /\ m_node = "node" =>
       \E f \in created : f \in aggregate["rudp"] /\ m_rudp[f] = "rudp"
  /\ \A f \in Factories :
       m_rudp[f] = "rudp" => m_node = "node" /\ f \in aggregate["rudp"]
  /\ socket \in [maker : Factories \cup {"rudp", Null}, node : {"node", Null}]
  /\ socket.maker \in Factories => socket.node = "node"
  /\ crash \in {"none", "nullNode", "noRudp"}

(* A layer that was given the protocol is a down target.                   *)
WireInv ==
  /\ m_downTarget \in [IpLayers -> IpLayers \cup {"other", Null}]
  /\ inserted \in [IpLayers -> {0, 1}]
  /\ \A v \in IpLayers :
       inserted[v] = 1 => m_downTarget[v] # Null \/ "rudp" \in disposed

(* Wherever the aggregate is complete but not yet wired, a call under way  *)
(* will see to it.                                                         *)
Pending == \E fr \in FramesOf(stack) :
             IsAggregating(fr) /\ "rudp" \in fr.first \cup fr.second

Joins(v) ==
  /\ crash = "none" /\ "rudp" \notin disposed
  /\ {"node", v} \subseteq aggregate["rudp"]

NodeComing(v) ==
  \/ Pending
  \/ \E fr \in FramesOf(stack) :
       IsNotified(fr) /\ fr.at = "entry" /\ {"node", v} \subseteq fr.found

LayerComing(v) ==
  Pending \/ \E fr \in FramesOf(stack) : IsNotified(fr) /\ v \in fr.found

PromiseInv ==
  \A v \in IpLayers : Joins(v) =>
    /\ m_node = "node" \/ NodeComing(v)
    /\ m_downTarget[v] # Null \/ LayerComing(v)

AggregationInv ==
  PartInv /\ ShapeInv /\ MadeInv /\ WireInv /\ PromiseInv

-------------------------------------------------------------------------------
(***************************************************************************)
(* The stack.                                                              *)
(***************************************************************************)
LEMMA PushFrame ==
  ASSUME NEW S, NEW st \in Seq(S), NEW fr \in S
  PROVE  LET new == <<fr>> \o st IN
         /\ new \in Seq(S)
         /\ Len(new) = Len(st) + 1
         /\ new[1] = fr /\ new # <<>> /\ Head(new) = fr
         /\ \A i \in 1..Len(st) : new[i + 1] = st[i]
         /\ \A i \in 2..Len(new) : new[i] = st[i - 1]
         /\ FramesOf(new) = {fr} \cup FramesOf(st)
<1> DEFINE new == <<fr>> \o st
<1>1. new \in Seq(S) /\ Len(new) = Len(st) + 1 /\ Len(st) \in Nat
  OBVIOUS
<1>2. new[1] = fr
  OBVIOUS
<1>3. \A i \in 2..Len(new) : new[i] = st[i - 1]
  OBVIOUS
<1> HIDE DEF new
<1>4. \A i \in 1..Len(st) : new[i + 1] = st[i]
  BY <1>1, <1>3
<1>5. DOMAIN new = 1..Len(new) /\ DOMAIN st = 1..Len(st)
  BY <1>1
<1>6. FramesOf(new) = {fr} \cup FramesOf(st)
  <2>1. FramesOf(new) \subseteq {fr} \cup FramesOf(st)
    <3> SUFFICES ASSUME NEW i \in 1..Len(new)
                 PROVE  new[i] \in {fr} \cup FramesOf(st)
      BY <1>5 DEF FramesOf
    <3>1. CASE i = 1
      BY <3>1, <1>2
    <3>2. CASE i # 1
      <4>1. i - 1 \in 1..Len(st) /\ i \in 2..Len(new)
        BY <3>2, <1>1
      <4>2. new[i] = st[i - 1]
        BY <4>1, <1>3
      <4> QED BY <4>1, <4>2, <1>5 DEF FramesOf
    <3> QED BY <3>1, <3>2
  <2>2. fr \in FramesOf(new)
    BY <1>1, <1>2, <1>5 DEF FramesOf
  <2>3. ASSUME NEW i \in 1..Len(st)
        PROVE  st[i] \in FramesOf(new)
    <3>1. i + 1 \in 1..Len(new)
      BY <1>1
    <3>2. new[i + 1] = st[i]
      BY <1>4
    <3> QED BY <3>1, <3>2, <1>5 DEF FramesOf
  <2>4. FramesOf(st) \subseteq FramesOf(new)
    BY <2>3, <1>5 DEF FramesOf
  <2> QED BY <2>1, <2>2, <2>4
<1>7. new # <<>> /\ Head(new) = fr
  BY <1>1, <1>2
<1> QED BY <1>1, <1>2, <1>3, <1>4, <1>6, <1>7 DEF new

LEMMA PopFrame ==
  ASSUME NEW S, NEW st \in Seq(S), st # <<>>
  PROVE  /\ Tail(st) \in Seq(S)
         /\ Head(st) \in S /\ Head(st) = st[1]
         /\ Len(st) \in Nat \ {0}
         /\ Len(Tail(st)) = Len(st) - 1
         /\ \A i \in 1..Len(Tail(st)) : Tail(st)[i] = st[i + 1]
         /\ FramesOf(st) = {Head(st)} \cup FramesOf(Tail(st))
<1>1. Tail(st) \in Seq(S) /\ Len(st) \in Nat \ {0} /\ Len(Tail(st)) = Len(st) - 1
  OBVIOUS
<1>2. Head(st) = st[1] /\ Head(st) \in S
  OBVIOUS
<1>3. \A i \in 1..Len(Tail(st)) : Tail(st)[i] = st[i + 1]
  OBVIOUS
<1>4. DOMAIN st = 1..Len(st) /\ DOMAIN Tail(st) = 1..Len(Tail(st))
  BY <1>1
<1>5. FramesOf(st) \subseteq {Head(st)} \cup FramesOf(Tail(st))
  <2>1. SUFFICES ASSUME NEW x \in FramesOf(st)
                 PROVE  x \in {Head(st)} \cup FramesOf(Tail(st))
    OBVIOUS
  <2>2. PICK i \in 1..Len(st) : x = st[i]
    BY <1>4 DEF FramesOf
  <2>3. CASE i = 1
    BY <2>2, <2>3, <1>2
  <2>4. CASE i # 1
    <3>1. i - 1 \in 1..Len(Tail(st)) /\ (i - 1) + 1 = i
      BY <2>2, <2>4, <1>1
    <3>2. Tail(st)[i - 1] = st[i]
      BY <3>1, <1>3
    <3> QED BY <3>1, <3>2, <2>2, <1>4 DEF FramesOf
  <2> QED BY <2>3, <2>4
<1>6. {Head(st)} \cup FramesOf(Tail(st)) \subseteq FramesOf(st)
  <2>1. Head(st) \in FramesOf(st)
    BY <1>1, <1>2, <1>4 DEF FramesOf
  <2>2. \A i \in 1..Len(Tail(st)) : Tail(st)[i] \in FramesOf(st)
    BY <1>1, <1>3, <1>4 DEF FramesOf
  <2> QED BY <2>1, <2>2, <1>4 DEF FramesOf
<1> QED BY <1>1, <1>2, <1>3, <1>5, <1>6

(* The depths at which either kind of call is the innermost.               *)
LEMMA Depths ==
  ASSUME NEW n \in Nat, n <= 4
  PROVE  /\ n - 1 \in {0, 2} => n \in {1, 3}
         /\ n # 0 /\ n - 1 \notin {0, 2} => n \in {2, 4}
OBVIOUS

LEMMA FrameKinds ==
  ASSUME NEW fr, IsAggregating(fr)
  PROVE  ~IsNotified(fr)
BY DEF IsAggregating, IsNotified

LEMMA ShapedEmpty == \A S, node : Shaped(S, <<>>, node)
BY DEF Shaped

LEMMA ShapedMore ==
  ASSUME NEW S, NEW T, NEW st, NEW node, NEW to, Shaped(S, st, node),
         FramesOf(st) \subseteq T, node = "node" => to = "node"
  PROVE  Shaped(T, st, to)
<1>1. st \in Seq(T)
  BY DEF Shaped, FramesOf
<1> QED BY <1>1 DEF Shaped

LEMMA ShapedTail ==
  ASSUME NEW S, NEW st, NEW node, Shaped(S, st, node), st # <<>>
  PROVE  Shaped(S, Tail(st), node)
<1>1. st \in Seq(S)
  BY DEF Shaped
<1>2. /\ Tail(st) \in Seq(S)
      /\ Len(st) \in Nat \ {0}
      /\ Len(Tail(st)) = Len(st) - 1
      /\ \A i \in 1..Len(Tail(st)) : Tail(st)[i] = st[i + 1]
  BY <1>1, PopFrame
<1>3. DOMAIN st = 1..Len(st) /\ DOMAIN Tail(st) = 1..Len(Tail(st))
  BY <1>1, <1>2
<1>4. \A i \in DOMAIN Tail(st) :
        /\ i + 1 \in DOMAIN st
        /\ Len(Tail(st)) - i = Len(st) - (i + 1)
        /\ Tail(st)[i] = st[i + 1]
  BY <1>2, <1>3
<1> QED BY <1>2, <1>4 DEF Shaped

(* What may be pushed: a notification onto an aggregation, an aggregation  *)
(* onto a notification of the outermost one.                               *)
LEMMA ShapedPush ==
  ASSUME NEW S, NEW st, NEW node, NEW to, NEW fr \in S, Shaped(S, st, node),
         node = "node" => to = "node",
         \/ st = <<>> /\ IsAggregating(fr)
         \/ st # <<>> /\ IsAggregating(Head(st)) /\ IsNotified(fr)
         \/ /\ st # <<>> /\ IsNotified(Head(st)) /\ Len(st) < 4
            /\ IsAggregating(fr) /\ to = "node"
  PROVE  Shaped(S, <<fr>> \o st, to)
<1> DEFINE new == <<fr>> \o st
<1>1. st \in Seq(S) /\ Len(st) \in Nat
  BY DEF Shaped
<1>2. /\ new \in Seq(S)
      /\ Len(new) = Len(st) + 1
      /\ new[1] = fr
      /\ \A i \in 2..Len(new) : new[i] = st[i - 1]
  BY <1>1, PushFrame
<1> HIDE DEF new
<1>3. DOMAIN st = 1..Len(st) /\ DOMAIN new = 1..Len(new)
  BY <1>1, <1>2
<1>4. \A i \in 2..Len(new) :
        /\ i - 1 \in DOMAIN st
        /\ Len(new) - i = Len(st) - (i - 1)
        /\ new[i] = st[i - 1]
  BY <1>1, <1>2, <1>3
<1>5. st # <<>> => /\ Head(st) = st[1] /\ 1 \in DOMAIN st /\ Len(st) >= 1
                   /\ IF Len(st) - 1 \in {0, 2} THEN IsAggregating(st[1])
                      ELSE IsNotified(st[1])
  <2>1. ASSUME st # <<>>
        PROVE  Head(st) = st[1] /\ Len(st) \in Nat \ {0}
    BY <1>1, <2>1, PopFrame
  <2> QED BY <2>1, <1>3 DEF Shaped
<1>6. st = <<>> => Len(st) = 0
  OBVIOUS
<1>7. /\ Len(new) <= 4
      /\ IF Len(new) - 1 \in {0, 2} THEN IsAggregating(fr) ELSE IsNotified(fr)
      /\ Len(new) >= 3 => to = "node"
  <2>5. Len(new) = Len(st) + 1
    BY <1>2
  <2>6. Len(st) \in Nat
    BY <1>1
  <2>0. Len(st) <= 4
    BY DEF Shaped
  <2>4. Len(st) >= 3 => to = "node"
    BY DEF Shaped
  <2>1. CASE st = <<>> /\ IsAggregating(fr)
    BY <2>1, <1>2, <1>6
  <2>2. CASE st # <<>> /\ IsAggregating(Head(st)) /\ IsNotified(fr)
    <3>1. ~IsNotified(st[1])
      BY <2>2, <1>5, FrameKinds
    <3>2. Len(st) - 1 \in {0, 2}
      BY <3>1, <1>5, <2>2
    <3>3. Len(st) \in {1, 3}
      BY <3>2, <2>6, <2>0, Depths
    <3>4. /\ Len(new) <= 4 /\ Len(new) - 1 \notin {0, 2}
          /\ Len(new) >= 3 => Len(st) >= 3
      <4>1. CASE Len(st) = 1
        BY <4>1, <2>5
      <4>2. CASE Len(st) = 3
        BY <4>2, <2>5
      <4> QED BY <3>3, <4>1, <4>2
    <3> QED BY <3>4, <2>2, <2>4
  <2>3. CASE /\ st # <<>> /\ IsNotified(Head(st)) /\ Len(st) < 4
             /\ IsAggregating(fr) /\ to = "node"
    <3>1. ~IsAggregating(st[1])
      BY <2>3, <1>5, FrameKinds
    <3>2. Len(st) # 0 /\ Len(st) - 1 \notin {0, 2}
      BY <3>1, <1>5, <2>3
    <3>3. Len(st) \in {2, 4}
      BY <3>2, <2>6, <2>0, Depths
    <3>4. Len(new) = 3
      <4>1. Len(st) < 4
        BY <2>3
      <4>2. Len(st) = 2
        BY <3>3, <4>1
      <4> QED BY <4>2, <2>5
    <3>5. Len(new) <= 4 /\ Len(new) - 1 \in {0, 2}
      BY <3>4
    <3> QED BY <3>5, <2>3
  <2> QED BY <2>1, <2>2, <2>3
<1>8. \A i \in DOMAIN new :
        IF Len(new) - i \in {0, 2} THEN IsAggregating(new[i]) ELSE IsNotified(new[i])
  <2>1. TAKE i \in DOMAIN new
  <2>2. CASE i = 1
    BY <2>2, <1>2, <1>7
  <2>3. CASE i # 1
    <3>1. i \in 2..Len(new)
      BY <2>3, <1>1, <1>2, <1>3
    <3> QED BY <3>1, <1>4 DEF Shaped
  <2> QED BY <2>2, <2>3
<1> QED BY <1>2, <1>7, <1>8 DEF Shaped, new

(* A frame on top replaced by another of its kind.                         *)
LEMMA ShapedReplace ==
  ASSUME NEW S, NEW st, NEW node, NEW fr \in S, Shaped(S, st, node), st # <<>>,
         \/ IsAggregating(Head(st)) /\ IsAggregating(fr)
         \/ IsNotified(Head(st)) /\ IsNotified(fr)
  PROVE  Shaped(S, <<fr>> \o Tail(st), node)
<1> DEFINE new == <<fr>> \o Tail(st)
<1>1. st \in Seq(S)
  BY DEF Shaped
<1>2. /\ Tail(st) \in Seq(S)
      /\ Head(st) = st[1]
      /\ Len(st) \in Nat \ {0}
      /\ Len(Tail(st)) = Len(st) - 1
      /\ \A i \in 1..Len(Tail(st)) : Tail(st)[i] = st[i + 1]
  BY <1>1, PopFrame
<1>3. /\ new \in Seq(S)
      /\ Len(new) = Len(Tail(st)) + 1
      /\ new[1] = fr
      /\ \A i \in 2..Len(new) : new[i] = Tail(st)[i - 1]
  BY <1>2, PushFrame
<1> HIDE DEF new
<1>4. Len(new) = Len(st) /\ DOMAIN new = DOMAIN st /\ DOMAIN st = 1..Len(st)
  BY <1>1, <1>2, <1>3
<1>5. \A i \in 2..Len(new) : new[i] = st[i]
  <2>1. TAKE i \in 2..Len(new)
  <2>2. i - 1 \in 1..Len(Tail(st)) /\ (i - 1) + 1 = i
    BY <1>2, <1>3
  <2>3. Tail(st)[i - 1] = st[i]
    BY <2>2, <1>2
  <2> QED BY <2>3, <1>3
<1>6. \A i \in DOMAIN new :
        IF Len(new) - i \in {0, 2} THEN IsAggregating(new[i]) ELSE IsNotified(new[i])
  <2>1. TAKE i \in DOMAIN new
  <2>2. CASE i = 1
    <3>1. 1 \in DOMAIN st
      BY <1>2, <1>4
    <3>2. IF Len(st) - 1 \in {0, 2} THEN IsAggregating(st[1]) ELSE IsNotified(st[1])
      BY <3>1 DEF Shaped
    <3>3. IsAggregating(st[1]) => ~IsNotified(st[1])
      BY FrameKinds
    <3> QED BY <2>2, <3>2, <3>3, <1>2, <1>3, <1>4
  <2>3. CASE i # 1
    <3>1. i \in 2..Len(new)
      BY <2>3, <1>2, <1>4
    <3> QED BY <3>1, <1>4, <1>5 DEF Shaped
  <2> QED BY <2>2, <2>3
<1> QED BY <1>3, <1>4, <1>6 DEF Shaped, new

(* A stack of one frame.                                                   *)
LEMMA SingleFrame ==
  ASSUME NEW S, NEW fr \in S, IsAggregating(fr), NEW node
  PROVE  Shaped(S, <<fr>>, node) /\ FramesOf(<<fr>>) = {fr} /\ FramesOf(<<>>) = {}
<1>1. <<fr>> \in Seq(S) /\ Len(<<fr>>) = 1 /\ <<fr>>[1] = fr /\ DOMAIN <<fr>> = {1}
  OBVIOUS
<1>2. FramesOf(<<fr>>) = {fr}
  BY <1>1 DEF FramesOf
<1>3. FramesOf(<<>>) = {}
  BY DEF FramesOf
<1> QED BY <1>1, <1>2, <1>3 DEF Shaped

-------------------------------------------------------------------------------
(***************************************************************************)
(* Aggregates.                                                             *)
(***************************************************************************)
LEMMA JoinedGrows ==
  ASSUME Partition(aggregate), NEW x \in Objects, NEW y \in Objects
  PROVE  /\ Partition(Joined(x, y))
         /\ \A o \in Objects :
              /\ aggregate[o] \subseteq Joined(x, y)[o]
              /\ IF o \in aggregate[x] \cup aggregate[y]
                 THEN Joined(x, y)[o] = aggregate[x] \cup aggregate[y]
                 ELSE Joined(x, y)[o] = aggregate[o]
<1>1. \A o \in Objects :
        IF o \in aggregate[x] \cup aggregate[y]
        THEN Joined(x, y)[o] = aggregate[x] \cup aggregate[y]
        ELSE Joined(x, y)[o] = aggregate[o]
  BY DEF Joined
<1>2. \A o \in Objects : aggregate[o] \subseteq Joined(x, y)[o]
  BY <1>1 DEF Partition
<1>3. Joined(x, y) \in [Objects -> SUBSET Objects]
  BY DEF Joined, Partition
<1>4. \A o \in Objects : o \in Joined(x, y)[o]
  BY <1>2 DEF Partition
<1>5. \A o \in Objects : \A z \in Joined(x, y)[o] : Joined(x, y)[z] = Joined(x, y)[o]
  BY <1>1 DEF Partition
<1> QED BY <1>1, <1>2, <1>3, <1>4, <1>5 DEF Partition

(* Joining objects that are not disposed of, and made, keeps PartInv.      *)
LEMMA JoinKeepsPart ==
  ASSUME PartInv, NEW x \in Objects, NEW y \in Objects,
         x \notin disposed, y \notin disposed,
         aggregate' = Joined(x, y), disposed' = disposed,
         created' \subseteq Factories, created \subseteq created',
         x \notin Factories \ created', y \notin Factories \ created'
  PROVE  /\ PartInv'
         /\ (aggregate[x] \cup aggregate[y]) \cap disposed = {}
         /\ \A o \in Objects : aggregate[o] \subseteq aggregate'[o]
<1>1. Partition(aggregate')
  BY JoinedGrows DEF PartInv
<1>2. \A o \in Objects :
        /\ aggregate[o] \subseteq aggregate'[o]
        /\ IF o \in aggregate[x] \cup aggregate[y]
           THEN aggregate'[o] = aggregate[x] \cup aggregate[y]
           ELSE aggregate'[o] = aggregate[o]
  BY JoinedGrows DEF PartInv
<1>3. (aggregate[x] \cup aggregate[y]) \cap disposed = {}
  BY DEF PartInv, Partition
<1>4. \A o \in disposed : aggregate'[o] \subseteq disposed
  BY <1>2, <1>3 DEF PartInv
<1>5. \A f \in Factories \ created' : aggregate'[f] = {f} /\ f \notin disposed
  <2>1. TAKE f \in Factories \ created'
  <2>2. f \in Factories \ created /\ f \in Objects
    BY DEF Objects
  <2>3. aggregate[f] = {f} /\ f \notin disposed /\ f # x /\ f # y
    BY <2>2 DEF PartInv
  <2>4. f \notin aggregate[x] \cup aggregate[y]
    BY <2>2, <2>3 DEF PartInv, Partition
  <2> QED BY <2>2, <2>3, <2>4, <1>2
<1> QED BY <1>1, <1>2, <1>3, <1>4, <1>5 DEF PartInv

(* Aggregates only grow, and so do the frames that are live.               *)
LEMMA LiveGrows ==
  ASSUME disposed' = disposed, aggregate["rudp"] \subseteq aggregate'["rudp"]
  PROVE  LiveFrames \subseteq LiveFrames'
<1>1. Frames' = Frames
  BY DEF Frames
<1> QED BY <1>1 DEF LiveFrames

-------------------------------------------------------------------------------
(***************************************************************************)
(* One lemma per action.                                                   *)
(***************************************************************************)
LEMMA AggregationInit == Init => AggregationInv
<1> SUFFICES ASSUME Init
             PROVE  AggregationInv
  OBVIOUS
<1>1. PartInv
  BY DEF Init, PartInv, Partition, Objects
<1>2. ShapeInv
  BY DEF Init, ShapeInv, Shaped
<1>3. MadeInv
  BY NullDistinct DEF Init, MadeInv
<1>4. WireInv
  BY DEF Init, WireInv
<1>5. PromiseInv
  BY DEF Init, PromiseInv, Joins, IpLayers, Objects
<1> QED BY <1>1, <1>2, <1>3, <1>4, <1>5 DEF AggregationInv

(* The program stops: nothing else changes.                                *)
LEMMA CrashKeeps ==
  ASSUME AggregationInv, NEW why \in {"nullNode", "noRudp"}, Crash(why)
  PROVE  AggregationInv'
<1> USE DEF Crash, wiring, making
<1>1. PartInv'
  BY DEF AggregationInv, PartInv, Partition
<1>2. ShapeInv'
  BY DEF AggregationInv, ShapeInv, LiveFrames, Frames, Shaped
<1>3. MadeInv'
  BY DEF AggregationInv, MadeInv
<1>4. WireInv'
  BY DEF AggregationInv, WireInv
<1>5. PromiseInv'
  BY DEF PromiseInv, Joins
<1> QED BY <1>1, <1>2, <1>3, <1>4, <1>5 DEF AggregationInv

(* What a larger aggregate leaves of MadeInv and WireInv.                  *)
LEMMA GrowthKeepsMade ==
  ASSUME MadeInv, aggregate["rudp"] \subseteq aggregate'["rudp"],
         UNCHANGED <<m_node, m_rudp, created, disposed, socket, crash>>
  PROVE  MadeInv'
BY DEF MadeInv

LEMMA AggregateKeeps ==
  ASSUME AggregationInv, NEW x \in Objects, NEW y \in Objects,
         AggregateObject(x, y)
  PROVE  AggregationInv'
<1> DEFINE fr == Notifying(x, y)
<1>0. /\ stack = <<>> /\ crash = "none"
      /\ x \notin disposed /\ y \notin disposed
      /\ x \notin Factories \ created /\ y \notin Factories \ created
      /\ aggregate' = Joined(x, y) /\ stack' = <<fr>>
      /\ UNCHANGED <<m_node, m_downTarget, inserted, m_rudp, created, socket,
                     disposed, crash>>
  BY DEF AggregateObject, Idle, wiring, making
<1>1. /\ PartInv'
      /\ (aggregate[x] \cup aggregate[y]) \cap disposed = {}
      /\ \A o \in Objects : aggregate[o] \subseteq aggregate'[o]
  BY <1>0, JoinKeepsPart DEF AggregationInv, PartInv
<1>2. "rudp" \in Objects
  BY DEF Objects
<1>3. aggregate \in [Objects -> SUBSET Objects]
  BY DEF AggregationInv, PartInv, Partition
<1>4. /\ fr = [call |-> "AggregateObject", first |-> aggregate[x],
               second |-> aggregate[y]]
      /\ IsAggregating(fr) /\ ~IsNotified(fr)
  BY DEF Notifying, IsAggregating, IsNotified
<1>5. fr \in Frames
  BY <1>3, <1>4 DEF Frames
<1> HIDE DEF fr
<1>6. fr \in LiveFrames'
  BY <1>0, <1>1, <1>4, <1>5 DEF LiveFrames, Frames
<1>7. ShapeInv'
  BY <1>0, <1>4, <1>6, SingleFrame DEF ShapeInv
<1>8. MadeInv'
  BY <1>0, <1>1, <1>2, GrowthKeepsMade DEF AggregationInv
<1>9. WireInv'
  BY <1>0 DEF AggregationInv, WireInv
<1>10. PromiseInv'
  <2>1. SUFFICES ASSUME NEW v \in IpLayers, Joins(v)'
                 PROVE  /\ m_node' = "node" \/ NodeComing(v)'
                        /\ m_downTarget'[v] # Null \/ LayerComing(v)'
    BY DEF PromiseInv
  <2>2. FramesOf(stack') = {fr} /\ FramesOf(stack) = {}
    BY <1>0, <1>4, <1>6, SingleFrame
  <2>3. CASE "rudp" \in aggregate[x] \cup aggregate[y]
    BY <2>2, <2>3, <1>4 DEF NodeComing, LayerComing, Pending
  <2>4. CASE "rudp" \notin aggregate[x] \cup aggregate[y]
    <3>1. aggregate'["rudp"] = aggregate["rudp"]
      BY <2>4, <1>0, <1>2, JoinedGrows DEF AggregationInv, PartInv
    <3>2. Joins(v)
      BY <3>1, <2>1, <1>0 DEF Joins
    <3>3. m_node = "node" /\ m_downTarget[v] # Null
      BY <3>2, <2>2 DEF AggregationInv, PromiseInv, NodeComing, LayerComing, Pending
    <3> QED BY <3>3, <1>0
  <2> QED BY <2>3, <2>4
<1> QED BY <1>1, <1>7, <1>8, <1>9, <1>10 DEF AggregationInv

LEMMA AllNotifiedKeeps ==
  ASSUME AggregationInv, AllNotified
  PROVE  AggregationInv'
<1>0. /\ stack # <<>> /\ stack' = Tail(stack)
      /\ Head(stack).first \cup Head(stack).second = {}
      /\ IsAggregating(Head(stack))
      /\ UNCHANGED <<aggregate, m_node, m_downTarget, inserted, m_rudp, created,
                     socket, disposed, crash>>
  BY DEF AllNotified, wiring, making, IsAggregating
<1>1. PartInv'
  BY <1>0 DEF AggregationInv, PartInv, Partition
<1>2. stack \in Seq(LiveFrames) /\ Shaped(LiveFrames, stack, m_node)
  BY DEF AggregationInv, ShapeInv, Shaped
<1>3. ShapeInv'
  <2>1. Shaped(LiveFrames, stack', m_node)
    BY <1>0, <1>2, ShapedTail
  <2>2. LiveFrames' = LiveFrames
    BY <1>0 DEF LiveFrames, Frames
  <2> QED BY <2>1, <2>2, <1>0 DEF ShapeInv
<1>4. MadeInv'
  BY <1>0 DEF AggregationInv, MadeInv
<1>5. WireInv'
  BY <1>0 DEF AggregationInv, WireInv
<1>6. PromiseInv'
  <2>1. FramesOf(stack) = {Head(stack)} \cup FramesOf(stack')
    BY <1>0, <1>2, PopFrame
  <2>2. ~IsNotified(Head(stack))
    BY <1>0, FrameKinds
  <2>3. Pending => Pending'
    BY <2>1, <1>0 DEF Pending
  <2>4. \A v : /\ NodeComing(v) => NodeComing(v)'
               /\ LayerComing(v) => LayerComing(v)'
    BY <2>1, <2>2, <2>3 DEF NodeComing, LayerComing
  <2>5. \A v : Joins(v)' => Joins(v)
    BY <1>0 DEF Joins
  <2> QED BY <2>4, <2>5, <1>0 DEF AggregationInv, PromiseInv
<1> QED BY <1>1, <1>3, <1>4, <1>5, <1>6 DEF AggregationInv

(* A frame whose top is replaced.                                          *)
LEMMA ReplacedTop ==
  ASSUME NEW S, NEW st, NEW node, Shaped(S, st, node), st # <<>>, NEW fr \in S,
         \/ IsAggregating(Head(st)) /\ IsAggregating(fr)
         \/ IsNotified(Head(st)) /\ IsNotified(fr)
  PROVE  LET rest == <<fr>> \o Tail(st) IN
         /\ Shaped(S, rest, node) /\ rest \in Seq(S)
         /\ rest # <<>> /\ Head(rest) = fr /\ Len(rest) = Len(st)
         /\ FramesOf(rest) = {fr} \cup FramesOf(Tail(st))
         /\ FramesOf(st) = {Head(st)} \cup FramesOf(Tail(st))
         /\ Head(st) \in S
<1>1. st \in Seq(S)
  BY DEF Shaped
<1>2. /\ Tail(st) \in Seq(S) /\ Head(st) \in S
      /\ FramesOf(st) = {Head(st)} \cup FramesOf(Tail(st))
  BY <1>1, PopFrame
<1>3. Shaped(S, <<fr>> \o Tail(st), node)
  BY ShapedReplace
<1> DEFINE rest == <<fr>> \o Tail(st)
<1>6. Tail(st) \in Seq(S)
  BY <1>2
<1>4. /\ rest \in Seq(S) /\ rest # <<>> /\ Head(rest) = fr
      /\ FramesOf(rest) = {fr} \cup FramesOf(Tail(st))
  <2> DEFINE old == Tail(st)
  <2>1. old \in Seq(S)
    BY <1>6
  <2> HIDE DEF old
  <2>2. LET new == <<fr>> \o old IN
        /\ new \in Seq(S) /\ new # <<>> /\ Head(new) = fr
        /\ FramesOf(new) = {fr} \cup FramesOf(old)
    BY <2>1, PushFrame
  <2> QED BY <2>2 DEF old
<1> HIDE DEF rest
<1>5. Shaped(S, rest, node)
  BY <1>3 DEF rest
<1>7. Len(rest) = Len(st)
  <2>1. Len(rest) = Len(Tail(st)) + 1
    BY <1>6, PushFrame DEF rest
  <2>2. Len(st) \in Nat \ {0} /\ Len(Tail(st)) = Len(st) - 1
    BY <1>1, PopFrame
  <2> QED BY <2>1, <2>2
<1> QED BY <1>2, <1>4, <1>5, <1>7 DEF rest

LEMMA NotifyKeeps ==
  ASSUME AggregationInv, NEW o \in Objects, NotifyNext(o)
  PROVE  AggregationInv'
<1> DEFINE top == Head(stack)
           h == [top EXCEPT !.first = @ \ {o}, !.second = @ \ {o}]
           rest == <<h>> \o Tail(stack)
<1>1. CASE Crash("nullNode")
  BY <1>1, CrashKeeps
<1>2. ASSUME ~Crash("nullNode")
      PROVE  AggregationInv'
  <2>1. /\ stack # <<>> /\ IsAggregating(top)
        /\ o \in IF top.first # {} THEN top.first ELSE top.second
        /\ \/ o # "rudp" /\ stack' = rest
           \/ o = "rudp" /\ stack' = <<Entered>> \o rest
        /\ UNCHANGED <<aggregate, m_node, m_downTarget, inserted, m_rudp, created,
                       socket, disposed, crash>>
    BY <1>2 DEF NotifyNext, wiring, making, IsAggregating
  <2>2. Shaped(LiveFrames, stack, m_node)
    BY DEF AggregationInv, ShapeInv
  <2>3. top \in LiveFrames
    BY <2>1, <2>2, PopFrame DEF Shaped
  <2>4. /\ top \in [call : {"AggregateObject"}, first : SUBSET Objects,
                  second : SUBSET Objects]
        /\ (top.first \cup top.second) \cap disposed = {}
    BY <2>1, <2>3 DEF LiveFrames, Frames, IsAggregating
  <2> HIDE DEF top
  <2>5. /\ h \in [call : {"AggregateObject"}, first : SUBSET Objects,
                second : SUBSET Objects]
        /\ h.first = top.first \ {o} /\ h.second = top.second \ {o}
    BY <2>4
  <2> HIDE DEF h
  <2>6. h \in LiveFrames /\ IsAggregating(h) /\ ~IsNotified(h)
    <3>1. h.call = "AggregateObject"
      BY <2>5
    <3>2. IsAggregating(h) /\ ~IsNotified(h) /\ h \in Frames
      BY <3>1, <2>5 DEF Frames, IsAggregating, IsNotified
    <3>3. (h.first \cup h.second) \cap disposed = {}
      BY <2>4, <2>5
    <3> QED BY <3>2, <3>3 DEF LiveFrames
  <2>7. /\ Shaped(LiveFrames, rest, m_node) /\ rest \in Seq(LiveFrames)
        /\ rest # <<>> /\ Head(rest) = h
        /\ FramesOf(rest) = {h} \cup FramesOf(Tail(stack))
        /\ FramesOf(stack) = {top} \cup FramesOf(Tail(stack))
    BY <2>1, <2>2, <2>6, ReplacedTop DEF top
  <2> HIDE DEF rest
  <2>8. LiveFrames' = LiveFrames
    BY <2>1 DEF LiveFrames, Frames
  <2>9. PartInv' /\ MadeInv' /\ WireInv'
    BY <2>1 DEF AggregationInv, PartInv, Partition, MadeInv, WireInv
  <2>10. \A v \in IpLayers : Joins(v)' => Joins(v)
    BY <2>1 DEF Joins
  <2>11. ~IsNotified(top)
    BY <2>1, FrameKinds
  <2>12. CASE o # "rudp" /\ stack' = rest
    <3>1. ShapeInv'
      BY <2>12, <2>7, <2>8, <2>1 DEF ShapeInv
    <3>2. Pending => Pending'
      BY <2>12, <2>7, <2>5, <2>6 DEF Pending
    <3>3. \A v \in IpLayers : /\ NodeComing(v) => NodeComing(v)'
                              /\ LayerComing(v) => LayerComing(v)'
      BY <3>2, <2>12, <2>7, <2>11 DEF NodeComing, LayerComing
    <3>4. PromiseInv'
      BY <3>3, <2>10, <2>1 DEF AggregationInv, PromiseInv
    <3> QED BY <3>1, <3>4, <2>9 DEF AggregationInv
  <2>13. CASE o = "rudp" /\ stack' = <<Entered>> \o rest
    <3>1. "rudp" \notin disposed /\ aggregate["rudp"] \subseteq Objects
      BY <2>13, <2>1, <2>4 DEF AggregationInv, PartInv, Partition
    <3>2. /\ Entered.call = "NotifyNewAggregate" /\ Entered.at = "entry"
          /\ Entered.found = aggregate["rudp"] \ Factories
          /\ Entered \in Frames
      BY <3>1 DEF Entered, Frames
    <3>3. Entered \in LiveFrames /\ IsNotified(Entered)
      BY <3>1, <3>2 DEF LiveFrames, IsAggregating, IsNotified
    <3>4. Shaped(LiveFrames, stack', m_node)
      BY <3>3, <2>13, <2>6, <2>7, ShapedPush
    <3>5. ShapeInv'
      BY <3>4, <2>8, <2>1 DEF ShapeInv
    <3>6. FramesOf(stack') = {Entered} \cup FramesOf(rest)
      BY <3>3, <2>13, <2>7, PushFrame
    <3>7. ASSUME NEW v \in IpLayers, Joins(v)'
          PROVE  NodeComing(v)' /\ LayerComing(v)'
      <4>1. {"node", v} \subseteq Entered.found
        BY <3>2, <3>7, <2>1, FactoriesAssumption DEF Joins
      <4> QED BY <4>1, <3>2, <3>3, <3>6 DEF NodeComing, LayerComing
    <3>8. PromiseInv'
      BY <3>7 DEF PromiseInv
    <3> QED BY <3>5, <3>8, <2>9 DEF AggregationInv
  <2> QED BY <2>1, <2>12, <2>13
<1> QED BY <1>1, <1>2

LEMMA CompleteKeeps ==
  ASSUME AggregationInv, NEW f \in Factories, CompleteAggregation(f)
  PROVE  AggregationInv'
<1> DEFINE top == Head(stack)
           h == [top EXCEPT !.at = "wiring"]
           rest == <<h>> \o Tail(stack)
           fr == Notifying("node", f)
<1>1. /\ crash = "none" /\ stack # <<>> /\ IsNotified(top) /\ top.at = "entry"
      /\ UNCHANGED <<socket, disposed, m_downTarget, inserted>>
      /\ \/ /\ Completing(top.found) /\ f \notin created
            /\ m_node' = "node"
            /\ created' = created \cup {f}
            /\ m_rudp' = [m_rudp EXCEPT ![f] = "rudp"]
            /\ aggregate' = Joined("node", f)
            /\ stack' = <<fr>> \o rest
            /\ created = {} => crash' = crash
         \/ /\ ~Completing(top.found)
            /\ stack' = rest
            /\ UNCHANGED <<aggregate, m_node, m_rudp, created, crash>>
  BY DEF CompleteAggregation, wiring, IsNotified, NodeWhenNotified
<1>2. Shaped(LiveFrames, stack, m_node)
  BY DEF AggregationInv, ShapeInv
<1>3. top \in LiveFrames
  BY <1>1, <1>2, PopFrame DEF Shaped
<1>4. /\ top \in [call : {"NotifyNewAggregate"}, at : {"entry", "wiring"},
                found : SUBSET Objects]
      /\ "rudp" \notin disposed /\ top.found \subseteq aggregate["rudp"]
  BY <1>1, <1>3 DEF LiveFrames, Frames, IsNotified
<1>5. stack \in Seq(LiveFrames) /\ Len(stack) \in Nat
  BY <1>2 DEF Shaped
<1> HIDE DEF top
<1>6. /\ h \in [call : {"NotifyNewAggregate"}, at : {"entry", "wiring"},
              found : SUBSET Objects]
      /\ h.found = top.found
  BY <1>4
<1> HIDE DEF h
<1>7. h \in LiveFrames /\ IsNotified(h) /\ ~IsAggregating(h)
  <2>1. h.call = "NotifyNewAggregate"
    BY <1>6
  <2>2. IsNotified(h) /\ ~IsAggregating(h) /\ h \in Frames
    BY <2>1, <1>6 DEF Frames, IsNotified, IsAggregating
  <2> QED BY <2>2, <1>4, <1>6 DEF LiveFrames
<1>8. /\ Shaped(LiveFrames, rest, m_node) /\ rest \in Seq(LiveFrames)
      /\ rest # <<>> /\ Head(rest) = h /\ Len(rest) = Len(stack)
      /\ FramesOf(rest) = {h} \cup FramesOf(Tail(stack))
      /\ FramesOf(stack) = {top} \cup FramesOf(Tail(stack))
  BY <1>1, <1>2, <1>7, ReplacedTop DEF top
<1> HIDE DEF rest
<1>9. ~IsAggregating(top)
  BY <1>1, FrameKinds
<1>10. CASE /\ ~Completing(top.found)
            /\ stack' = rest
            /\ UNCHANGED <<aggregate, m_node, m_rudp, created, crash>>
  <2>1. PartInv' /\ MadeInv' /\ WireInv'
    BY <1>1, <1>10 DEF AggregationInv, PartInv, Partition, MadeInv, WireInv
  <2>2. LiveFrames' = LiveFrames
    BY <1>1, <1>10 DEF LiveFrames, Frames
  <2>3. ShapeInv'
    BY <1>8, <1>10, <2>2 DEF ShapeInv
  <2>4. Pending => Pending'
    BY <1>8, <1>9, <1>10 DEF Pending
  <2>5. ASSUME NEW v \in IpLayers, Joins(v)'
        PROVE  /\ m_node' = "node" \/ NodeComing(v)'
               /\ m_downTarget'[v] # Null \/ LayerComing(v)'
    <3>1. Joins(v)
      BY <2>5, <1>1, <1>10 DEF Joins
    <3>2. LayerComing(v) => LayerComing(v)'
      BY <2>4, <1>6, <1>7, <1>8, <1>10 DEF LayerComing
    <3>3. {"node", v} \subseteq top.found => m_node = "node"
      BY <1>10 DEF Completing, AggregationInv, MadeInv
    <3>4. NodeComing(v) => m_node = "node" \/ NodeComing(v)'
      BY <3>3, <2>4, <1>8, <1>10 DEF NodeComing
    <3> QED BY <3>1, <3>2, <3>4, <1>1, <1>10 DEF AggregationInv, PromiseInv
  <2>6. PromiseInv'
    BY <2>5 DEF PromiseInv
  <2> QED BY <2>1, <2>3, <2>6 DEF AggregationInv
<1>11. CASE /\ Completing(top.found) /\ f \notin created
            /\ m_node' = "node"
            /\ created' = created \cup {f}
            /\ m_rudp' = [m_rudp EXCEPT ![f] = "rudp"]
            /\ aggregate' = Joined("node", f)
            /\ stack' = <<fr>> \o rest
            /\ created = {} => crash' = crash
  <2>1. m_node = Null /\ m_node # "node" /\ "node" \in aggregate["rudp"]
    BY <1>4, <1>11, NullDistinct DEF Completing
  <2>2. created = {} /\ created' = {f} /\ crash' = "none"
    BY <2>1, <1>1, <1>4, <1>11 DEF AggregationInv, MadeInv
  <2>3. /\ "rudp" \in Objects /\ "node" \in Objects /\ f \in Objects
        /\ "node" \notin Factories
    BY FactoriesAssumption DEF Objects
  <2>4. aggregate["node"] = aggregate["rudp"] /\ "rudp" \in aggregate["node"]
    BY <2>1, <2>3 DEF AggregationInv, PartInv, Partition
  <2>5. "node" \notin disposed /\ f \notin disposed
    BY <2>4, <1>4, <1>11 DEF AggregationInv, PartInv
  <2>6. /\ PartInv'
        /\ (aggregate["node"] \cup aggregate[f]) \cap disposed = {}
        /\ \A o \in Objects : aggregate[o] \subseteq aggregate'[o]
    BY <2>2, <2>3, <2>5, <1>1, <1>11, JoinKeepsPart DEF AggregationInv, PartInv
  <2>7. f \in aggregate'["rudp"]
    BY <2>3, <2>4, <1>11, JoinedGrows DEF AggregationInv, PartInv, Partition
  <2>8. aggregate["node"] \subseteq Objects /\ aggregate[f] \subseteq Objects
    BY <2>3 DEF AggregationInv, PartInv, Partition
  <2>9. /\ fr = [call |-> "AggregateObject", first |-> aggregate["node"],
                 second |-> aggregate[f]]
        /\ IsAggregating(fr) /\ ~IsNotified(fr) /\ fr \in Frames
    BY <2>8 DEF Notifying, IsAggregating, IsNotified, Frames
  <2> HIDE DEF fr
  <2>10. fr \in LiveFrames'
    BY <2>6, <2>9, <1>1 DEF LiveFrames, Frames
  <2>11. LiveFrames \subseteq LiveFrames'
    BY <2>3, <2>6, <1>1, LiveGrows
  <2>12. FramesOf(rest) \subseteq LiveFrames
    BY <1>8 DEF FramesOf
  <2>13. Shaped(LiveFrames', rest, "node")
    BY <2>11, <2>12, <1>8, ShapedMore
  <2>14. Len(rest) < 4
    BY <2>1, <1>2, <1>5, <1>8 DEF Shaped
  <2>15. Shaped(LiveFrames', stack', "node")
    BY <2>9, <2>10, <2>13, <2>14, <1>7, <1>8, <1>11, ShapedPush
  <2>16. ShapeInv'
    BY <2>15, <1>11 DEF ShapeInv
  <2>17. MadeInv'
    <3>1. \A g \in Factories : m_rudp[g] # "rudp"
      BY <2>1 DEF AggregationInv, MadeInv
    <3>2. m_rudp' \in [Factories -> {"rudp", Null}] /\ m_rudp'[f] = "rudp"
      BY <1>11 DEF AggregationInv, MadeInv
    <3>3. \A g \in Factories : m_rudp'[g] = "rudp" => g = f
      BY <3>1, <1>11 DEF AggregationInv, MadeInv
    <3> QED BY <3>2, <3>3, <2>2, <2>7, <1>1, <1>4, <1>11
        DEF AggregationInv, MadeInv
  <2>18. WireInv'
    BY <1>1 DEF AggregationInv, WireInv
  <2>19. rest \in Seq(LiveFrames')
    BY <2>13 DEF Shaped
  <2>20. fr \in FramesOf(stack')
    BY <2>10, <2>19, <1>11, PushFrame
  <2>21. Pending'
    BY <2>4, <2>9, <2>20 DEF Pending
  <2>22. PromiseInv'
    BY <2>21 DEF PromiseInv, NodeComing, LayerComing
  <2> QED BY <2>6, <2>16, <2>17, <2>18, <2>22 DEF AggregationInv
<1> QED BY <1>1, <1>10, <1>11

LEMMA WireKeeps ==
  ASSUME AggregationInv, WireLayers
  PROVE  AggregationInv'
<1> DEFINE top == Head(stack)
<1>1. /\ crash = "none" /\ stack # <<>> /\ IsNotified(top) /\ top.at = "wiring"
      /\ stack' = Tail(stack)
      /\ inserted' = [v \in IpLayers |->
           IF v \in Unwired(top.found) THEN inserted[v] + 1 ELSE inserted[v]]
      /\ m_downTarget' = [v \in IpLayers |->
           IF v \in Unwired(top.found) THEN v ELSE m_downTarget[v]]
      /\ UNCHANGED <<aggregate, m_node, m_rudp, created, socket, disposed, crash>>
  BY DEF WireLayers, making, IsNotified
<1>2. Shaped(LiveFrames, stack, m_node) /\ stack \in Seq(LiveFrames)
  BY DEF AggregationInv, ShapeInv, Shaped
<1>3. top \in LiveFrames /\ FramesOf(stack) = {top} \cup FramesOf(stack')
  BY <1>1, <1>2, PopFrame
<1>4. "rudp" \notin disposed /\ ~IsAggregating(top)
  BY <1>1, <1>3, FrameKinds DEF LiveFrames
<1>5. LiveFrames' = LiveFrames
  BY <1>1 DEF LiveFrames, Frames
<1>6. ShapeInv'
  BY <1>1, <1>2, <1>5, ShapedTail DEF ShapeInv
<1> HIDE DEF top
<1>7. PartInv' /\ MadeInv'
  BY <1>1 DEF AggregationInv, PartInv, Partition, MadeInv
<1>8. WireInv'
  <2>1. \A v \in IpLayers : v \in Unwired(top.found) => inserted[v] = 0
    BY <1>4 DEF AggregationInv, WireInv, Unwired
  <2>2. inserted' \in [IpLayers -> {0, 1}]
    BY <2>1, <1>1 DEF AggregationInv, WireInv
  <2>3. m_downTarget' \in [IpLayers -> IpLayers \cup {"other", Null}]
    BY <1>1 DEF AggregationInv, WireInv
  <2>4. \A v \in IpLayers : v # Null
    BY NullDistinct
  <2>5. \A v \in IpLayers : inserted'[v] = 1 => m_downTarget'[v] # Null
    BY <2>4, <1>1, <1>4 DEF AggregationInv, WireInv
  <2> QED BY <2>2, <2>3, <2>5 DEF WireInv
<1>9. Pending => Pending'
  BY <1>3, <1>4 DEF Pending
<1>10. ASSUME NEW v \in IpLayers, Joins(v)'
       PROVE  /\ m_node' = "node" \/ NodeComing(v)'
              /\ m_downTarget'[v] # Null \/ LayerComing(v)'
  <2>1. Joins(v)
    BY <1>10, <1>1 DEF Joins
  <2>2. NodeComing(v) => NodeComing(v)'
    BY <1>1, <1>3, <1>9 DEF NodeComing
  <2>3. v # Null
    BY NullDistinct
  <2>4. v \in top.found => m_downTarget'[v] # Null
    BY <2>3, <1>1 DEF Unwired
  <2>5. m_downTarget[v] # Null => m_downTarget'[v] # Null
    BY <2>3, <1>1
  <2>6. LayerComing(v) => m_downTarget'[v] # Null \/ LayerComing(v)'
    BY <2>4, <1>3, <1>9 DEF LayerComing
  <2> QED BY <2>1, <2>2, <2>5, <2>6, <1>1 DEF AggregationInv, PromiseInv
<1>11. PromiseInv'
  BY <1>10 DEF PromiseInv
<1> QED BY <1>6, <1>7, <1>8, <1>11 DEF AggregationInv

LEMMA DisposeKeeps ==
  ASSUME AggregationInv, NEW o \in Objects, Dispose(o)
  PROVE  AggregationInv'
<1>1. /\ stack = <<>> /\ o \notin Factories \ created
      /\ disposed' = disposed \cup aggregate[o]
      /\ IF "rudp" \in aggregate[o]
         THEN m_node' = Null /\ m_downTarget' = [v \in IpLayers |-> Null]
         ELSE UNCHANGED <<m_node, m_downTarget>>
      /\ m_rudp' = [f \in Factories |-> IF f \in aggregate[o] THEN Null ELSE m_rudp[f]]
      /\ UNCHANGED <<aggregate, stack, inserted, created, socket, crash>>
  BY DEF Dispose, Idle, Protocols
<1>2. Partition(aggregate) /\ o \in aggregate[o] /\ aggregate[o] \subseteq Objects
  BY DEF AggregationInv, PartInv, Partition
<1>3. PartInv'
  <2>1. \A x \in disposed' : aggregate[x] \subseteq disposed'
    BY <1>1, <1>2 DEF AggregationInv, PartInv, Partition
  <2>2. \A f \in Factories \ created : aggregate[f] = {f} /\ f \notin disposed'
    <3>1. TAKE f \in Factories \ created
    <3>2. f \in Objects /\ aggregate[f] = {f} /\ f \notin disposed /\ f # o
      BY <1>1 DEF AggregationInv, PartInv, Objects
    <3>3. f \notin aggregate[o]
      BY <3>2, <1>2 DEF Partition
    <3> QED BY <3>2, <3>3, <1>1
  <2> QED BY <2>1, <2>2, <1>1, <1>2 DEF AggregationInv, PartInv
<1>4. ShapeInv'
  BY <1>1, ShapedEmpty DEF ShapeInv
<1>5. "rudp" \in Objects /\ Factories \subseteq Objects
  BY DEF Objects
<1>6. \A f \in Factories :
        f \in aggregate["rudp"] => ("rudp" \in aggregate[o] <=> f \in aggregate[o])
  BY <1>2, <1>5 DEF Partition
<1>7. MadeInv'
  <2>1. /\ m_node' \in {"node", Null}
        /\ m_rudp' \in [Factories -> {"rudp", Null}]
    BY <1>1 DEF AggregationInv, MadeInv
  <2>2. "rudp" \in disposed' => m_node' = Null
    BY <1>1, <1>2 DEF AggregationInv, MadeInv
  <2>3. created # {} => m_node' = "node" \/ "rudp" \in disposed'
    BY <1>1 DEF AggregationInv, MadeInv
  <2>4. m_node' = "node" => "rudp" \notin aggregate[o] /\ m_node = "node"
    BY <1>1, NullDistinct
  <2>5. m_node' = "node" =>
          \E f \in created : f \in aggregate["rudp"] /\ m_rudp'[f] = "rudp"
    BY <2>4, <1>1, <1>6 DEF AggregationInv, MadeInv, PartInv
  <2>6. \A f \in Factories : m_rudp'[f] = "rudp" =>
          m_node' = "node" /\ f \in aggregate["rudp"]
    BY <1>1, <1>6, NullDistinct DEF AggregationInv, MadeInv
  <2> QED BY <2>1, <2>2, <2>3, <2>5, <2>6, <1>1 DEF AggregationInv, MadeInv
<1>8. WireInv'
  BY <1>1 DEF AggregationInv, WireInv
<1>9. PromiseInv'
  <2>1. SUFFICES ASSUME NEW v \in IpLayers, Joins(v)'
                 PROVE  /\ m_node' = "node" \/ NodeComing(v)'
                        /\ m_downTarget'[v] # Null \/ LayerComing(v)'
    BY DEF PromiseInv
  <2>2. "rudp" \notin aggregate[o] /\ Joins(v)
    BY <2>1, <1>1 DEF Joins
  <2>3. FramesOf(stack) = {}
    BY <1>1 DEF FramesOf
  <2>4. m_node = "node" /\ m_downTarget[v] # Null
    BY <2>2, <2>3 DEF AggregationInv, PromiseInv, NodeComing, LayerComing, Pending
  <2> QED BY <2>2, <2>4, <1>1
<1> QED BY <1>3, <1>4, <1>7, <1>8, <1>9 DEF AggregationInv

LEMMA SetDownTargetKeeps ==
  ASSUME AggregationInv, NEW w \in IpLayers, SetDownTarget(w)
  PROVE  AggregationInv'
<1>1. /\ m_downTarget' = [m_downTarget EXCEPT ![w] = "other"]
      /\ UNCHANGED <<aggregate, stack, m_node, inserted, m_rudp, created, socket,
                     disposed, crash>>
  BY DEF SetDownTarget, making
<1>2. PartInv' /\ MadeInv'
  BY <1>1 DEF AggregationInv, PartInv, Partition, MadeInv
<1>3. ShapeInv'
  BY <1>1 DEF AggregationInv, ShapeInv, LiveFrames, Frames, Shaped
<1>4. /\ m_downTarget' \in [IpLayers -> IpLayers \cup {"other", Null}]
      /\ \A v \in IpLayers : m_downTarget[v] # Null => m_downTarget'[v] # Null
  BY <1>1, NullDistinct DEF AggregationInv, WireInv
<1>5. WireInv'
  BY <1>1, <1>4 DEF AggregationInv, WireInv
<1>6. PromiseInv'
  BY <1>1, <1>4
  DEF AggregationInv, PromiseInv, Joins, NodeComing, LayerComing, Pending, FramesOf
<1> QED BY <1>2, <1>3, <1>5, <1>6 DEF AggregationInv

LEMMA CreateSocketKeeps ==
  ASSUME AggregationInv, NEW maker \in Factories \cup {"rudp"},
         maker \in Factories => m_node = "node",
         CreateSocket(maker)
  PROVE  AggregationInv'
<1> USE DEF CreateSocket, wiring
<1>1. PartInv' /\ WireInv'
  BY DEF AggregationInv, PartInv, Partition, WireInv
<1>2. ShapeInv'
  BY DEF AggregationInv, ShapeInv, LiveFrames, Frames, Shaped
<1>3. MadeInv'
  BY DEF AggregationInv, MadeInv
<1>4. PromiseInv'
  BY DEF AggregationInv, PromiseInv, Joins, NodeComing, LayerComing, Pending, FramesOf
<1> QED BY <1>1, <1>2, <1>3, <1>4 DEF AggregationInv

(* A factory that leads to the protocol leads to one that has its node.    *)
LEMMA FactoryCreateSocketKeeps ==
  ASSUME AggregationInv, NEW f \in Factories, FactoryCreateSocket(f)
  PROVE  AggregationInv'
<1>1. CASE Crash("noRudp")
  BY <1>1, CrashKeeps
<1>2. ASSUME m_rudp[f] # Null, CreateSocket(f)
      PROVE  AggregationInv'
  <2>1. m_node = "node"
    BY <1>2 DEF AggregationInv, MadeInv
  <2> QED BY <1>2, <2>1, CreateSocketKeeps
<1> QED BY <1>1, <1>2 DEF FactoryCreateSocket

LEMMA CreateSocketDirectlyKeeps ==
  ASSUME AggregationInv, CreateSocketDirectly
  PROVE  AggregationInv'
<1>1. "rudp" \notin Factories
  BY FactoriesAssumption
<1> QED BY <1>1, CreateSocketKeeps DEF CreateSocketDirectly

LEMMA AggregationStep ==
  ASSUME AggregationInv, [Next]_vars
  PROVE  AggregationInv'
<1>1. CASE UNCHANGED vars
  <2> USE <1>1 DEF vars, wiring, making
  <2>1. PartInv' /\ MadeInv' /\ WireInv'
    BY DEF AggregationInv, PartInv, Partition, MadeInv, WireInv
  <2>2. ShapeInv'
    BY DEF AggregationInv, ShapeInv, LiveFrames, Frames, Shaped
  <2>3. PromiseInv'
    BY DEF AggregationInv, PromiseInv, Joins, NodeComing, LayerComing, Pending, FramesOf
  <2> QED BY <2>1, <2>2, <2>3 DEF AggregationInv
<1>2. ASSUME NEW x \in Objects, NEW y \in Objects, AggregateObject(x, y)
      PROVE  AggregationInv'
  BY <1>2, AggregateKeeps
<1>3. ASSUME NEW o \in Objects, NotifyNext(o) \/ Dispose(o)
      PROVE  AggregationInv'
  BY <1>3, NotifyKeeps, DisposeKeeps
<1>4. CASE AllNotified
  BY <1>4, AllNotifiedKeeps
<1>5. ASSUME NEW f \in Factories, CompleteAggregation(f) \/ FactoryCreateSocket(f)
      PROVE  AggregationInv'
  BY <1>5, CompleteKeeps, FactoryCreateSocketKeeps
<1>6. CASE WireLayers
  BY <1>6, WireKeeps
<1>7. ASSUME NEW v \in IpLayers, SetDownTarget(v)
      PROVE  AggregationInv'
  BY <1>7, SetDownTargetKeeps
<1>8. CASE CreateSocketDirectly
  BY <1>8, CreateSocketDirectlyKeeps
<1> QED BY <1>1, <1>2, <1>3, <1>4, <1>5, <1>6, <1>7, <1>8 DEF Next

LEMMA AggregationInvariance == Spec => []AggregationInv
BY AggregationInit, AggregationStep, PTL DEF Spec

-------------------------------------------------------------------------------
(***************************************************************************)
(* Theorems.                                                               *)
(***************************************************************************)
(* Every variable stays in its type, and calls nest at most four deep      *)
(* (rudp-l4-protocol.cc:89-124).                                           *)
THEOREM TypeCorrect == Spec => []TypeOK
<1>1. AggregationInv => TypeOK
  <2> SUFFICES ASSUME AggregationInv
               PROVE  TypeOK
    OBVIOUS
  <2>1. stack \in Seq(Frames) /\ Len(stack) <= 4
    <3>1. stack \in Seq(LiveFrames) /\ Len(stack) <= 4
      BY DEF AggregationInv, ShapeInv, Shaped
    <3>2. LiveFrames \subseteq Frames
      BY DEF LiveFrames
    <3> QED BY <3>1, <3>2
  <2>2. /\ aggregate \in [Objects -> SUBSET Objects]
        /\ \A o \in Objects : o \in aggregate[o]
             /\ \A x \in aggregate[o] : aggregate[x] = aggregate[o]
        /\ created \subseteq Factories /\ disposed \subseteq Objects
    BY DEF AggregationInv, PartInv, Partition
  <2>3. /\ m_node \in {"node", Null}
        /\ m_rudp \in [Factories -> {"rudp", Null}]
        /\ socket \in [maker : Factories \cup {"rudp", Null}, node : {"node", Null}]
        /\ crash \in {"none", "nullNode", "duplicate", "noRudp"}
    BY DEF AggregationInv, MadeInv
  <2>4. /\ m_downTarget \in [IpLayers -> IpLayers \cup {"other", Null}]
        /\ inserted \in [IpLayers -> Nat]
    BY DEF AggregationInv, WireInv
  <2> QED BY <2>1, <2>2, <2>3, <2>4 DEF TypeOK
<1> QED BY <1>1, AggregationInvariance, PTL

(* One factory is made, whatever joins the aggregate in whatever order and *)
(* however deep the notifications nest (rudp-l4-protocol.cc:97-106).       *)
THEOREM MakesOneFactory == Spec => []OneFactory
<1>1. AggregationInv => OneFactory
  <2> SUFFICES ASSUME AggregationInv
               PROVE  OneFactory
    OBVIOUS
  <2>1. crash # "duplicate" /\ \A f, g \in created : f = g
    BY DEF AggregationInv, MadeInv
  <2>2. Cardinality(created) <= 1
    <3>1. CASE created = {}
      BY <3>1, FS_EmptySet
    <3>2. ASSUME NEW f \in created
          PROVE  Cardinality(created) <= 1
      <4>1. created = {f}
        BY <2>1
      <4> QED BY <4>1, FS_Singleton
    <3> QED BY <3>1, <3>2
  <2> QED BY <2>1, <2>2 DEF OneFactory
<1> QED BY <1>1, AggregationInvariance, PTL

(* A layer is given the protocol at most once (rudp-l4-protocol.cc:93-122).*)
THEOREM InsertsOnce == Spec => []InsertedOnce
<1>1. AggregationInv => InsertedOnce
  BY DEF AggregationInv, WireInv, InsertedOnce
<1> QED BY <1>1, AggregationInvariance, PTL

(* When the calls are over and the aggregate has a node and an IP layer,   *)
(* the protocol knows its node, has a factory that leads back to it, and   *)
(* can send by that layer (rudp-l4-protocol.cc:84-122).                    *)
THEOREM EndsUpWired == Spec => []WiredWhenComplete
<1>1. AggregationInv => WiredWhenComplete
  <2> SUFFICES ASSUME AggregationInv, NEW v \in IpLayers, Complete(v)
               PROVE  /\ m_node = "node"
                      /\ \E f \in created : f \in aggregate["rudp"] /\ m_rudp[f] = "rudp"
                      /\ m_downTarget[v] # Null
    BY DEF WiredWhenComplete
  <2>1. FramesOf(stack) = {} /\ Joins(v)
    BY DEF Complete, FramesOf, Joins
  <2>2. m_node = "node" /\ m_downTarget[v] # Null
    BY <2>1 DEF AggregationInv, PromiseInv, NodeComing, LayerComing, Pending
  <2> QED BY <2>2 DEF AggregationInv, MadeInv
<1> QED BY <1>1, AggregationInvariance, PTL

(* Whatever was aggregated and disposed of, and whatever sockets the       *)
(* protocol was asked for directly, with a node or without: a socket made  *)
(* by a factory has its node (rudp-socket-factory-impl.cc:42-46,           *)
(* rudp-l4-protocol.cc:133-171).                                           *)
THEOREM FactorySocketsHaveTheirNode == Spec => []SocketsKnowTheirNode
<1>1. AggregationInv => SocketsKnowTheirNode
  BY DEF AggregationInv, MadeInv, SocketsKnowTheirNode
<1> QED BY <1>1, AggregationInvariance, PTL

=============================================================================
