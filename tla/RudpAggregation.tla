--------------------------- MODULE RudpAggregation ---------------------------
(***************************************************************************)
(* How RudpL4Protocol finds its node, its IP layers and its factory: ns-3  *)
(* objects are aggregated to each other in any order, and each time the    *)
(* aggregate of the protocol grows NotifyNewAggregate looks at what is     *)
(* there now.  It aggregates a factory itself, and so is entered again     *)
(* before it has come to its end: the calls under way are a stack.         *)
(***************************************************************************)
EXTENDS Naturals, FiniteSets, Sequences

CONSTANTS
  Factories,   \* RudpSocketFactoryImpl objects that may be created
  Null         \* a null pointer or callback

IpLayers == {"v4", "v6"}
Objects == {"rudp", "node"} \cup IpLayers \cup Factories

ASSUME FactoriesAssumption == Factories \cap ({"rudp", "node"} \cup IpLayers) = {}
ASSUME NullAssumption == Null \notin Objects \cup {"other"}

VARIABLES
  aggregate,      \* of each object, the objects aggregated to it, and itself
  stack,          \* the calls under way, the innermost first
  m_node,
  m_downTarget,   \* m_downTarget and m_downTarget6: a layer's Send, or another's
  inserted,       \* how often each layer was given the protocol by Insert
  m_rudp,         \* of each factory
  created,        \* the factories created
  disposed,       \* the objects disposed of
  socket,         \* the socket created last: whom it was asked of, its node
  crash           \* "none", or why the program stopped

wiring == <<m_node, m_downTarget, inserted>>
making == <<m_rudp, created, socket>>
vars == <<aggregate, stack, wiring, making, disposed, crash>>

Init ==
  /\ aggregate = [o \in Objects |-> {o}]
  /\ stack = <<>>
  /\ m_node = Null
  /\ m_downTarget = [v \in IpLayers |-> Null]
  /\ inserted = [v \in IpLayers |-> 0]
  /\ m_rudp = [f \in Factories |-> Null]
  /\ created = {}
  /\ disposed = {}
  /\ socket = [maker |-> Null, node |-> Null]
  /\ crash = "none"

Idle == stack = <<>> /\ crash = "none"

Crash(why) ==
  /\ crash' = why
  /\ UNCHANGED <<aggregate, stack, wiring, making, disposed>>

-------------------------------------------------------------------------------
(***************************************************************************)
(* External: ns3::Object.  AggregateObject joins two aggregates and then   *)
(* notifies every object of the first and every object of the second; it   *)
(* is fatal to aggregate an object of a type that is there already.        *)
(***************************************************************************)
Joined(x, y) ==
  [o \in Objects |-> IF o \in aggregate[x] \cup aggregate[y]
                     THEN aggregate[x] \cup aggregate[y]
                     ELSE aggregate[o]]

Notifying(x, y) == [call |-> "AggregateObject",
                    first |-> aggregate[x], second |-> aggregate[y]]

(* The application aggregates two objects, or a helper does.               *)
AggregateObject(x, y) ==
  /\ Idle
  /\ {x, y} \cap (disposed \cup (Factories \ created)) = {}
  /\ y \notin aggregate[x]
  /\ aggregate' = Joined(x, y)
  /\ stack' = <<Notifying(x, y)>>
  /\ UNCHANGED <<wiring, making, disposed, crash>>

AllNotified ==
  /\ crash = "none" /\ stack # <<>>
  /\ Head(stack).call = "AggregateObject"
  /\ Head(stack).first \cup Head(stack).second = {}
  /\ stack' = Tail(stack)
  /\ UNCHANGED <<aggregate, wiring, making, disposed, crash>>

(* Mutant of Protocols: DoDispose of the factory keeps its protocol.        *)
ProtocolsKept(o) == m_rudp

(* What the factories lead to once the aggregate of o is disposed of.      *)
Protocols(o) == [f \in Factories |-> IF f \in aggregate[o] THEN Null ELSE m_rudp[f]]

Dispose(o) ==
  /\ Idle
  /\ o \notin disposed \cup (Factories \ created)
  /\ disposed' = disposed \cup aggregate[o]
  /\ IF "rudp" \in aggregate[o]
     THEN /\ m_node' = Null
          /\ m_downTarget' = [v \in IpLayers |-> Null]
     ELSE UNCHANGED <<m_node, m_downTarget>>
  /\ m_rudp' = Protocols(o)
  /\ UNCHANGED <<aggregate, stack, inserted, created, socket, crash>>

-------------------------------------------------------------------------------
(***************************************************************************)
(* RudpL4Protocol::NotifyNewAggregate.                                     *)
(***************************************************************************)
(* What GetObject finds when the handler starts.                           *)
Entered ==
  [call |-> "NotifyNewAggregate", at |-> "entry",
   found |-> aggregate["rudp"] \ Factories]

(* The next object is notified; the handlers of the others are not this    *)
(* program's and do nothing to it.  Without a node in the aggregate the    *)
(* handler asks a null pointer for the node's Ipv6.                        *)
NotifyNext(o) ==
  /\ crash = "none" /\ stack # <<>>
  /\ Head(stack).call = "AggregateObject"
  /\ LET top == Head(stack)
         rest == <<[top EXCEPT !.first = @ \ {o}, !.second = @ \ {o}]>>
                   \o Tail(stack)
     IN  /\ o \in IF top.first # {} THEN top.first ELSE top.second
         /\ \/ /\ o # "rudp"
               /\ stack' = rest
               /\ UNCHANGED <<aggregate, wiring, making, disposed, crash>>
            \/ /\ o = "rudp" /\ "node" \in aggregate["rudp"]
               /\ stack' = <<Entered>> \o rest
               /\ UNCHANGED <<aggregate, wiring, making, disposed, crash>>
            \/ /\ o = "rudp" /\ "node" \notin aggregate["rudp"]
               /\ Crash("nullNode")

(* Mutant of Completing: a node with IPv6 only not thought of.             *)
CompletingV4Only(found) == m_node = Null /\ {"node", "v4"} \subseteq found

Completing(found) ==
  m_node = Null /\ "node" \in found /\ found \cap IpLayers # {}

(* Mutant of NodeWhenNotified: SetNode after the aggregation.              *)
NodeNotYet == m_node

(* SetNode comes before the factory is aggregated.                         *)
NodeWhenNotified == "node"

(* The first part of the handler, up to the nested aggregation.            *)
CompleteAggregation(f) ==
  /\ crash = "none" /\ stack # <<>>
  /\ LET top == Head(stack)
         rest == <<[top EXCEPT !.at = "wiring"]>> \o Tail(stack)
     IN  /\ top.call = "NotifyNewAggregate" /\ top.at = "entry"
         /\ \/ /\ Completing(top.found)
               /\ f \notin created
               /\ m_node' = NodeWhenNotified
               /\ created' = created \cup {f}
               /\ m_rudp' = [m_rudp EXCEPT ![f] = "rudp"]
               /\ aggregate' = Joined("node", f)
               /\ stack' = <<Notifying("node", f)>> \o rest
               /\ crash' = IF created \cap aggregate["node"] = {}
                           THEN crash
                           ELSE "duplicate"
               /\ UNCHANGED <<m_downTarget, inserted>>
            \/ /\ ~Completing(top.found)
               /\ stack' = rest
               /\ UNCHANGED <<aggregate, wiring, m_rudp, created, crash>>
  /\ UNCHANGED <<socket, disposed>>

(* Mutant of Unwired: the null test of the down target left out.           *)
AlwaysUnwired(found) == found \cap IpLayers

Unwired(found) == {v \in found \cap IpLayers : m_downTarget[v] = Null}

(* The second part: the layers found at the start, as the nested           *)
(* notification may have left them.                                        *)
WireLayers ==
  /\ crash = "none" /\ stack # <<>>
  /\ LET top == Head(stack)
     IN  /\ top.call = "NotifyNewAggregate" /\ top.at = "wiring"
         /\ inserted' = [v \in IpLayers |->
              IF v \in Unwired(top.found) THEN inserted[v] + 1 ELSE inserted[v]]
         /\ m_downTarget' = [v \in IpLayers |->
              IF v \in Unwired(top.found) THEN v ELSE m_downTarget[v]]
  /\ stack' = Tail(stack)
  /\ UNCHANGED <<aggregate, m_node, making, disposed, crash>>

-------------------------------------------------------------------------------
(* SetDownTarget and SetDownTarget6 with a callback of someone else's.     *)
SetDownTarget(v) ==
  /\ Idle
  /\ "rudp" \notin disposed
  /\ m_downTarget' = [m_downTarget EXCEPT ![v] = "other"]
  /\ UNCHANGED <<aggregate, stack, m_node, inserted, making, disposed, crash>>

(* RudpL4Protocol::CreateSocket, asked by maker: the socket gets the node  *)
(* the protocol has, null before there is one and once it is disposed of.  *)
CreateSocket(maker) ==
  /\ socket' = [maker |-> maker, node |-> m_node]
  /\ UNCHANGED <<aggregate, stack, wiring, m_rudp, created, disposed, crash>>

(* The application asks the protocol itself, wired or not.                 *)
CreateSocketDirectly == Idle /\ CreateSocket("rudp")

(* A factory asks its protocol; one disposed of has no protocol any more.  *)
FactoryCreateSocket(f) ==
  /\ Idle
  /\ f \in created
  /\ \/ m_rudp[f] = Null /\ Crash("noRudp")
     \/ m_rudp[f] # Null /\ CreateSocket(f)

Next ==
  \/ \E x, y \in Objects : AggregateObject(x, y)
  \/ \E o \in Objects : NotifyNext(o) \/ Dispose(o)
  \/ AllNotified
  \/ \E f \in Factories : CompleteAggregation(f) \/ FactoryCreateSocket(f)
  \/ CreateSocketDirectly
  \/ WireLayers
  \/ \E v \in IpLayers : SetDownTarget(v)

Spec == Init /\ [][Next]_vars

-------------------------------------------------------------------------------
(***************************************************************************)
(* Properties.                                                             *)
(***************************************************************************)
Frames ==
  [call : {"AggregateObject"}, first : SUBSET Objects, second : SUBSET Objects]
    \cup [call : {"NotifyNewAggregate"}, at : {"entry", "wiring"},
          found : SUBSET Objects]

(* Every variable stays in its type: aggregates partition the objects, and *)
(* NotifyNewAggregate is under way at most twice                           *)
(* (rudp-l4-protocol.cc:89-124).                                           *)
TypeOK ==
  /\ aggregate \in [Objects -> SUBSET Objects]
  /\ \A o \in Objects : o \in aggregate[o]
       /\ \A x \in aggregate[o] : aggregate[x] = aggregate[o]
  /\ stack \in Seq(Frames) /\ Len(stack) <= 4
  /\ m_node \in {"node", Null}
  /\ m_downTarget \in [IpLayers -> IpLayers \cup {"other", Null}]
  /\ inserted \in [IpLayers -> Nat]
  /\ m_rudp \in [Factories -> {"rudp", Null}]
  /\ created \subseteq Factories
  /\ disposed \subseteq Objects
  /\ socket \in [maker : Factories \cup {"rudp", Null}, node : {"node", Null}]
  /\ crash \in {"none", "nullNode", "duplicate", "noRudp"}

Complete(v) ==
  /\ stack = <<>> /\ crash = "none" /\ "rudp" \notin disposed
  /\ {"node", v} \subseteq aggregate["rudp"]

(* One factory is made, whatever joins the aggregate in whatever order and *)
(* however deep the notifications nest: a second one would be a fatal      *)
(* aggregation of its type (rudp-l4-protocol.cc:97-106).                   *)
OneFactory == Cardinality(created) <= 1 /\ crash # "duplicate"

(* A layer is given the protocol at most once: the outer notification goes *)
(* on after the nested one has already inserted it, with the layers it     *)
(* found before (rudp-l4-protocol.cc:93-122).                              *)
InsertedOnce == \A v \in IpLayers : inserted[v] <= 1

(* "completes the aggregation by setting the node in the rudp stack and    *)
(* link it to the ipv4 object present in the node along with the socket    *)
(* factory" (rudp-l4-protocol.cc:84-88): when the calls are over and the   *)
(* aggregate has a node and an IP layer, the protocol knows its node, its  *)
(* factory is there and leads back to it, and it can send by that layer.   *)
WiredWhenComplete ==
  \A v \in IpLayers : Complete(v) =>
    /\ m_node = "node"
    /\ \E f \in created : f \in aggregate["rudp"] /\ m_rudp[f] = "rudp"
    /\ m_downTarget[v] # Null

(* A factory that still leads to a protocol leads to one that knows its    *)
(* node, whatever was aggregated and disposed of before: a socket it makes *)
(* has a node.  One the protocol was asked for directly need not have one: *)
(* CreateSocket does not look at m_node (rudp-socket-factory-impl.cc:42-46,*)
(* rudp-l4-protocol.cc:133-171).                                           *)
SocketsKnowTheirNode == socket.maker \in Factories => socket.node = "node"

===============================================================================
