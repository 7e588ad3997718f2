# RUDP for ns-3: a TLA+ model, its checks and its proofs

The repository is a transport protocol for the ns-3 simulator, made from ns-3's UDP:
sockets, a protocol object per node that owns the tables of end points, a header with
sequence and message numbers, and the factories applications use. The header has the fields
of a reliable protocol, but no code sends acknowledgements, retransmits or reorders: what
runs is a datagram service. The sources do not compile as they stand (for example
`rudp-header.cc:35`, `rudp-header.cc:202`, `rudp-socket-impl.cc:82`); the model takes each
handler for what it plainly says.

## Inventory

| Component | State | Operations | Talks to | Module |
|---|---|---|---|---|
| `RudpSocketImpl`, receive side | `m_deliveryQueue`, `m_rxAvailable`, `m_rcvBufSize`, `m_shutdownRecv`, `m_errno` | `ForwardUp`, `ForwardUp6`, `Recv`, `RecvFrom`, `GetRxAvailable`, `SetRcvBufSize`, `ShutdownRecv` | called by end points; tells the application through `NotifyDataRecv` and the drop trace | `RudpSocketRx` |
| `RudpSocketImpl`, the rest | `m_endPoint`, `m_endPoint6`, `m_shutdownSend`, `m_connected`, `m_defaultAddress`, `m_mtuDiscover`, the bound device | `Bind`, `Bind6`, `Bind(address)`, `FinishBind`, `BindToNetDevice`, `ShutdownSend`, `Close`, `Connect`, `Listen`, `Send`, `SendTo`, `DoSendTo`, `GetPeerName`, `GetSockName`, `SetMtuDiscover`, `Destroy`, `Destroy6`, `ForwardIcmp`, the destructor | takes end points from `RudpL4Protocol` and gives them back; asks the IP layer for routes; sends through `RudpL4Protocol::Send` | `RudpSocketImpl` |
| `RudpL4Protocol` on its node | the two demultiplexers, `m_sockets` | `Allocate*`, `DeAllocate`, `Receive` (IPv4, IPv6), `ReceiveIcmp`, `Send`, `CreateSocket`, `DoDispose` | the IP layers below, end points and sockets above | `RudpL4Protocol` |
| `RudpL4Protocol`, aggregation | `m_node`, the two down targets | `NotifyNewAggregate`, `SetNode`, `SetDownTarget`, `SetDownTarget6`, and the node `CreateSocket` hands on | the ns-3 objects it is aggregated to | `RudpAggregation` |
| `RudpHeader` | ports, payload size, sequence and message numbers, flags | constructor, setters, `ForcePayloadSize`, `Serialize`, `Deserialize` | added by `Send`, removed by `Receive` | `RudpHeader` |
| `RudpSocket` | none | declares the attributes | base class | with the sockets |
| `RudpSocketFactory`, `RudpSocketFactoryImpl` | `m_rudp` | `SetRudp`, `CreateSocket`, `DoDispose` | forwards to `RudpL4Protocol` | `RudpAggregation` |
| ns-3 end points, demultiplexers, IP layers, `Object` | external | | modelled from how the code uses them | in the modules above |

What makes each of them correct:

- **Receive side**: the byte counter equals what is queued; datagrams are delivered in
  order, each once, or dropped visibly and only when they do not fit.
- **Binding and closing**: pointers never dangle and are never shared; ports are given back;
  the callbacks of an end point lead to the socket that holds it.
- **Sending**: nothing leaves a socket shut for sending; a datagram leaves from an end point
  the sender holds, through a layer the node has, in a size that layer takes, with the DF
  flag the attribute asks for.
- **Protocol**: a port that is open answers; every matching socket hears of a datagram,
  whatever the application does in the callbacks; an ICMP error finds the socket it is
  about, and an answer the one it answers; disposal frees the sockets and leaves none with
  an end point.
- **Aggregation**: in whatever order objects are aggregated, one factory is made, a layer is
  given the protocol once, and the protocol ends up able to send.
- **Header**: what `Deserialize` reads is what was set.

What is hard here. The simulator is single threaded and a handler runs to completion, so
there are no data races. The hard behaviour lies in **long sequences of legal calls** (bind,
rebind, close, send after close), in **state two objects keep about each other** (sockets
point to end points, end points call back into sockets), in **resources at their limit**
(ephemeral ports, the receive buffer, integer widths) and in **callbacks** that re-enter the
code from inside a handler (`NotifyDataRecv` inside the loop of `Receive`,
`NotifyNewAggregate` inside itself). `PROJECT.json` lists every hazard at its line. There
are no timers, nothing is persisted and nothing is retransmitted, so there are no timeouts
or crash recovery to model.

## Modules

| Module | What it is |
|---|---|
| `DatagramBytes` | `Bytes(q)`: the bytes in a queue, found by walking it |
| `DatagramBuffer` | abstract specification: a FIFO of datagrams per socket, bounded in bytes, with no counter |
| `RudpSocketRx` | the receive side as the code has it, with the counter in `uint32_t` arithmetic |
| `EndPointTable` | abstract specification: who has which port; one passes from one owner to another only through being free |
| `RudpSocketImpl` | the whole socket, the end point tables and what goes down to IP; composes `RudpSocketRx` |
| `RudpL4Protocol` | the node: sockets created, let go and destroyed, the loop of `Receive`, ICMP, disposal; extends `RudpSocketImpl` |
| `RudpAggregation` | `NotifyNewAggregate` and the factory, among the other objects of a node |
| `RudpHeader` | the header, bit by bit |
| `MCRudpSocketRx`, `MCRudpSocketImpl`, `MCRudpL4Protocol`, `MCRudpAggregation`, `MCRudpHeader` | TLC instances |
| `DatagramBytes_proofs`, `RudpSocketRx_proofs`, `RudpSocketImpl_proofs`, `RudpL4Protocol_proofs`, `RudpAggregation_proofs`, `RudpHeader_proofs` | theorems and proofs |

How they depend on each other: `RudpSocketRx` implements `DatagramBuffer`, `RudpSocketImpl`
implements `RudpSocketRx` (its `ReceiveSide`) and `EndPointTable` (its
`EndPointsChangeHands`), and a node of `RudpL4Protocol` implements
`RudpSocketImpl` (theorem `NodeImplementsSockets`). `RudpAggregation` and `RudpHeader` share
no variable with them: aggregation is over before traffic begins, and of the header the
node's behaviour depends on the ports only, which `FirstWordSurvives` shows to arrive.

### `RudpSocketRx`

The variables are the fields of the same name, one entry per socket, and `rxOut`: what the
last receive handler told the outside (data callback, drop trace, packet or null returned).
`ForwardUp` is both `ForwardUp` and `ForwardUp6`, which differ in tags only: ignored when
reading is shut, queued when it `Fits`, dropped otherwise. `Fits` and `Released` compute
modulo `Word`, which is 2^32 in the code. `Recv` has its three outcomes; note that a first
packet larger than `maxSize` stays where it is and leaves `m_errno` alone. `SetRcvBufSize`
may put the limit below what is queued. `StopReceiving` is what `ShutdownRecv` and `Close`
do to this side. `OtherCall` stands for the calls of the rest of the socket, which only set
`m_errno`. The source address `RecvFrom` reports travels as a tag on the packet and is part
of the datagram.

### `RudpSocketImpl`

`demux` is the content of both demultiplexers: a function from the end points allocated
(family, local address, local port) to their callbacks, their enabled flag and whether they
are restricted to a device. `m_endPoint[s]` holds `m_endPoint` and `m_endPoint6`. `dfTag` is
the don't-fragment tag on each of the application's packet objects. `sent` is the datagram
the last step handed down, `NoDatagram` if it sent none, and `status` says whether the
program runs, is being or was disposed of, or ended in an assertion (`"notBound"`) or a null
pointer (`"noStack"`).

Each public call is one action, made of the calls it makes:

- `Bind(s, f)` is `Bind` or `Bind6`; `TakeEndPoint` overwrites the pointer with what
  `Allocate` returned and runs `FinishBind` (`Hooked`), which hooks *every* end point held.
  `Allocate` may return null.
- `BindAddress` also sets the errno of a failed allocation. The two assertions at its entry
  are preconditions and appear as a guard; the IPv6 one tests the IPv4 pointer, as in the
  code. `Rebinds` says with which calls the application binds bound sockets again.
- `BindToNetDevice` binds both families and restricts both end points, with its early return
  and its assertions.
- `Close` refuses a socket shut both ways before it gives anything back;
  `DeallocateEndPoint` removes the end points without calling back.
- `DoSendTo` is both `DoSendTo` methods: bind if necessary, *then* refuse (`Refusals`), tag,
  and hand down (`Transmit`), where the route may be missing. `Send` and `SendTo` are the
  two ways in; `Send`'s own binding is never reached, since `Connect` keeps an address
  without its port, which neither of the two type tests matches.
- `DoDispose` begins the disposal; `DeleteEndPoint` deletes one end point of a table and runs
  its destroy callback, the IPv4 table before the IPv6 one; `EndDispose` ends it.
- `Recv`, `SetRcvBufSize`, `ShutdownRecv`, `Close` and `EndPointForwardUp` use the actions
  of `RudpSocketRx`; the property `ReceiveSide` says that the whole module implements it.
- `OwnerOf(k)`, the socket an end point delivers to, is the owner of the abstract table; one
  call may take two slots (`BindToNetDevice`) or give back two (`Close`).

A handler of the socket is one step: its callbacks into the application come after its last
use of the socket's state, so what the application does in them is a later step. The two
handlers that do go on after a callback, `RudpL4Protocol::Receive` and `DoDispose`, are
several steps.

### `RudpL4Protocol`

Extends `RudpSocketImpl`; its actions use that module's and say what becomes of the node's
own variables. `Calls` lists the calls an instance makes.

- **Receiving.** `Receive(d)` is both `Receive` up to the loop: checksum, `Lookup`, the
  fallback of an IPv4 datagram to the IPv6 end points (`AsMapped`: mapped addresses, a null
  interface, a checksum that no longer agrees and is not looked at), and the result,
  `rxStatus`. `todo` is the list of end points found. `ForwardNext(k)` is one turn of the
  loop: `EndPointForwardUp`, and if the datagram was accepted, `NotifyDataRecv`: the
  application runs (`callback` is the socket it was called for) and may make any call on any
  socket until `CallbackReturn`. An end point deleted meanwhile goes to `freed`; a turn of
  the loop that follows one sets `crash` to `"freed"`. A turn that asks a null interface for
  its device sets it to `"nullInterface"`. Matches are visited in any order, since the list's
  order is that of the tables.
- **Sockets.** `CreateSocket`, and `Release` for the application dropping its pointer. A
  socket is `Referenced` while it is in `m_sockets`, the application has it, its callback
  runs or an end point's callbacks lead to it; otherwise `Destruct` runs before anything
  else (`Settled`), and sets `crash` to `"destructor"` if it finds an end point.
- **ICMP.** A datagram sent may be `inFlight`; `ReceiveIcmp` looks up the port it quotes
  (`SimpleLookup`) and tells the socket of that end point, recorded in `icmpTo`. Answers to
  what is `inFlight` are the property `AnswersFindSender`.
- **Disposal.** `DisposeOfProtocol` clears `m_sockets` and begins; `DisposeStep`s delete the
  end points one by one, so destructors run between them as the last pointers go.

What is external and assumed: an end point's `ForwardUp` calls the socket directly, within
the loop; `DoDispose` runs between events; a lookup skips end points disabled or tied to
another device, prefers an exact address to the wildcard, and finds all for a group;
`checksumOk` stands for the header's checksum calls.

### `RudpAggregation`

`aggregate` is the partition of the objects (protocol, node, two IP layers, factories) into
aggregates. `AggregateObject` joins two and leaves a frame on `stack`, from which
`NotifyNext` notifies the members one by one, in any order; the protocol's own
`NotifyNewAggregate` is a frame in two parts: `CompleteAggregation` (the tests, `SetNode`,
the new factory and its nested aggregation, which pushes further frames) and `WireLayers`,
which goes on, after the nested notifications, with the layers found at entry. `Dispose`
resets what the `DoDispose` of protocol and factory reset; an object disposed of is not
aggregated again. `CreateSocket` is the protocol's, which hands on whatever `m_node` is; it is
asked by a factory (`FactoryCreateSocket`) or, since it is public, by the application itself at
any time (`CreateSocketDirectly`), before there is a node and after disposal too. `socket`
records who asked last and what node was handed on. `crash` says why the program ended: no node yet (`"nullNode"`), a second
factory (`"duplicate"`), or a factory without its protocol (`"noRudp"`).

### `RudpHeader`

A word is the set of its one bits, at its real width, so that or, and, shift and mask are
set operations without any scaling. A C++ `bool` is a byte: an uninitialised one may hold
anything (`Leftovers`), and `Serialize` shifts whatever it holds. `Serialize` records the
fields it wrote from (`origin`) and `Deserialize` reads into any object, constructed newly
or used before; `reads` are the objects as they were read, until a setter touches them.
`Reused` bounds which objects are set again after a packet was written.

## Runs

| Run | Result | Instance | What it shows |
|---|---|---|---|
| `rx` | passes | 1 socket, sizes 0, 1, 2, limits 2 and 4, Word 8, queue up to 4 | type, counter, refinement of the FIFO |
| `lifecycle` | passes | 2 sockets, 2 ephemeral ports, port 1 also by number, all binding calls, `SendTo` and disposal, no rebinding | no orphans, nothing sent after shutdown, refinement of `EndPointTable`; with as many ports as sockets, every bind within a send or a device binding succeeds |
| `rebind` | passes | a node of 2 sockets, 2 ephemeral ports, `Bind` and `Bind6` again at any time, let go and disposed of in any order | end points stay owned, destructors find none, and disposal frees the sockets the application has let go |
| `send_receive` | passes | 1 socket with every call, IPv4 only, packets of 65507 and 65508 bytes, IPv4, mapped and foreign destinations, limits 1 and 2, queue up to 2 | sending needs no other layer and is silent after shutdown; the receive side of the whole socket refines `RudpSocketRx` |
| `node_receive` | passes | 2 sockets, one address and one port, both families; arrivals to a group, to the address, to another port, and damaged; limit 1 | open ports answer, every match hears, once, and sockets hold only what was sent to them; own sockets may be closed in callbacks |
| `node_ports` | passes | 2 sockets, 2 ephemeral ports, one of them also by number on one address, arrivals by the device and by another, to a host and to a group, one datagram the network may report on | ICMP errors and answers find the sender, and device restrictions hold, under sockets that take over each other's ports |
| `header` | passes | 1 object, values at the edges of their fields | round trip, ports and numbers survive, forwarding, lengths |
| `aggregation` | passes | all four objects, 2 factories so that a second could be made | one factory, one insertion, wired when complete, factories that lead to a node |
| `exhausted` | violation | 1 ephemeral port, 2 sockets | `Bind` succeeds with a null end point: `rudp-socket-impl.cc:207`, asserted at 496, 608, 839, 850 |
| `dont_fragment` | violation | one packet object sent twice | the DF tag is lost: `rudp-socket-impl.cc:527`, documented at `rudp-socket.cc:53` |
| `datagram_size` | violation | 65507 bytes | 65507 + 16 + 20 > 65535: `rudp-socket-impl.cc:690` |
| `double_bind` | violation | 1 socket, `Bind` to an address again | a second IPv6 end point passes the assertion: `rudp-socket-impl.cc:280`, which tests the IPv4 pointer |

**Bounds.** `MaxQueue` stops arrivals at a full queue. In `rx`, four places hold two
datagrams of the largest size and empty ones around them, so the limit, not the bound, is
what drops. In `node_receive`, `Receive` itself waits for room, so that no turn of its loop
is stuck, and a datagram takes the whole limit. Sizes are scaled with `Word`; 8 puts limit plus
size below it. Two sockets and two
ports per family let one socket take, lose and be refused what the other holds, and let
ports run out. The sizes around 65507 are the real ones, as are the widths in `header`.
`MaxInFlight` of 1 is enough to hold a report or an answer back until the port has
changed hands; `node_ports` sends to IPv4 addresses only, though its sockets have end points of
both families, and `AnswersAlwaysFindSender` is about both. The
sockets are a symmetry set in `lifecycle` and `node_ports`, which check no liveness.
`node_ports` has a VIEW, `ReadByPorts`, without the variables no guard and no property there
reads, `m_errno` among them.

**Deadlock** is not checked for the socket, node and aggregation runs: after disposal, a
failed assertion or a null pointer the program really ends.

**Fairness.** `FairNodeSpec` adds weak fairness of `HandlerStep`: the next turn of a loop,
the return of a callback, the next deletion of a disposal, a destructor that is due. The
simulator is single threaded and runs an event to its end before it takes the next, and a
callback is a function call that returns. Nothing the application or the network chooses is
fair. On it rest `DisposalFrees` (`rebind`) and `MatchedSocketsHear` (`node_receive`). No
other run assumes fairness.

**Mutants.** Each passing property is also shown to fail on a slip in the code: the operators
named after their mistake (`ReleaseByRequest`, `HookedOnlyV6`, `NeverFallsBack`, ...)
replace the definition beside them.

### Where the code and the properties part without a run of their own

What the code does here is in the model; where a property is near, its hypothesis says where it
stops:

- `rudp-socket-impl.cc:892`: `m_rxAvailable + GetSize ()` wraps if a limit is near 2^32, and
  what does not fit is queued. `RxAccounting` and `ImplementsBuffer` are claimed under `NoWrap`.
- `rudp-header.cc:84`: the mask of `SetMessageNumber` has 33 bits instead of the 29 the field
  has (219), and the bits beyond are or-ed into the flags. `RoundTrip` is about numbers that fit.
- `rudp-socket-impl.cc:709`: `SendTo` does not look at `m_connected`, which the comment at 466
  ("connected UDP socket must use default addresses") says of the path of `Send`.
- `rudp-socket-impl.cc:345`: a socket shut both ways that is then closed, or closed and bound
  again by `SendTo`, keeps its port: `Close` refuses it. Nothing says that it should not.
- `rudp-socket-impl.cc:550`: a node without the layer a packet needs follows a null pointer.
  `LowerLayerThere` is checked where sockets send to IPv4 and mapped addresses only.
- `rudp-socket-impl.cc:929` with `rudp-l4-protocol.cc:349-355`: an IPv4 datagram that falls
  back to an IPv6 end point whose socket has `RecvPktInfo` on follows a null interface.
- `rudp-l4-protocol.cc:363`: closing another matching socket in `NotifyDataRecv` leaves its
  deleted end point in the loop's list. `OwnSocketMayBeClosed` says what is safe.
- `rudp-l4-protocol.cc:363`: a datagram sent to a group may be queued by a socket bound to
  another device, if a callback of its own loop bound it: the list was looked up before.
  `OnlyFromItsDevice` therefore speaks of lookups, and of what is queued of other datagrams
  only. `rudp-socket-impl.cc:841`: with the ports used up, `BindToNetDevice` records the
  device and restricts nothing; `OnlyItsDeviceDelivers` assumes that the ports last.
- `rudp-l4-protocol.cc:95`: aggregating anything to the protocol before there is a node
  follows a null pointer.
- `rudp-l4-protocol.cc:113`: a down target set from outside before the layer is aggregated
  keeps the protocol from being inserted into that layer. `InsertedOnce` states "at most".
- `rudp-header.cc:213`: a forced length is written as it is but read back less 16;
  `PayloadLengthArrives` is about packets without one, which is all `Send` makes.
- `rudp-l4-protocol.cc:167`: a socket asked of the protocol before it has a node, or after
  it was disposed of, is given a null one. `SocketsKnowTheirNode` is about factories.
- `rudp-header.cc:32`: fields nothing initialises are written; `FirstWordSurvives` says what they cannot reach.

## Proofs

All proofs are complete to the last leaf.

- **`RudpSocketRx_proofs!TypeCorrect`**: `Spec => []TypeOK`, from the assumptions on the
  constants only. The counter stays in its type because its arithmetic is modulo `Word`.
- **`Accounting`**: `NoWrap` implies `Spec => []RxAccounting`. `NoWrap` says that no limit
  plus datagram size reaches `Word`; without it the property is false. The inductive
  invariant is type correctness with `RxAccounting`: an accepted datagram leaves
  the sum at most the limit, so the addition was exact; a released one was counted, so the
  subtraction does not borrow. It rests on `DatagramBytes_proofs`: what appending and
  taking the head do to `Bytes`. As induction schemas cannot be instantiated, those lemmas
  go by the least index at which a walk would be wrong (`NatMinimum`).
- **`Refinement`**: under `NoWrap`, `Spec => ImplementsBuffer`. With the counter equal to the
  bytes queued, the wrapped test of `ForwardUp` is the abstract test, and each action maps
  to an action of `DatagramBuffer` or a stutter.
- **`RudpSocketImpl_proofs!Ownership`**: `Spec => []EndPointOwnership`, for any sockets,
  ports, calls and rebinds. The property alone is not inductive: nothing in it says that a
  new end point is one nobody holds, nor what the entries of the table look like. The
  inductive invariant `OwnInv` adds that the table is a function from end points to end
  point states and that pointers are null or end points. One lemma per operation: what
  `Allocate` returns was not in the table, and what is held is, so nobody holds it; hooking
  rewrites only entries the socket itself holds; `Close` removes them and resets the pointers
  of their only holder; deleting an end point calls back into its holder, if it has one.
- **`ShutSocketsAreSilent`**: `NoSendAfterShutdown`, from `OwnInv` and the invariant
  `SentBySender`: only `DoSendTo` hands anything down, after its refusals and from the pointer
  it read or has just set.
- **`NoPortIsLost`**: if `Rebinds = {}`, `Spec => []NoOrphans`. Every operation either keeps
  the pointers that are not null and points a socket to each end point it adds
  (`GrowthKeeps`), or removes end points together with the pointers to them. Without the
  assumption it is false.
- **`LowerLayersSuffice`**: if the node has the IPv4 layer or is given no IPv4 and no mapped
  address, and has the IPv6 layer or is given no IPv6 address but mapped ones,
  `Spec => []LowerLayerThere`. The hypothesis is about the addresses alone: that a mapped one
  needs no IPv6 layer is what is proved. `Send` is the hard half: it needs `ConnectedInv`, that a
  connected socket has the address of a legal `SendTo`.
- **`RudpSocketImpl_proofs!TypeCorrect`**: `Spec => []TypeOK`, from `OwnInv`, `SentBySender`,
  `FlagTypes` and, for the receive side, that every call is a step of `RudpSocketRx`.
- **`ReceiveSideKept`**: `Spec => ReceiveSide`: the whole socket implements `RudpSocketRx`.
  The invariant it needs is `HookInv`: every end point in a table delivers to a socket, since
  no operation leaves one it allocated without hooking it.
- **`BindsSucceed`**: if `Rebinds = {}` and `EnoughPorts` (as many ephemeral ports as
  sockets, both finite), `Spec => []BoundAfterBind`. It is the other side of the run
  `exhausted`, which has one port for two sockets; `lifecycle` has two and checks it. A socket without an end point of the
  family leaves at most `Cardinality(Sockets) - 1` in it, since every end point is held
  (`NoOrphans`) and a socket holds one per family; those cannot cover the ports
  (`PortsLast`), so `Allocate` finds one.
- **`ImplementsEndPointTable`**: `Spec => EndPointsChangeHands`, rebinding included. A call
  is split into what `Allocate` adds (`TakeMoves`: an end point not in the table, so free),
  what `FinishBind` hooks again (`HookedMoves`: end points whose holder has them already, by
  `OwnInv`) and what `Close` removes; each moves slots between free and the one socket.
  Disposal maps to `StartClosing` and `TakeAway`. `HookInv` gives the converse needed there,
  that an entry of the table has an owner.
- **`RudpL4Protocol_proofs!NodeImplementsSockets`**: `NodeSpec => Spec`. Each step of the
  node is a step of `RudpSocketImpl` or leaves its variables alone, so the theorems above
  hold on the node too, in the middle of a loop or a disposal as well. It needs `LoopInv`:
  what is left of the list, unless freed, is in a table, and while there is a list there is
  a datagram.
- **`DestructorsFindNoEndPoint`**: a socket that holds an end point is referenced by that
  end point's destroy callback (`OwnInv`), so `Destruct` cannot run on it.
- **`OpenPortsAlwaysAnswer`**: from `OpenInv`, that an end point held by a socket not shut
  for receiving is enabled, and not tied to a device unless the socket is, and `FlagsInv`,
  that the flags in a table are Booleans. A lookup that found nothing then met no such end
  point.
- **`OwnSocketCloses`**: if `Rebinds = {}`, from `CallbackInv`: the turn that led to the
  callback took the end point it called through off the list, and a call on one socket
  deletes end points of that socket only (`SocketCallTouchesOwn`), which can be on the list
  in one family only.
- **`AnswersAlwaysFindSender`**: `NodeSpec => []AnswersFindSender`, rebinding included. The end
  point a socket holds delivers to it (`OwnInv`), is enabled, and is tied to a device only if
  the socket is (`OpenInv`); `LookupFindsOnly` says that the lookup then finds it, and nothing
  else, since a table has one end point for an address and port.
- **`IcmpErrorsFindSender`**: if `Rebinds = {}`, from `NoOrphans`, `OwnInv` and `InFlightInv`:
  whoever is told is the holder of an end point on the port.
- **`QueuedIsAddressed`**: if `Rebinds = {}`, from `QueuedInv` and `MatchInv`, that what the
  loop has still to come to was the datagram's destination. A datagram is queued by the
  holder of the end point it came through (`NoOrphans`, `OwnInv`), and an open socket keeps
  its end points (`OpenOrShutKeepPointers`): binding touches null pointers only, and `Close`
  those of its own socket.
- **`NobodyHearsTwice`**: if `Rebinds = {}`, `NodeSpec => []HeardAtMostOnce`. `Receive` fills
  the list from one table only (`CallbackInv`), a socket holds one end point per family, and
  what is left on the list is what its holder points to (`NoOrphans`, `OwnInv`), so two of
  them cannot be of one socket; `CallbackInv` also says that the end point of the socket
  whose callback runs is off the list.
- **`NobodySkipped`**: `NodeSpec => LoopSkipsNone`, without hypothesis. A turn that takes an
  end point off the list either tells its socket, ends the program, or finds it shut; an end
  point that goes to `freed` went by a `Close` of the socket its callbacks lead to
  (`GoneByClose`), which shuts that socket. This is the safety half of
  `MatchedSocketsHear`; what it leaves open is that the loop ends.
- **`OnlyItsDeviceDelivers`**: if `Rebinds = {}` and `EnoughPorts`,
  `NodeSpec => OnlyFromItsDevice`. `DeviceInv` says that an open socket bound to a device has
  an end point in either table and both are tied to it: `BindToNetDevice` binds what is
  missing before it restricts, which needs `BindsSucceed`'s argument, and no later call binds
  an open socket with both. `SoleInv` says that the loop of a datagram not sent to a group
  has one end point and runs no callback before it, so what was true at the lookup is true
  at its turn. A lookup finds nothing tied to another interface (`LookupDevice`).
- **`NodeTypeCorrect`**: `NodeSpec => []NodeTypeOK`, from the same invariants.
- **`RudpAggregation_proofs!TypeCorrect`, `MakesOneFactory`, `InsertsOnce`, `EndsUpWired`,
  `FactorySocketsHaveTheirNode`**: all the properties of aggregation, for any set of factories.
  None is inductive alone, since the calls nest. `AggregationInv` says that aggregates
  partition the objects and a disposed object's aggregate is disposed of with it
  (`PartInv`); that the frames of the stack alternate, concern live objects, and are more
  than two deep only if the node is set (`ShapeInv`); that at most one factory was made, and
  with the node set one leads back to the protocol, and that one that leads there leads to a
  node (`MadeInv`); that a layer with the
  protocol inserted is a down target (`WireInv`); and that wherever the aggregate is complete
  but not wired, a call under way will still wire it (`PromiseInv`). The last is what makes
  `EndsUpWired` follow when the stack is empty.
- **`RudpHeader_proofs!TypeCorrect`, `RoundTrips`, `FirstWordsSurvive`, `Forwarding`,
  `PayloadLengths`**: all the properties of the header, for every value of every field. The
  invariant `HeaderInv` says that the wire is what `Serialize` wrote of `origin` and that an
  object in `reads` agrees with it in what `Deserialize` assigns; the lemmas `FirstWord` and
  `MessageWordSplits` say which bits of the two words come from which field.

The assumptions used are the named ones of the modules: `WordAssumption`,
`SizeAssumption`, `BufSizesAssumption`, `ReadSizesAssumption` and `ErrnosAssumption` for
the receive side; `ReceiveAssumption` (the same, for the sockets), `SocketsAssumption`,
`EndPointsAssumption`, `BindsAssumption` and `SocketErrnosAssumption` for the socket;
`DestsAssumption` for
`LowerLayersSuffice`; `ArrivalsAssumption` and `GroupAssumption` for the node; `FactoriesAssumption` and `NullAssumption` for
aggregation; the typing assumptions of `RudpHeader`. `NoWrap`, `Rebinds = {}` and the layers
of `LowerLayersSuffice` are hypotheses of the theorems that say so, and so is `EnoughPorts`.
The counting in `PortsLast` rests on the library's `FiniteSetTheorems`.

Only model-checked: the two liveness properties, `DisposalFrees` and `MatchedSocketsHear`,
since fairness is beyond this prover. The safety half of the second is proved
(`NobodySkipped`); what is left to TLC is that loops, callbacks and disposals, once begun,
come to their end. The four runs that expect a violation refute what their findings quote;
of these, `BoundAfterBind` is proved where it holds, and `NoPortIsLost` is the side of
`double_bind` that holds without binding again.

## Not modelled

- `GetSockName`, `GetRxAvailable` and the other getters change nothing.
- Tags other than don't-fragment (TOS, TTL, hop limit, packet info), the peer's address and
  port in a datagram, logging, traces other than the drop, `Print`.
- The network between two nodes: no code here depends on what it does to a datagram, except
  that one may arrive at any time, with any content, or come back as an ICMP error.
- Unspecified parts of ns-3: routing is "there is a route or there is none", the choice of an
  ephemeral port is any free one.

## Plan

The components are modelled and all the safety properties the passing runs check are proved.
What is left is to compose two nodes over a network that loses, duplicates and reorders, as
an implementation of an abstract datagram service, with what is proved of one node
(`QueuedIsAddressed`, `NobodyHearsTwice`, `AnswersAlwaysFindSender`) as its lemmas; and a ranking
of the handler steps, whose descent is an action property and would leave only the fairness
itself to TLC.
