---------------------------- MODULE NetworkLemmas ----------------------------
(***************************************************************************)
(* What the operators of Network and NeighbourTable return, preserve and   *)
(* change, for every network, table and set of sockets.                    *)
(***************************************************************************)
EXTENDS NeighbourTable, FiniteSetTheorems, WellFoundedInduction, TLAPS

-----------------------------------------------------------------------------
(* Sockets.                                                                *)

LEMMA CallerCalleeType ==
    ASSUME NEW c \in Conn
    PROVE  /\ Caller(c) \in Socket /\ Callee(c) \in Socket
           /\ Peer(Caller(c)) = Callee(c) /\ Peer(Callee(c)) = Caller(c)
           /\ Caller(c) # Callee(c)
  BY DEF Caller, Callee, Socket, Side, Peer

LEMMA PeerType ==
    ASSUME NEW s \in Socket
    PROVE  /\ Peer(s) \in Socket /\ Peer(s) # s /\ Peer(Peer(s)) = s
           /\ s = Caller(s[1]) \/ s = Callee(s[1])
           /\ s[1] \in Conn
  BY DEF Caller, Callee, Socket, Side, Peer

LEMMA NoSockNotSocket == NoSock \notin Socket
  BY DEF NoSock, Socket, Side

-----------------------------------------------------------------------------
(* The operators on networks return networks.                              *)

LEMMA EmptyNetType ==
    ASSUME NEW M
    PROVE  EmptyNet \in Net(M)
  BY DEF EmptyNet, Net

LEMMA DialType ==
    ASSUME NEW M, NEW net \in Net(M), NEW c \in Conn, NEW from \in Node, NEW to \in Node,
           NEW msg \in M
    PROVE  Dial(net, c, from, to, msg) \in Net(M)
  <1> DEFINE w == Dial(net, c, from, to, msg)
  <1>1. <<msg>> \in Seq(M)
    OBVIOUS
  <1>2. w \in [open : SUBSET Socket, host : [Socket -> Node \cup {NoNode}],
               inbox : [Socket -> Seq(M)], broken : SUBSET Socket]
    BY <1>1, CallerCalleeType DEF Dial, Net
  <1>3. ASSUME NEW s \in w.open
        PROVE  w.host[s] \in Node /\ w.host[Peer(s)] \in Node
    <2>1. CASE s \in {Caller(c), Callee(c)}
      BY <2>1, CallerCalleeType DEF Dial, Net
    <2>2. CASE s \in net.open
      BY <2>2, CallerCalleeType, PeerType DEF Dial, Net
    <2> QED
      BY <1>3, <2>1, <2>2 DEF Dial
  <1> QED
    BY <1>2, <1>3 DEF Net

LEMMA ReceiveType ==
    ASSUME NEW M, NEW net \in Net(M), NEW s \in Socket, net.inbox[s] # << >>
    PROVE  Receive(net, s) \in Net(M)
  <1>1. Tail(net.inbox[s]) \in Seq(M)
    BY DEF Net
  <1> QED
    BY <1>1 DEF Receive, Net

LEMMA SendAllType ==
    ASSUME NEW M, NEW net \in Net(M), NEW S \in SUBSET Socket, NEW msg \in M
    PROVE  SendAll(net, S, msg) \in Net(M)
  <1>1. \A t \in Socket : Append(net.inbox[t], msg) \in Seq(M)
    BY DEF Net
  <1> QED
    BY <1>1 DEF SendAll, Net

LEMMA CloseAllType ==
    ASSUME NEW M, NEW net \in Net(M), NEW S
    PROVE  CloseAll(net, S) \in Net(M)
  <1> DEFINE w == CloseAll(net, S)
  <1>1. << >> \in Seq(M)
    OBVIOUS
  <1>2. w \in [open : SUBSET Socket, host : [Socket -> Node \cup {NoNode}],
               inbox : [Socket -> Seq(M)], broken : SUBSET Socket]
    BY <1>1 DEF CloseAll, Net
  <1>3. ASSUME NEW s \in w.open
        PROVE  w.host[s] \in Node /\ w.host[Peer(s)] \in Node
    <2>1. s \in net.open \ S /\ s \in Socket
      BY DEF CloseAll, Net
    <2>2. w.host[s] = net.host[s] /\ w.host[Peer(s)] = net.host[Peer(s)]
      BY <2>1, PeerType DEF CloseAll
    <2> QED
      BY <2>1, <2>2 DEF Net
  <1> QED
    BY <1>2, <1>3 DEF Net

-----------------------------------------------------------------------------
(* Which connections are open, and between whom.                           *)

\* A new connection was not open before, and nothing else changes.
LEMMA DialEffect ==
    ASSUME NEW M, NEW net \in Net(M), NEW c \in Conn, NEW from, NEW to, NEW msg
    PROVE  LET w == Dial(net, c, from, to, msg)
           IN  /\ w.open = net.open \cup {Caller(c), Callee(c)}
               /\ w.host[Caller(c)] = from /\ w.host[Callee(c)] = to
               /\ \A s \in Socket : s # Caller(c) /\ s # Callee(c) => w.host[s] = net.host[s]
  BY CallerCalleeType DEF Dial, Net

LEMMA ReceiveEffect ==
    ASSUME NEW net, NEW s
    PROVE  /\ Receive(net, s).open = net.open
           /\ Receive(net, s).host = net.host
  BY DEF Receive

LEMMA SendAllEffect ==
    ASSUME NEW net, NEW S, NEW msg
    PROVE  /\ SendAll(net, S, msg).open = net.open
           /\ SendAll(net, S, msg).host = net.host
  BY DEF SendAll

\* What stays open stays with its machine.
LEMMA CloseAllEffect ==
    ASSUME NEW M, NEW net \in Net(M), NEW S
    PROVE  /\ CloseAll(net, S).open = net.open \ S
           /\ \A s \in net.open \ S : CloseAll(net, S).host[s] = net.host[s]
  BY DEF CloseAll, Net

\* Which ends a machine hosts after each operation.
LEMMA HostedByDial ==
    ASSUME NEW M, NEW net \in Net(M), NEW c \in Conn, IsFree(net, c), NEW from, NEW to, NEW msg
    PROVE  /\ \A m : HostedBy(net, m) \subseteq HostedBy(Dial(net, c, from, to, msg), m)
           /\ Caller(c) \in HostedBy(Dial(net, c, from, to, msg), from)
           /\ \A m : Caller(c) \notin HostedBy(net, m)
  <1>1. net.open \subseteq Socket
    BY DEF Net
  <1> QED
    BY <1>1, DialEffect, CallerCalleeType DEF HostedBy, IsFree

LEMMA HostedByReceive ==
    ASSUME NEW net, NEW s
    PROVE  \A m : HostedBy(Receive(net, s), m) = HostedBy(net, m)
  BY ReceiveEffect DEF HostedBy

LEMMA HostedBySendAll ==
    ASSUME NEW net, NEW S, NEW msg
    PROVE  \A m : HostedBy(SendAll(net, S, msg), m) = HostedBy(net, m)
  BY SendAllEffect DEF HostedBy

LEMMA HostedByCloseAll ==
    ASSUME NEW M, NEW net \in Net(M), NEW S
    PROVE  \A m : HostedBy(CloseAll(net, S), m) = HostedBy(net, m) \ S
  BY CloseAllEffect DEF HostedBy

-----------------------------------------------------------------------------
(* What a few operations in a row do to what the other ends can read.      *)

EmptyWhenClosed(w) == \A s \in Socket \ w.open : w.inbox[s] = << >>

\* v is w after the first packet of each socket of R was read, msg was written on
\* those of W, and those of C were closed, in this order.
Passes(w, v, C, R, W, msg) ==
    /\ v.open = w.open \ C
    /\ EmptyWhenClosed(v)
    /\ \A t \in v.open :
          LET rest == IF t \in R THEN Tail(w.inbox[t]) ELSE w.inbox[t]
          IN  /\ v.host[t] = w.host[t] /\ v.host[Peer(t)] = w.host[Peer(t)]
              /\ v.inbox[t] = IF Peer(t) \in W THEN Append(rest, msg) ELSE rest
              /\ t \in w.broken => t \in v.broken
              /\ Peer(t) \in C \ R /\ w.inbox[Peer(t)] # << >> => t \in v.broken

LEMMA NothingPasses ==
    ASSUME NEW w, EmptyWhenClosed(w), NEW msg, NEW Z, Z = {}
    PROVE  Passes(w, w, Z, Z, Z, msg)
  BY DEF Passes

LEMMA ReceivePasses ==
    ASSUME NEW M, NEW w \in Net(M), EmptyWhenClosed(w), NEW msg, NEW Z, Z = {},
           NEW s \in Socket, w.inbox[s] # << >>
    PROVE  Passes(w, Receive(w, s), Z, {s}, Z, msg)
  <1>1. s \in w.open /\ w.open \subseteq Socket
    BY DEF EmptyWhenClosed, Net
  <1>2. \A t \in Socket : Receive(w, s).inbox[t] = IF t = s THEN Tail(w.inbox[t]) ELSE w.inbox[t]
    BY DEF Receive, Net
  <1> QED
    BY <1>1, <1>2 DEF Passes, EmptyWhenClosed, Receive

LEMMA SendAllPasses ==
    ASSUME NEW M, NEW w \in Net(M), NEW u \in Net(M), NEW msg, NEW Z, Z = {}, NEW R, NEW W,
           Passes(w, u, Z, R, Z, msg)
    PROVE  Passes(w, SendAll(u, W, msg), Z, R, W, msg)
  <1> DEFINE v == SendAll(u, W, msg)
  <1>1. /\ v.open = w.open /\ u.open = w.open /\ v.host = u.host /\ w.open \subseteq Socket
        /\ u.broken \subseteq v.broken
        /\ \A t \in Socket : v.inbox[t] = IF t \in u.open /\ Peer(t) \in W
                                          THEN Append(u.inbox[t], msg) ELSE u.inbox[t]
    BY DEF Passes, SendAll, Net
  <1> HIDE DEF v
  <1>2. EmptyWhenClosed(v)
    BY <1>1 DEF Passes, EmptyWhenClosed
  <1>3. ASSUME NEW t \in v.open
        PROVE  LET rest == IF t \in R THEN Tail(w.inbox[t]) ELSE w.inbox[t]
               IN  /\ v.host[t] = w.host[t] /\ v.host[Peer(t)] = w.host[Peer(t)]
                   /\ v.inbox[t] = IF Peer(t) \in W THEN Append(rest, msg) ELSE rest
                   /\ t \in w.broken => t \in v.broken
    BY <1>1, <1>3 DEF Passes
  <1>4. Passes(w, v, Z, R, W, msg)
    BY <1>1, <1>2, <1>3 DEF Passes
  <1> QED
    BY <1>4 DEF v

LEMMA CloseAllPasses ==
    ASSUME NEW M, NEW w \in Net(M), NEW u \in Net(M), EmptyWhenClosed(w), NEW msg,
           NEW Z, Z = {}, NEW R, NEW W, NEW C, Passes(w, u, Z, R, W, msg)
    PROVE  Passes(w, CloseAll(u, C), C, R, W, msg)
  <1> DEFINE v == CloseAll(u, C)
  <1>1. /\ v.open = w.open \ C /\ u.open = w.open /\ w.open \subseteq Socket
        /\ \A t \in v.open : v.host[t] = u.host[t] /\ v.host[Peer(t)] = u.host[Peer(t)]
        /\ \A t \in Socket : v.inbox[t] = IF t \in C THEN << >> ELSE u.inbox[t]
        /\ \A t \in v.open : /\ t \in u.broken => t \in v.broken
                             /\ Peer(t) \in C /\ u.inbox[Peer(t)] # << >> => t \in v.broken
    <2>1. v.open = w.open \ C /\ u.open = w.open /\ w.open \subseteq Socket
      BY DEF Passes, CloseAll, Net
    <2>2. \A t \in v.open : v.host[t] = u.host[t] /\ v.host[Peer(t)] = u.host[Peer(t)]
      BY <2>1, PeerType DEF CloseAll
    <2> QED
      BY <2>1, <2>2 DEF CloseAll
  <1> HIDE DEF v
  <1>2. EmptyWhenClosed(v)
    BY <1>1 DEF Passes, EmptyWhenClosed
  <1>3. ASSUME NEW t \in v.open, Peer(t) \in C \ R, w.inbox[Peer(t)] # << >>
        PROVE  t \in v.broken
    <2>1. Peer(t) \in w.open /\ w.inbox[Peer(t)] \in Seq(M)
      BY <1>1, <1>3, PeerType DEF EmptyWhenClosed, Net
    <2>2. \/ u.inbox[Peer(t)] = w.inbox[Peer(t)]
          \/ u.inbox[Peer(t)] = Append(w.inbox[Peer(t)], msg)
      BY <1>1, <1>3, <2>1, Zenon DEF Passes
    <2>3. Append(w.inbox[Peer(t)], msg) # << >>
      BY <2>1
    <2>4. u.inbox[Peer(t)] # << >>
      BY <1>3, <2>2, <2>3, Zenon
    <2> QED
      BY <1>1, <1>3, <2>4
  <1>4. ASSUME NEW t \in v.open
        PROVE  /\ v.inbox[t] = u.inbox[t] /\ t \in u.open
               /\ u.host[t] = w.host[t] /\ u.host[Peer(t)] = w.host[Peer(t)]
               /\ t \in w.broken => t \in v.broken
    BY <1>1 DEF Passes
  <1> QED
    BY <1>1, <1>2, <1>3, <1>4 DEF Passes, v

\* Closing the sockets of a process of which one was closed just before.
LEMMA CloseTwicePasses ==
    ASSUME NEW M, NEW w \in Net(M), EmptyWhenClosed(w), NEW msg, NEW Z, Z = {}, NEW C, NEW a \in C
    PROVE  Passes(w, CloseAll(CloseAll(w, {a}), C \ {a}), C, Z, Z, msg)
  <1> DEFINE u == CloseAll(w, {a})
             D == C \ {a}
             v == CloseAll(u, D)
  <1>1. Passes(w, u, {a}, Z, Z, msg)
    BY NothingPasses, CloseAllPasses
  <1>2. u \in Net(M)
    BY CloseAllType
  <1>3. EmptyWhenClosed(u)
    BY <1>1 DEF Passes
  <1> HIDE DEF u, D
  <1>4. Passes(u, v, D, Z, Z, msg)
    BY <1>2, <1>3, NothingPasses, CloseAllPasses
  <1> HIDE DEF v
  <1>5. v.open = w.open \ C /\ EmptyWhenClosed(v) /\ w.open \subseteq Socket
    BY <1>1, <1>4 DEF Passes, Net, D
  <1>6. ASSUME NEW t \in v.open
        PROVE  /\ v.host[t] = w.host[t] /\ v.host[Peer(t)] = w.host[Peer(t)]
               /\ v.inbox[t] = w.inbox[t]
               /\ t \in w.broken => t \in v.broken
    BY <1>1, <1>4, <1>6 DEF Passes
  <1>7. ASSUME NEW t \in v.open, Peer(t) \in C \ Z, w.inbox[Peer(t)] # << >>
        PROVE  t \in v.broken
    <2>1. t \in u.open
      BY <1>4 DEF Passes
    <2>2. CASE Peer(t) = a
      BY <1>1, <1>4, <1>7, <2>1, <2>2 DEF Passes
    <2>3. CASE Peer(t) # a
      <3>1. Peer(t) \in u.open
        BY <1>1, <1>5, <1>7, <2>3, PeerType DEF Passes, EmptyWhenClosed
      <3>2. Peer(Peer(t)) \notin Z /\ u.inbox[Peer(t)] = w.inbox[Peer(t)]
        BY <1>1, <3>1 DEF Passes
      <3> QED
        BY <1>4, <1>7, <2>3, <3>2 DEF Passes, D
    <2> QED
      BY <2>2, <2>3
  <1> QED
    BY <1>5, <1>6, <1>7 DEF Passes, u, v, D

-----------------------------------------------------------------------------
(* Tables.                                                                 *)

LEMMA SlotFinite ==
    /\ Slot \subseteq Nat /\ IsFiniteSet(Slot)
    /\ \A T \in SUBSET Slot : IsFiniteSet(T) /\ Cardinality(T) \in Nat
  <1>1. IsFiniteSet(Slot)
    BY MaxNeighboursAssumption, FS_Interval DEF Slot
  <1>2. Slot \subseteq Nat
    BY MaxNeighboursAssumption DEF Slot
  <1>3. ASSUME NEW T \in SUBSET Slot
        PROVE  IsFiniteSet(T) /\ Cardinality(T) \in Nat
    BY <1>1, FS_Subset, FS_CardinalityType
  <1> QED
    BY <1>1, <1>2, <1>3

LEMMA EmptyTableAccounted ==
    /\ Accounted(EmptyTable)
    /\ LiveSlots(EmptyTable) = {} /\ Sockets(EmptyTable) = {}
  <1>1. EmptyTable \in NeighbourTables
    BY DEF EmptyTable, NeighbourTables
  <1>2. LiveSlots(EmptyTable) = {}
    BY DEF EmptyTable, LiveSlots
  <1> QED
    BY <1>1, <1>2, FS_EmptySet DEF Accounted, Sockets, EmptyTable

\* A nonempty set of slots has a first one.
LEMMA FirstOfSlots ==
    ASSUME NEW T \in SUBSET Slot, T # {}
    PROVE  \E i \in T : \A j \in T : ~(j < i)
  <1>1. IsWellFoundedOn(OpToRel(<, Nat), Nat)
    BY NatLessThanWellFounded
  <1>2. \E i \in T : \A j \in T : ~(<<j, i>> \in OpToRel(<, Nat))
    BY <1>1, WFMin, SlotFinite
  <1> QED
    BY <1>2, SlotFinite DEF OpToRel

LEMMA FirstFreeIsFree ==
    ASSUME NEW t \in NeighbourTables, LiveSlots(t) # Slot
    PROVE  FirstFree(t) \in Slot /\ t.sock[FirstFree(t)] = NoSock
  <1>1. PICK i \in Slot \ LiveSlots(t) : \A j \in Slot \ LiveSlots(t) : ~(j < i)
    BY FirstOfSlots DEF LiveSlots
  <1>2. t.sock[i] = NoSock /\ \A j \in Slot : j < i => t.sock[j] # NoSock
    BY <1>1 DEF LiveSlots
  <1> QED
    BY <1>1, <1>2 DEF FirstFree

LEMMA AddNeighbourType ==
    ASSUME NEW t \in NeighbourTables, NEW s \in Socket
    PROVE  AddNeighbour(t, s) \in NeighbourTables
  <1>1. ASSUME NEW i \in Slot
        PROVE  [sock |-> [t.sock EXCEPT ![i] = s], nb |-> t.nb + 1] \in NeighbourTables
    BY DEF NeighbourTables
  <1> QED
    BY <1>1, FirstFreeIsFree DEF AddNeighbour

\* add_neighbour keeps the counter and the entries together.
LEMMA AddNeighbourAccounted ==
    ASSUME NEW t, Accounted(t), NEW s \in Socket, s \notin Sockets(t)
    PROVE  /\ Accounted(AddNeighbour(t, s))
           /\ Sockets(t) \subseteq Sockets(AddNeighbour(t, s))
           /\ Sockets(AddNeighbour(t, s)) \subseteq Sockets(t) \cup {s}
  <1> DEFINE u == AddNeighbour(t, s)
             i == FirstFree(t)
  <1>1. CASE u = t
    BY <1>1 DEF Accounted
  <1>2. CASE u # t
    <2>1. /\ u = [sock |-> [t.sock EXCEPT ![i] = s], nb |-> t.nb + 1]
          /\ LiveSlots(t) # Slot
      BY <1>2 DEF AddNeighbour
    <2>2. i \in Slot /\ i \notin LiveSlots(t)
      BY <2>1, FirstFreeIsFree DEF Accounted, LiveSlots
    <2> HIDE DEF i, u
    <2>3. /\ u \in NeighbourTables
          /\ u.sock[i] = s /\ \A j \in Slot : j # i => u.sock[j] = t.sock[j]
      BY <2>1, <2>2 DEF NeighbourTables, Accounted
    <2>4. LiveSlots(u) = LiveSlots(t) \cup {i}
      BY <2>2, <2>3, NoSockNotSocket DEF LiveSlots
    <2>5. u.nb = Cardinality(LiveSlots(u))
      <3>1. IsFiniteSet(LiveSlots(t))
        BY SlotFinite DEF LiveSlots
      <3>2. Cardinality(LiveSlots(u)) = Cardinality(LiveSlots(t)) + 1
        BY <3>1, <2>2, <2>4, FS_AddElement
      <3> QED
        BY <3>2, <2>1 DEF Accounted
    <2>6. \A j, k \in LiveSlots(u) : u.sock[j] = u.sock[k] => j = k
      BY <2>2, <2>3, <2>4 DEF Accounted, Sockets, LiveSlots
    <2> QED
      BY <2>2, <2>3, <2>4, <2>5, <2>6 DEF Accounted, Sockets, LiveSlots, u
  <1> QED
    BY <1>1, <1>2

\* add_neighbour takes the socket unless the counter says that the table is full.
LEMMA AddNeighbourTakes ==
    ASSUME NEW t, Accounted(t), NEW s \in Socket, t.nb # MaxNeighbours
    PROVE  s \in Sockets(AddNeighbour(t, s))
  <1> DEFINE i == FirstFree(t)
  <1>1. LiveSlots(t) # Slot
    <2>1. Cardinality(Slot) = MaxNeighbours
      BY MaxNeighboursAssumption, FS_Interval DEF Slot
    <2> QED
      BY <2>1 DEF Accounted
  <1>2. i \in Slot
    BY <1>1, FirstFreeIsFree DEF Accounted
  <1>3. AddNeighbour(t, s) = [sock |-> [t.sock EXCEPT ![i] = s], nb |-> t.nb + 1]
    BY <1>1 DEF AddNeighbour
  <1> HIDE DEF i
  <1>4. AddNeighbour(t, s).sock[i] = s
    BY <1>2, <1>3 DEF Accounted, NeighbourTables
  <1> QED
    BY <1>2, <1>4, NoSockNotSocket DEF Sockets, LiveSlots

LEMMA DropNeighbourType ==
    ASSUME NEW t \in NeighbourTables, NEW i \in Slot
    PROVE  DropNeighbour(t, i) \in NeighbourTables
  BY DEF DropNeighbour, NeighbourTables

\* handle_leave keeps the counter and the entries together.
LEMMA DropNeighbourAccounted ==
    ASSUME NEW t, Accounted(t), NEW i \in LiveSlots(t)
    PROVE  /\ Accounted(DropNeighbour(t, i))
           /\ Sockets(DropNeighbour(t, i)) = Sockets(t) \ {t.sock[i]}
  <1> DEFINE u == DropNeighbour(t, i)
  <1>1. /\ u \in NeighbourTables
        /\ u.sock[i] = NoSock /\ \A j \in Slot : j # i => u.sock[j] = t.sock[j]
        /\ u.nb = t.nb - 1
    BY DEF NeighbourTables, Accounted, DropNeighbour, LiveSlots
  <1> HIDE DEF u
  <1>2. LiveSlots(u) = LiveSlots(t) \ {i}
    BY <1>1 DEF LiveSlots
  <1>3. u.nb = Cardinality(LiveSlots(u))
    <2>1. IsFiniteSet(LiveSlots(t)) /\ Cardinality(LiveSlots(t)) \in Nat
      BY SlotFinite DEF LiveSlots
    <2>2. Cardinality(LiveSlots(u)) = Cardinality(LiveSlots(t)) - 1
      BY <2>1, <1>2, FS_RemoveElement
    <2> QED
      BY <2>2, <1>1 DEF Accounted
  <1>4. \A j, k \in LiveSlots(u) : u.sock[j] = u.sock[k] => j = k
    BY <1>1, <1>2 DEF Accounted, LiveSlots
  <1>5. Sockets(u) = Sockets(t) \ {t.sock[i]}
    BY <1>1, <1>2 DEF Accounted, Sockets, LiveSlots
  <1> QED
    BY <1>1, <1>3, <1>4, <1>5 DEF Accounted, u
=============================================================================
