---------------------------- MODULE SearchProofs ----------------------------
(***************************************************************************)
(* Proofs about Search, for any servents, files, overlay and number of     *)
(* searches.                                                               *)
(***************************************************************************)
EXTENDS Search, NetworkLemmas, SequenceTheorems

-----------------------------------------------------------------------------
(* What is in a sequence, after the operations on sequences.               *)

LEMMA EntriesOf ==
    ASSUME NEW S, NEW q \in Seq(S)
    PROVE  ToSet(q) = {q[k] : k \in 1 .. Len(q)} /\ ToSet(q) \subseteq S
<1>1. DOMAIN q = 1 .. Len(q) /\ \A k \in 1 .. Len(q) : q[k] \in S
    BY LenProperties, ElementOfSeq
<1> QED
    BY <1>1 DEF ToSet

LEMMA EntriesOfNone == ToSet(<< >>) = {}
BY DEF ToSet

LEMMA EntriesOfOne == \A x : ToSet(<<x>>) = {x}
BY DEF ToSet

LEMMA EntriesAppend ==
    ASSUME NEW S, NEW q \in Seq(S), NEW x \in S
    PROVE  ToSet(Append(q, x)) = ToSet(q) \cup {x}
<1> DEFINE longer == Append(q, x)
<1>1. /\ Len(q) \in Nat /\ longer \in Seq(S) /\ Len(longer) = Len(q) + 1
      /\ \A k \in 1 .. Len(q) : longer[k] = q[k]
      /\ longer[Len(q) + 1] = x
    OBVIOUS
<1> HIDE DEF longer
<1>2. {longer[k] : k \in 1 .. Len(longer)} = {q[k] : k \in 1 .. Len(q)} \cup {x}
    BY <1>1
<1> QED
    BY <1>1, <1>2, EntriesOf DEF longer

LEMMA EntriesHeadTail ==
    ASSUME NEW S, NEW q \in Seq(S), q # << >>
    PROVE  /\ Head(q) \in ToSet(q) /\ Head(q) \in S
           /\ Tail(q) \in Seq(S) /\ ToSet(Tail(q)) \subseteq ToSet(q)
<1>1. /\ Len(q) \in Nat \ {0} /\ Head(q) = q[1]
      /\ Tail(q) \in Seq(S) /\ Len(Tail(q)) = Len(q) - 1
      /\ \A k \in 1 .. Len(q) - 1 : Tail(q)[k] = q[k + 1]
    BY HeadTailProperties, LenProperties, EmptySeq
<1>2. 1 \in 1 .. Len(q)
    BY <1>1
<1>3. ToSet(Tail(q)) = {Tail(q)[k] : k \in 1 .. Len(q) - 1}
    BY <1>1, EntriesOf
<1> QED
    BY <1>1, <1>2, <1>3, EntriesOf

LEMMA EntriesConcat ==
    ASSUME NEW S, NEW q \in Seq(S), NEW r \in Seq(S)
    PROVE  q \o r \in Seq(S) /\ ToSet(q \o r) = ToSet(q) \cup ToSet(r)
<1>1. /\ Len(q) \in Nat /\ Len(r) \in Nat
      /\ q \o r \in Seq(S) /\ Len(q \o r) = Len(q) + Len(r)
      /\ \A k \in 1 .. Len(q) + Len(r) : (q \o r)[k] = IF k <= Len(q) THEN q[k] ELSE r[k - Len(q)]
    BY ConcatProperties, LenProperties
<1>2. ToSet(q \o r) = {(q \o r)[k] : k \in 1 .. Len(q) + Len(r)}
    BY <1>1, EntriesOf
<1>3. ASSUME NEW x \in ToSet(q) \cup ToSet(r) PROVE x \in ToSet(q \o r)
  <2>1. CASE x \in ToSet(q)
    <3>1. PICK k \in 1 .. Len(q) : x = q[k]
        BY <2>1, EntriesOf
    <3>2. k \in 1 .. Len(q) + Len(r) /\ (q \o r)[k] = x
        BY <1>1, <3>1
    <3> QED
        BY <1>2, <3>2
  <2>2. CASE x \in ToSet(r)
    <3>1. PICK k \in 1 .. Len(r) : x = r[k]
        BY <2>2, EntriesOf
    <3>2. Len(q) + k \in 1 .. Len(q) + Len(r) /\ (q \o r)[Len(q) + k] = x
        BY <1>1, <3>1
    <3> QED
        BY <1>2, <3>2
  <2> QED
      BY <1>3, <2>1, <2>2
<1>4. ASSUME NEW x \in ToSet(q \o r) PROVE x \in ToSet(q) \cup ToSet(r)
  <2>1. PICK k \in 1 .. Len(q) + Len(r) : x = (q \o r)[k]
      BY <1>2
  <2>2. CASE k <= Len(q)
    <3>1. k \in 1 .. Len(q) /\ x = q[k]
        BY <1>1, <2>1, <2>2
    <3> QED
        BY <3>1, EntriesOf
  <2>3. CASE ~(k <= Len(q))
    <3>1. k - Len(q) \in 1 .. Len(r) /\ x = r[k - Len(q)]
        BY <1>1, <2>1, <2>3
    <3> QED
        BY <3>1, EntriesOf
  <2> QED
      BY <2>2, <2>3
<1> QED
    BY <1>1, <1>3, <1>4

\* A list of at most one entry.
LEMMA ShortList ==
    ASSUME NEW S, NEW q
    PROVE  q \in BoundedSeq(S, 1) <=> q \in Seq(S) /\ Len(q) <= 1
<1>1. BoundedSeq(S, 1) = [1 .. 0 -> S] \cup [1 .. 1 -> S]
  <2>1. 0 .. 1 = {0, 1}
      OBVIOUS
  <2> QED
      BY <2>1 DEF BoundedSeq, SeqOf
<1>2. ASSUME q \in [1 .. 0 -> S] \cup [1 .. 1 -> S] PROVE q \in Seq(S) /\ Len(q) <= 1
  <2>1. PICK m \in {0, 1} : q \in [1 .. m -> S]
      BY <1>2
  <2>2. m \in Nat
      BY <2>1
  <2>3. q \in Seq(S) /\ Len(q) = m
      BY <2>1, <2>2, SeqDef, LenProperties
  <2> QED
      BY <2>1, <2>3
<1>3. ASSUME q \in Seq(S), Len(q) <= 1 PROVE q \in [1 .. 0 -> S] \cup [1 .. 1 -> S]
  <2>1. Len(q) \in Nat /\ q \in [1 .. Len(q) -> S]
      BY <1>3, LenProperties
  <2>2. Len(q) = 0 \/ Len(q) = 1
      BY <1>3, <2>1
  <2> QED
      BY <2>1, <2>2
<1> QED
    BY <1>1, <1>2, <1>3

-----------------------------------------------------------------------------
(* The invariant.                                                          *)

\* What may be said of the file.
Known == holders \cup {Junk}

\* A request comes from the servent it names, an answer names servents that have the
\* file.
Honest(w) ==
    \A s \in Socket : \A p \in ToSet(w.inbox[s]) :
       /\ p \in Question /\ s \in w.open => p.port_source = w.host[Peer(s)]
       /\ p \in AnswerWithMachines => ToSet(p.machines) \subseteq Known

TablesSound == \A n \in Node : Sound(net, table[n], n)

\* The requests of pending_requests are those of others.
OthersAsk ==
    \A n \in Node : \A r \in ToSet(pending[n]) :
       r.type = "REQUEST_SEARCH_REMOTE" => r.packet.port_source # n

ClientsKnow == \A n \in Node : Named(n) \subseteq Known

IInv == TypeOK /\ TablesSound /\ Honest(net) /\ OthersAsk /\ ClientsKnow /\ MachinesListedOnce

-----------------------------------------------------------------------------
(* Packets.                                                                *)

LEMMA PacketKinds ==
    /\ Question \cap AnswerWithMachines = {}
    /\ LeavePacket \notin Question \cup AnswerWithMachines
    /\ \A p \in Packet : /\ p.type = "CMSG_SEARCH_REQUEST" <=> p \in Question
                         /\ p.type = "SMSG_SEARCH_REQUEST" <=> p \in AnswerWithMachines
    /\ \A p \in Question : p.machines = << >> /\ p.port_source \in Node
<1>1. \A p \in Question : /\ p.type = "CMSG_SEARCH_REQUEST"
                           /\ p.machines = << >> /\ p.port_source \in Node
    BY DEF Question
<1>2. \A p \in AnswerWithMachines : p.type = "SMSG_SEARCH_REQUEST"
    BY DEF AnswerWithMachines
<1>3. LeavePacket.type = "CMSG_LEAVE"
    BY DEF LeavePacket
<1> QED
    BY <1>1, <1>2, <1>3 DEF Packet

\* What a servent reads is what it was sent.
LEMMA FirstIsUnread ==
    ASSUME net \in Net(Packet), NEW n \in Node, NEW s \in Socket, NEW type, FirstPacket(n, s, type)
    PROVE  /\ net.inbox[s] \in Seq(Packet) /\ net.inbox[s] # << >>
           /\ Head(net.inbox[s]) \in Packet /\ Head(net.inbox[s]).type = type
           /\ Head(net.inbox[s]) \in ToSet(net.inbox[s])
           /\ s \in Sockets(table[n])
<1>1. net.inbox[s] \in Seq(Packet)
    BY DEF Net
<1> QED
    BY <1>1, EntriesHeadTail DEF FirstPacket

\* Fewer packets, fewer ends.
LEMMA HonestLess ==
    ASSUME NEW w, Honest(w), NEW v,
           \A s \in Socket : ToSet(v.inbox[s]) \subseteq ToSet(w.inbox[s]) \cup {LeavePacket},
           \A s \in v.open : s \in w.open /\ v.host[Peer(s)] = w.host[Peer(s)]
    PROVE  Honest(v)
BY PacketKinds DEF Honest

LEMMA ReceiveKeeps ==
    ASSUME net \in Net(Packet), NEW s \in Socket, net.inbox[s] # << >>
    PROVE  \A t \in Socket : ToSet(Receive(net, s).inbox[t]) \subseteq ToSet(net.inbox[t])
<1> TAKE t \in Socket
<1>1. net.inbox \in [Socket -> Seq(Packet)]
    BY DEF Net
<1>2. Receive(net, s).inbox[t] = IF t = s THEN Tail(net.inbox[s]) ELSE net.inbox[t]
    BY <1>1 DEF Receive
<1>3. ToSet(Tail(net.inbox[s])) \subseteq ToSet(net.inbox[s])
    BY <1>1, EntriesHeadTail
<1> QED
    BY <1>2, <1>3

LEMMA SendAllKeeps ==
    ASSUME NEW w \in Net(Packet), NEW S
    PROVE  \A t \in Socket :
              ToSet(SendAll(w, S, LeavePacket).inbox[t]) \subseteq ToSet(w.inbox[t]) \cup {LeavePacket}
<1> TAKE t \in Socket
<1>1. w.inbox[t] \in Seq(Packet) /\ LeavePacket \in Packet
    BY DEF Net, Packet
<1>2. \/ SendAll(w, S, LeavePacket).inbox[t] = w.inbox[t]
      \/ SendAll(w, S, LeavePacket).inbox[t] = Append(w.inbox[t], LeavePacket)
    BY DEF SendAll
<1>3. ToSet(Append(w.inbox[t], LeavePacket)) = ToSet(w.inbox[t]) \cup {LeavePacket}
    BY <1>1, EntriesAppend
<1> QED
    BY <1>2, <1>3

LEMMA CloseAllKeeps ==
    ASSUME NEW w \in Net(Packet), NEW S
    PROVE  /\ \A t \in Socket : ToSet(CloseAll(w, S).inbox[t]) \subseteq ToSet(w.inbox[t])
           /\ \A t \in w.open \ S : /\ t \in CloseAll(w, S).open
                                    /\ CloseAll(w, S).host[t] = w.host[t]
                                    /\ CloseAll(w, S).host[Peer(t)] = w.host[Peer(t)]
<1>1. \A t \in Socket : CloseAll(w, S).inbox[t] \in {<< >>, w.inbox[t]}
    BY DEF CloseAll
<1>2. \A t \in w.open : t \in Socket
    BY DEF Net
<1> QED
    BY <1>1, <1>2, EntriesOfNone, PeerType, CloseAllEffect DEF CloseAll

LEMMA CopiesAreThat ==
    ASSUME NEW targets \in Seq(Socket \cup {NoSock}), NEW t \in Socket, NEW packet \in Packet
    PROVE  /\ Copies(targets, t, packet) \in Seq(Packet)
           /\ ToSet(Copies(targets, t, packet)) \subseteq {packet}
           /\ ~(t \in net.open /\ Peer(t) \in ToSet(targets)) =>
                  ToSet(Copies(targets, t, packet)) = {}
<1> DEFINE T == {i \in DOMAIN targets : targets[i] = Peer(t) /\ t \in net.open}
<1>1. Len(targets) \in Nat /\ DOMAIN targets = 1 .. Len(targets)
    BY LenProperties
<1>2. IsFiniteSet(1 .. Len(targets)) /\ T \in SUBSET (1 .. Len(targets))
    BY <1>1, FS_Interval
<1>3. IsFiniteSet(T)
    BY <1>2, FS_Subset
<1>4. Cardinality(T) \in Nat
    BY <1>3, FS_CardinalityType
<1>5. ~(t \in net.open /\ Peer(t) \in ToSet(targets)) => Cardinality(T) = 0
    BY FS_EmptySet DEF ToSet
<1>6. Copies(targets, t, packet) = [k \in 1 .. Cardinality(T) |-> packet]
    BY DEF Copies
<1> HIDE DEF T
<1>7. [k \in 1 .. Cardinality(T) |-> packet] \in Seq(Packet)
    BY <1>4, SeqDef
<1>8. ToSet([k \in 1 .. Cardinality(T) |-> packet]) = {packet : k \in 1 .. Cardinality(T)}
    BY DEF ToSet
<1>9. Cardinality(T) = 0 => 1 .. Cardinality(T) = {}
    BY <1>4
<1> QED
    BY <1>5, <1>6, <1>7, <1>8, <1>9

LEMMA WriteKeeps ==
    ASSUME net \in Net(Packet), NEW targets \in Seq(Socket \cup {NoSock}), NEW packet \in Packet
    PROVE  /\ Write(targets, packet) \in Net(Packet)
           /\ Write(targets, packet).open = net.open
           /\ Write(targets, packet).host = net.host
           /\ \A t \in Socket :
                 /\ ToSet(Write(targets, packet).inbox[t]) \subseteq ToSet(net.inbox[t]) \cup {packet}
                 /\ packet \in ToSet(Write(targets, packet).inbox[t]) =>
                       \/ packet \in ToSet(net.inbox[t])
                       \/ t \in net.open /\ Peer(t) \in ToSet(targets)
<1> DEFINE w == Write(targets, packet)
<1>1. w.open = net.open /\ w.host = net.host
    BY DEF Write
<1>2. \A t \in Socket : net.inbox[t] \in Seq(Packet)
    BY DEF Net
<1>3. \A t \in Socket : /\ w.inbox[t] = net.inbox[t] \o Copies(targets, t, packet)
                        /\ w.inbox[t] \in Seq(Packet)
                        /\ ToSet(w.inbox[t]) = ToSet(net.inbox[t]) \cup ToSet(Copies(targets, t, packet))
  <2> TAKE t \in Socket
  <2>1. w.inbox[t] = net.inbox[t] \o Copies(targets, t, packet)
      BY DEF Write
  <2>2. Copies(targets, t, packet) \in Seq(Packet)
      BY CopiesAreThat
  <2> QED
      BY <1>2, <2>1, <2>2, EntriesConcat
<1>4. w.inbox \in [Socket -> Seq(Packet)]
  <2>1. w.inbox = [t \in Socket |-> net.inbox[t] \o Copies(targets, t, packet)]
      BY DEF Write
  <2> QED
      BY <1>3, <2>1
<1>5. w.broken \subseteq Socket
  <2>1. ToSet(targets) \ {NoSock} \subseteq Socket
      BY EntriesOf
  <2> QED
      BY <2>1 DEF Write, Net
<1>6. w = [open |-> w.open, host |-> w.host, inbox |-> w.inbox, broken |-> w.broken]
    BY DEF Write
<1> HIDE DEF w
<1>7. w \in Net(Packet)
    BY <1>1, <1>4, <1>5, <1>6 DEF Net
<1>8. \A t \in Socket :
         /\ ToSet(Copies(targets, t, packet)) \subseteq {packet}
         /\ ~(t \in net.open /\ Peer(t) \in ToSet(targets)) =>
                ToSet(Copies(targets, t, packet)) = {}
    BY CopiesAreThat
<1> QED
    BY <1>1, <1>3, <1>7, <1>8 DEF w

-----------------------------------------------------------------------------
(* Facts about single steps.                                               *)

LEMMA SocketsOfTables ==
    ASSUME TypeOK, NEW n \in Node
    PROVE  /\ Sockets(table[n]) \subseteq Socket
           /\ \A s \in Sockets(table[n]) : \E i \in LiveSlots(table[n]) : table[n].sock[i] = s
<1>1. table[n] \in NeighbourTables
    BY DEF TypeOK
<1> QED
    BY <1>1 DEF Sockets, LiveSlots, NeighbourTables

LEMMA TablesKept ==
    ASSUME TablesSound, UNCHANGED table, net'.open = net.open, net'.host = net.host
    PROVE  TablesSound'
BY DEF TablesSound, Sound

\* A servent writes requests of its own, or answers that are true, to its neighbours.
LEMMA WriteIsHonest ==
    ASSUME TypeOK, TablesSound, Honest(net), NEW n \in Node,
           NEW targets \in Seq(Sockets(table[n]) \cup {NoSock}), NEW packet \in Packet,
           net' = Write(targets, packet), UNCHANGED <<holders, table>>,
           packet \in Question => packet.port_source = n,
           packet \in AnswerWithMachines => ToSet(packet.machines) \subseteq Known
    PROVE  net' \in Net(Packet) /\ Honest(net)' /\ TablesSound'
<1>1. net \in Net(Packet) /\ Sockets(table[n]) \subseteq Socket
    BY SocketsOfTables DEF TypeOK
<1>2. targets \in Seq(Socket \cup {NoSock})
    BY <1>1
<1>3. /\ net' \in Net(Packet) /\ net'.open = net.open /\ net'.host = net.host
      /\ \A t \in Socket :
            /\ ToSet(net'.inbox[t]) \subseteq ToSet(net.inbox[t]) \cup {packet}
            /\ packet \in ToSet(net'.inbox[t]) => \/ packet \in ToSet(net.inbox[t])
                                                 \/ Peer(t) \in ToSet(targets)
    BY <1>1, <1>2, WriteKeeps
<1>4. \A s \in ToSet(targets) : s \in Socket => net.host[s] = n
  <2>1. ToSet(targets) \subseteq Sockets(table[n]) \cup {NoSock}
      BY EntriesOf
  <2> QED
      BY <2>1, NoSockNotSocket DEF TablesSound, Sound
<1>5. Known' = Known
    BY DEF Known
<1>6. Honest(net)'
  <2> SUFFICES ASSUME NEW s \in Socket, NEW q \in ToSet(net'.inbox[s])
               PROVE  /\ q \in Question /\ s \in net.open => q.port_source = net.host[Peer(s)]
                      /\ q \in AnswerWithMachines => ToSet(q.machines) \subseteq Known
      BY <1>3, <1>5 DEF Honest
  <2>1. CASE q \in ToSet(net.inbox[s])
      BY <2>1 DEF Honest
  <2>2. CASE q = packet /\ Peer(s) \in ToSet(targets)
      BY <1>4, <2>2, PeerType
  <2> QED
      BY <1>3, <2>1, <2>2
<1>7. TablesSound'
    BY <1>3, TablesKept
<1> QED
    BY <1>3, <1>6, <1>7

LEMMA RequestAdded ==
    ASSUME TypeOK, OthersAsk, NEW n \in Node, NEW r \in Request,
           r.type = "REQUEST_SEARCH_REMOTE" => r.packet.port_source # n,
           pending' = [pending EXCEPT ![n] = Append(@, r)]
    PROVE  pending' \in [Node -> Seq(Request)] /\ OthersAsk'
<1>1. pending \in [Node -> Seq(Request)]
    BY DEF TypeOK
<1>2. Append(pending[n], r) \in Seq(Request)
    BY <1>1
<1>3. ToSet(Append(pending[n], r)) = ToSet(pending[n]) \cup {r}
    BY <1>1, EntriesAppend
<1> QED
    BY <1>1, <1>2, <1>3 DEF OthersAsk

LEMMA RequestServed ==
    ASSUME TypeOK, OthersAsk, NEW n \in Node, pending[n] # << >>,
           pending' = [pending EXCEPT ![n] = Tail(@)]
    PROVE  pending' \in [Node -> Seq(Request)] /\ OthersAsk'
<1>1. pending \in [Node -> Seq(Request)]
    BY DEF TypeOK
<1>2. Tail(pending[n]) \in Seq(Request) /\ ToSet(Tail(pending[n])) \subseteq ToSet(pending[n])
    BY <1>1, EntriesHeadTail
<1> QED
    BY <1>1, <1>2 DEF OthersAsk

LEMMA ClientTold ==
    ASSUME TypeOK, ClientsKnow, NEW n \in Node, NEW answer \in BoundedSeq(Machine, 1),
           ToSet(answer) \subseteq Known,
           client' = [client EXCEPT ![n] = Append(@, answer)], UNCHANGED <<holders, lookup>>
    PROVE  client' \in [Node -> Seq(BoundedSeq(Machine, 1))] /\ ClientsKnow'
<1>1. client \in [Node -> Seq(BoundedSeq(Machine, 1))]
    BY DEF TypeOK
<1>2. Append(client[n], answer) \in Seq(BoundedSeq(Machine, 1))
    BY <1>1
<1>3. ToSet(Append(client[n], answer)) = ToSet(client[n]) \cup {answer}
    BY <1>1, EntriesAppend
<1>4. \A m \in Node : ToSet(client'[m]) \subseteq
                          ToSet(client[m]) \cup (IF m = n THEN {answer} ELSE {})
    BY <1>1, <1>3
<1>5. ClientsKnow'
    BY <1>4 DEF ClientsKnow, Named, Known
<1> QED
    BY <1>1, <1>2, <1>5

LEMMA ClientsKept ==
    ASSUME ClientsKnow, UNCHANGED <<client, lookup, holders>>
    PROVE  ClientsKnow'
BY DEF ClientsKnow, Named, Known

\* answer_remote_search_request: every request is new, and is answered.
LEMMA ReplyIsTrue ==
    ASSUME NEW n \in Node, NEW request \in Question
    PROVE  /\ Reply(n, request) \in AnswerWithMachines
           /\ ToSet(Reply(n, request).machines) \subseteq Known
<1> DEFINE named == IF n \in holders THEN <<n>> ELSE << >>
<1>1. IsUnique(n, request)
    BY DEF IsUnique, ReceivedSearchRequests
<1>2. named \in Seq(Machine) /\ Len(named) <= 1 /\ ToSet(named) \subseteq Known
  <2>1. CASE n \in holders
    <3>1. named = <<n>> /\ n \in Machine
        BY <2>1 DEF Machine
    <3>2. <<n>> \in Seq(Machine) /\ Len(<<n>>) = 1
        BY <3>1
    <3> QED
        BY <2>1, <3>1, <3>2, EntriesOfOne DEF Known
  <2>2. CASE n \notin holders
    <3>1. named = << >> /\ << >> \in Seq(Machine) /\ Len(<< >>) = 0
        BY <2>2
    <3> QED
        BY <3>1, EntriesOfNone
  <2> QED
      BY <2>1, <2>2
<1>3. request.machines = << >>
    BY PacketKinds
<1>4. << >> \o named = named
    BY <1>2, ConcatEmptySeq
<1>5. Reply(n, request) = AnswerPacket(named)
    BY <1>1, <1>3, <1>4 DEF Reply
<1>6. named \in BoundedSeq(Machine, 1)
    BY <1>2, ShortList
<1> QED
    BY <1>2, <1>5, <1>6 DEF AnswerPacket, AnswerWithMachines

LEMMA TargetsAreNeighbours ==
    ASSUME TypeOK, NEW n \in Node
    PROVE  /\ \A t \in Broadcast(n) : t \in Seq(Sockets(table[n]) \cup {NoSock})
           /\ \A source_sock : \A t \in Targets(n, source_sock) :
                 t \in Seq(Sockets(table[n]) \cup {NoSock})
<1> DEFINE S == Sockets(table[n]) \cup {NoSock}
<1>1. ASSUME NEW m \in Nat, NEW t \in [1 .. m -> S] PROVE t \in Seq(S)
    BY <1>1, SeqDef
<1>2. ASSUME NEW t \in Broadcast(n) PROVE t \in Seq(S)
  <2>1. Cardinality(LiveSlots(table[n])) \in Nat
      BY SlotFinite DEF LiveSlots
  <2>2. PICK slots \in [1 .. Cardinality(LiveSlots(table[n])) -> LiveSlots(table[n])] :
           t = [k \in DOMAIN slots |-> table[n].sock[slots[k]]]
      BY <1>2 DEF Broadcast, InOrder
  <2>3. t \in [1 .. Cardinality(LiveSlots(table[n])) -> S]
      BY <2>2 DEF Sockets
  <2> QED
      BY <1>1, <2>1, <2>3
<1>3. ASSUME NEW source_sock, NEW t \in Targets(n, source_sock) PROVE t \in Seq(S)
  <2> DEFINE chosen == {i \in LiveSlots(table[n]) : table[n].sock[i] # source_sock}
  <2>1. Cardinality(chosen) \in Nat
      BY SlotFinite DEF LiveSlots
  <2>2. t \in [1 .. Cardinality(chosen) -> S]
      BY <1>3 DEF Targets
  <2> QED
      BY <1>1, <2>1, <2>2
<1> QED
    BY <1>2, <1>3

\* What handle_search_answer makes of a list.
LEMMA ListAddsUnlisted ==
    ASSUME NEW machines \in Seq(Machine), NEW answer \in Seq(Machine),
           NEW l \in List(machines, answer)
    PROVE  /\ l \in Seq(Machine)
           /\ ToSet(l) \subseteq ToSet(machines) \cup ToSet(answer)
           /\ IsInjective(machines) => IsInjective(l)
<1> DEFINE U == Unlisted(machines, answer)
           m == Cardinality(U)
           M == Len(machines)
<1>1. /\ Len(answer) \in Nat /\ DOMAIN answer = 1 .. Len(answer)
      /\ \A k \in 1 .. Len(answer) : answer[k] \in Machine
      /\ M \in Nat /\ DOMAIN machines = 1 .. M
      /\ \A k \in 1 .. M : machines[k] \in ToSet(machines)
    BY LenProperties, ElementOfSeq, EntriesOf
<1>2. U \subseteq 1 .. Len(answer)
    BY <1>1 DEF Unlisted
<1>3. m \in Nat
  <2>1. IsFiniteSet(U)
    <3>1. IsFiniteSet(1 .. Len(answer)) /\ U \in SUBSET (1 .. Len(answer))
        BY <1>1, <1>2, FS_Interval
    <3> QED
        BY <3>1, FS_Subset
  <2> QED
      BY <2>1, FS_CardinalityType
<1>4. PICK order \in InOrder(U) : l = machines \o [k \in DOMAIN order |-> answer[order[k]]]
    BY DEF List
<1>5. /\ order \in [1 .. m -> U]
      /\ \A i, j \in 1 .. m : i < j => order[i] < order[j]
    BY DEF InOrder
<1> DEFINE added == [k \in 1 .. m |-> answer[order[k]]]
<1>6. /\ l = machines \o added
      /\ added \in Seq(Machine) /\ Len(added) = m
      /\ \A k \in 1 .. m : added[k] = answer[order[k]] /\ order[k] \in U
  <2>1. added \in [1 .. m -> Machine]
      BY <1>1, <1>2, <1>5
  <2>2. added \in Seq(Machine)
      BY <1>3, <2>1, SeqDef
  <2>3. Len(added) = m
      BY <1>3, <2>1, <2>2
  <2> QED
      BY <1>4, <1>5, <2>2, <2>3
<1>7. \A k \in U : /\ k \in 1 .. Len(answer) /\ answer[k] \notin ToSet(machines)
                   /\ \A j \in 1 .. k - 1 : answer[j] # answer[k]
    BY <1>2 DEF Unlisted, HasFileMachineRecord
<1> HIDE DEF added, m, U, M
<1>8. /\ l \in Seq(Machine) /\ DOMAIN l = 1 .. M + m
      /\ \A k \in 1 .. M + m : l[k] = IF k <= M THEN machines[k] ELSE added[k - M]
  <2>1. Len(l) = M + m
      BY <1>6, ConcatProperties DEF M
  <2> QED
      BY <1>6, <2>1, ConcatProperties, LenProperties DEF M
<1>9. ToSet(l) \subseteq ToSet(machines) \cup ToSet(answer)
  <2>1. ToSet(l) = ToSet(machines) \cup ToSet(added)
      BY <1>6, EntriesConcat
  <2>2. ASSUME NEW x \in ToSet(added) PROVE x \in ToSet(answer)
    <3>1. PICK k \in 1 .. m : x = added[k]
        BY <1>6, EntriesOf
    <3>2. order[k] \in 1 .. Len(answer) /\ x = answer[order[k]]
        BY <1>6, <1>7, <3>1
    <3> QED
        BY <3>2, EntriesOf
  <2> QED
      BY <2>1, <2>2
<1>10. ASSUME IsInjective(machines) PROVE IsInjective(l)
  <2>1. \A i, j \in 1 .. M : machines[i] = machines[j] => i = j
      BY <1>1, <1>10 DEF IsInjective, M
  <2>2. \A i \in 1 .. M, j \in 1 .. m : machines[i] # added[j]
    <3> TAKE i \in 1 .. M, j \in 1 .. m
    <3>1. machines[i] \in ToSet(machines)
        BY <1>1 DEF M
    <3>2. added[j] = answer[order[j]] /\ order[j] \in U
        BY <1>6
    <3>3. answer[order[j]] \notin ToSet(machines)
        BY <1>7, <3>2
    <3> QED
        BY <3>1, <3>2, <3>3
  <2>3. \A i, j \in 1 .. m : i < j => added[i] # added[j]
    <3> TAKE i, j \in 1 .. m
    <3> HAVE i < j
    <3>1. order[i] \in U /\ order[j] \in U /\ order[i] < order[j]
        BY <1>5, <1>6
    <3>2. order[i] \in 1 .. order[j] - 1
        BY <1>1, <1>7, <3>1
    <3> QED
        BY <1>6, <1>7, <3>1, <3>2
  <2>4. \A i, j \in 1 .. m : added[i] = added[j] => i = j
      BY <1>3, <2>3
  <2>5. ASSUME NEW i \in 1 .. M + m, NEW j \in 1 .. M + m, l[i] = l[j] PROVE i = j
    <3>1. M \in Nat /\ m \in Nat
        BY <1>1, <1>3 DEF M
    <3>2. CASE i <= M /\ j <= M
        BY <1>8, <2>1, <2>5, <3>1, <3>2
    <3>3. CASE i > M /\ j > M
      <4>1. i - M \in 1 .. m /\ j - M \in 1 .. m /\ added[i - M] = added[j - M]
          BY <1>8, <2>5, <3>1, <3>3
      <4>2. i - M = j - M
          BY <2>4, <4>1
      <4> QED
          BY <3>1, <4>2
    <3>4. CASE i <= M /\ j > M
      <4>1. i \in 1 .. M /\ j - M \in 1 .. m /\ machines[i] = added[j - M]
          BY <1>8, <2>5, <3>1, <3>4
      <4> QED
          BY <2>2, <4>1
    <3>5. CASE i > M /\ j <= M
      <4>1. j \in 1 .. M /\ i - M \in 1 .. m /\ machines[j] = added[i - M]
          BY <1>8, <2>5, <3>1, <3>5
      <4> QED
          BY <2>2, <4>1
    <3> QED
        BY <3>1, <3>2, <3>3, <3>4, <3>5
  <2> QED
      BY <1>8, <2>5 DEF IsInjective
<1> QED
    BY <1>8, <1>9, <1>10

-----------------------------------------------------------------------------
(* Each action keeps the invariant.                                        *)

LEMMA NetKept ==
    ASSUME TypeOK, TablesSound, Honest(net), UNCHANGED <<net, table, holders>>
    PROVE  Honest(net)' /\ TablesSound'
BY DEF Honest, TablesSound, Sound, Known

LEMMA ListsKept ==
    ASSUME MachinesListedOnce, UNCHANGED lookup
    PROVE  MachinesListedOnce'
BY DEF MachinesListedOnce

LEMMA PendingKept ==
    ASSUME OthersAsk, UNCHANGED pending
    PROVE  OthersAsk'
BY DEF OthersAsk

\* leave_network and clear_server: the others keep their ends of the links.
LEMMA LeaveStep == ASSUME IInv, NEW n \in Node, Leave(n) PROVE IInv'
<1> DEFINE S == Sockets(table[n])
           v == SendAll(net, S, LeavePacket)
           H == HostedBy(net, n)
<1>1. /\ net' = CloseAll(v, H) /\ UNCHANGED <<holders, died, client, lookup, searches>>
      /\ up' = up \ {n} /\ table' = [table EXCEPT ![n] = EmptyTable]
      /\ pending' = [pending EXCEPT ![n] = << >>]
    BY DEF Leave
<1>2. net \in Net(Packet) /\ v \in Net(Packet) /\ v.open = net.open /\ v.host = net.host
  <2>1. LeavePacket \in Packet /\ S \in SUBSET Socket
      BY SocketsOfTables DEF Packet, IInv
  <2> QED
      BY <2>1, SendAllType, SendAllEffect DEF IInv, TypeOK
<1>3. /\ net' \in Net(Packet)
      /\ \A t \in Socket : ToSet(net'.inbox[t]) \subseteq ToSet(v.inbox[t])
      /\ \A t \in net.open \ H : /\ t \in net'.open /\ net'.host[t] = net.host[t]
                                 /\ net'.host[Peer(t)] = net.host[Peer(t)]
      /\ net'.open = net.open \ H
    BY <1>1, <1>2, CloseAllKeeps, CloseAllType, CloseAllEffect
<1>4. Honest(net)'
  <2>1. Known' = Known
      BY <1>1 DEF Known
  <2>2. \A t \in Socket : ToSet(net'.inbox[t]) \subseteq ToSet(net.inbox[t]) \cup {LeavePacket}
      BY <1>2, <1>3, SendAllKeeps
  <2>3. Honest(net')
      BY <1>3, <2>2, HonestLess DEF IInv
  <2> QED
      BY <2>1, <2>3 DEF Honest
<1>5. TablesSound'
  <2> SUFFICES ASSUME NEW m \in Node PROVE Sound(net', table'[m], m)
      BY DEF TablesSound
  <2>1. CASE m = n
    <3>1. table'[m] = EmptyTable
        BY <1>1, <2>1 DEF IInv, TypeOK
    <3> QED
        BY <3>1, EmptyTableAccounted DEF Sound
  <2>2. CASE m # n
    <3>1. table'[m] = table[m] /\ Sound(net, table[m], m)
        BY <1>1, <2>2 DEF IInv, TypeOK, TablesSound
    <3>2. \A s \in Sockets(table[m]) : s \in net.open \ H
        BY <2>2, <3>1 DEF Sound, HostedBy
    <3> QED
        BY <1>3, <3>1, <3>2 DEF Sound
  <2> QED
      BY <2>1, <2>2
<1>6. pending' \in [Node -> Seq(Request)] /\ OthersAsk'
  <2>1. << >> \in Seq(Request)
      OBVIOUS
  <2>2. \A m \in Node : pending'[m] \in {<< >>, pending[m]}
      BY <1>1 DEF IInv, TypeOK
  <2> QED
      BY <1>1, <2>1, <2>2, EntriesOfNone DEF IInv, TypeOK, OthersAsk
<1>7. table' \in [Node -> NeighbourTables] /\ \A m \in Node : Accounted(table'[m])
  <2>1. EmptyTable \in NeighbourTables /\ Accounted(EmptyTable)
      BY EmptyTableAccounted DEF Accounted
  <2>2. table \in [Node -> NeighbourTables] /\ \A m \in Node : Accounted(table[m])
      BY DEF IInv, TypeOK
  <2>3. \A m \in Node : table'[m] \in {EmptyTable, table[m]}
      BY <1>1, <2>2
  <2>4. table' \in [Node -> NeighbourTables]
      BY <1>1, <2>1, <2>2
  <2> QED
      BY <2>1, <2>2, <2>3, <2>4
<1>8. TypeOK'
    BY <1>1, <1>3, <1>6, <1>7 DEF IInv, TypeOK
<1> QED
    BY <1>1, <1>4, <1>5, <1>6, <1>8, ClientsKept, ListsKept DEF IInv

LEMMA SearchFileStep == ASSUME IInv, NEW n \in Node, SearchFile(n) PROVE IInv'
<1>1. /\ UNCHANGED <<holders, up, died, net, table, client, lookup>>
      /\ searches < MaxSearch /\ searches' = searches + 1
      /\ pending' = [pending EXCEPT ![n] = Append(@, LocalRequest)]
    BY DEF SearchFile
<1>2. LocalRequest \in Request /\ LocalRequest.type # "REQUEST_SEARCH_REMOTE"
    BY DEF LocalRequest, Request
<1>3. pending' \in [Node -> Seq(Request)] /\ OthersAsk'
    BY <1>1, <1>2, RequestAdded DEF IInv
<1>4. searches' \in 0 .. MaxSearch
    BY <1>1, SearchAssumption DEF IInv, TypeOK
<1>5. TypeOK'
    BY <1>1, <1>3, <1>4 DEF IInv, TypeOK
<1> QED
    BY <1>1, <1>3, <1>5, NetKept, ClientsKept, ListsKept DEF IInv

\* A packet is read from a neighbour.
LEMMA ReceiveIsHonest ==
    ASSUME IInv, NEW n \in Node, NEW s \in Socket, NEW type, FirstPacket(n, s, type),
           net' = Receive(net, s), UNCHANGED <<holders, table>>
    PROVE  net' \in Net(Packet) /\ Honest(net)' /\ TablesSound'
<1>1. net \in Net(Packet) /\ net.inbox[s] # << >>
    BY FirstIsUnread DEF IInv, TypeOK
<1>2. /\ net' \in Net(Packet) /\ net'.open = net.open /\ net'.host = net.host
      /\ \A t \in Socket : ToSet(net'.inbox[t]) \subseteq ToSet(net.inbox[t])
    BY <1>1, ReceiveType, ReceiveEffect, ReceiveKeeps
<1>3. Known' = Known
    BY DEF Known
<1>4. Honest(net')
    BY <1>2, HonestLess DEF IInv
<1>5. Honest(net)'
    BY <1>3, <1>4 DEF Honest
<1> QED
    BY <1>2, <1>5, TablesKept DEF IInv

LEMMA ReadsSearchStep ==
    ASSUME IInv, NEW n \in Node, NEW s \in Socket, ReadsSearch(n, s)
    PROVE  IInv'
<1>1. PICK source_sock \in Sockets(table[n]) \cup {NoSock} :
         pending' = [pending EXCEPT ![n] =
                        Append(@, RemoteRequest(source_sock, Head(net.inbox[s])))]
    BY DEF ReadsSearch
<1>2. /\ FirstPacket(n, s, "CMSG_SEARCH_REQUEST") /\ net' = Receive(net, s)
      /\ UNCHANGED <<holders, up, died, table, client, lookup, searches>>
    BY DEF ReadsSearch
<1> DEFINE p == Head(net.inbox[s])
           q == RemoteRequest(source_sock, p)
<1>3. p \in Question /\ p \in ToSet(net.inbox[s]) /\ s \in Sockets(table[n])
    BY <1>2, FirstIsUnread, PacketKinds DEF IInv, TypeOK
<1>4. p.port_source # n
    BY <1>3 DEF IInv, Honest, TablesSound, Sound
<1> HIDE DEF p
<1>5. /\ q \in Request
      /\ q.type = "REQUEST_SEARCH_REMOTE" => q.packet.port_source # n
    BY <1>3, <1>4, SocketsOfTables DEF IInv, RemoteRequest, Request
<1>6. pending' \in [Node -> Seq(Request)] /\ OthersAsk'
    BY <1>1, <1>5, RequestAdded DEF IInv, p
<1>7. net' \in Net(Packet) /\ Honest(net)' /\ TablesSound'
    BY <1>2, ReceiveIsHonest
<1>8. TypeOK'
    BY <1>2, <1>6, <1>7 DEF IInv, TypeOK
<1> QED
    BY <1>2, <1>6, <1>7, <1>8, ClientsKept, ListsKept DEF IInv

\* A name that is not ended becomes no servent's.
LEMMA SpoiltIsKnown ==
    ASSUME NEW machines \in BoundedSeq(Machine, 1), ToSet(machines) \subseteq Known,
           NEW ended \in BOOLEAN, NEW answer,
           answer = [k \in DOMAIN machines |-> IF ended THEN machines[k] ELSE Junk]
    PROVE  answer \in BoundedSeq(Machine, 1) /\ ToSet(answer) \subseteq Known
<1>1. /\ machines \in Seq(Machine) /\ Len(machines) <= 1 /\ Len(machines) \in Nat
      /\ DOMAIN machines = 1 .. Len(machines)
      /\ \A k \in 1 .. Len(machines) : machines[k] \in Machine /\ machines[k] \in Known
    BY ShortList, LenProperties, ElementOfSeq, EntriesOf
<1>2. Junk \in Machine /\ Junk \in Known
    BY DEF Machine, Known
<1>3. answer \in [1 .. Len(machines) -> Machine]
    BY <1>1, <1>2
<1>4. answer \in Seq(Machine)
    BY <1>1, <1>3, SeqDef
<1>5. Len(answer) = Len(machines)
    BY <1>1, <1>3, <1>4
<1>6. \A k \in 1 .. Len(answer) : answer[k] \in Known
    BY <1>1, <1>2, <1>5
<1>7. ToSet(answer) = {answer[k] : k \in 1 .. Len(answer)}
    BY <1>4, EntriesOf
<1> QED
    BY <1>1, <1>4, <1>5, <1>6, <1>7, ShortList

LEMMA ReadsAnswerStep ==
    ASSUME IInv, NEW n \in Node, NEW s \in Socket, ReadsAnswer(n, s)
    PROVE  IInv'
<1> DEFINE p == Head(net.inbox[s])
<1>1. PICK ended \in BOOLEAN :
         client' = [client EXCEPT ![n] = Append(@,
                      [k \in DOMAIN p.machines |-> IF ended THEN p.machines[k] ELSE Junk])]
    BY DEF ReadsAnswer
<1>2. /\ FirstPacket(n, s, "SMSG_SEARCH_REQUEST") /\ net' = Receive(net, s)
      /\ UNCHANGED <<holders, up, died, table, pending, lookup, searches>>
    BY DEF ReadsAnswer
<1>3. p \in AnswerWithMachines /\ p \in ToSet(net.inbox[s])
    BY <1>2, FirstIsUnread, PacketKinds DEF IInv, TypeOK
<1>4. p.machines \in BoundedSeq(Machine, 1) /\ ToSet(p.machines) \subseteq Known
    BY <1>3 DEF IInv, Honest, AnswerWithMachines
<1> HIDE DEF p
<1> DEFINE answer == [k \in DOMAIN p.machines |-> IF ended THEN p.machines[k] ELSE Junk]
<1>5. answer \in BoundedSeq(Machine, 1) /\ ToSet(answer) \subseteq Known
    BY <1>4, SpoiltIsKnown
<1>6. client' = [client EXCEPT ![n] = Append(@, answer)]
    BY <1>1
<1> HIDE DEF answer
<1>7. client' \in [Node -> Seq(BoundedSeq(Machine, 1))] /\ ClientsKnow'
    BY <1>2, <1>5, <1>6, ClientTold DEF IInv
<1>8. net' \in Net(Packet) /\ Honest(net)' /\ TablesSound'
    BY <1>2, ReceiveIsHonest
<1>9. TypeOK'
    BY <1>2, <1>7, <1>8 DEF IInv, TypeOK
<1> QED
    BY <1>2, <1>7, <1>8, <1>9, PendingKept, ListsKept DEF IInv

\* handle_leave: the entry is emptied, and the socket closed.
LEMMA ReadsLeaveStep ==
    ASSUME IInv, NEW n \in Node, NEW s \in Socket, ReadsLeave(n, s)
    PROVE  IInv'
<1> DEFINE v == Receive(net, s)
           i == CHOOSE j \in LiveSlots(table[n]) : table[n].sock[j] = s
<1>1. /\ FirstPacket(n, s, "CMSG_LEAVE") /\ net' = CloseAll(v, {s})
      /\ table' = [table EXCEPT ![n] = DropNeighbour(@, i)]
      /\ UNCHANGED <<holders, up, died, pending, client, lookup, searches>>
    BY DEF ReadsLeave
<1>2. net \in Net(Packet) /\ net.inbox[s] # << >> /\ s \in Sockets(table[n])
    BY <1>1, FirstIsUnread DEF IInv, TypeOK
<1>3. v \in Net(Packet) /\ v.open = net.open /\ v.host = net.host
    BY <1>2, ReceiveType, ReceiveEffect
<1>4. /\ net' \in Net(Packet) /\ net'.open = net.open \ {s}
      /\ \A t \in Socket : ToSet(net'.inbox[t]) \subseteq ToSet(net.inbox[t])
      /\ \A t \in net.open \ {s} : /\ t \in net'.open /\ net'.host[t] = net.host[t]
                                   /\ net'.host[Peer(t)] = net.host[Peer(t)]
  <2>1. \A t \in Socket : ToSet(v.inbox[t]) \subseteq ToSet(net.inbox[t])
      BY <1>2, ReceiveKeeps
  <2> HIDE DEF v
  <2>2. net' \in Net(Packet) /\ net'.open = net.open \ {s}
      BY <1>1, <1>3, CloseAllType, CloseAllEffect
  <2>3. /\ \A t \in Socket : ToSet(net'.inbox[t]) \subseteq ToSet(v.inbox[t])
        /\ \A t \in net.open \ {s} : /\ t \in net'.open /\ net'.host[t] = net.host[t]
                                     /\ net'.host[Peer(t)] = net.host[Peer(t)]
      BY <1>1, <1>3, CloseAllKeeps
  <2> QED
      BY <2>1, <2>2, <2>3
<1>5. Honest(net)'
  <2>1. Known' = Known
      BY <1>1 DEF Known
  <2>2. Honest(net')
      BY <1>4, HonestLess DEF IInv
  <2> QED
      BY <2>1, <2>2 DEF Honest
<1>6. i \in LiveSlots(table[n]) /\ table[n].sock[i] = s
    BY <1>2, SocketsOfTables DEF IInv
<1> HIDE DEF i
<1>7. Accounted(table[n])
    BY DEF IInv, TypeOK
<1>8. /\ Accounted(DropNeighbour(table[n], i))
      /\ Sockets(DropNeighbour(table[n], i)) = Sockets(table[n]) \ {s}
    BY <1>6, <1>7, DropNeighbourAccounted
<1>9. /\ table' \in [Node -> NeighbourTables] /\ \A m \in Node : Accounted(table'[m])
      /\ \A m \in Node : table'[m] = IF m = n THEN DropNeighbour(table[n], i) ELSE table[m]
    BY <1>1, <1>8 DEF IInv, TypeOK, Accounted
<1>10. TablesSound'
  <2> SUFFICES ASSUME NEW m \in Node PROVE Sound(net', table'[m], m)
      BY DEF TablesSound
  <2>1. Sound(net, table[m], m) /\ Sound(net, table[n], n)
      BY DEF IInv, TablesSound
  <2>2. Sockets(table'[m]) \subseteq Sockets(table[m]) \ {s}
    <3>1. CASE m = n
        BY <1>8, <1>9, <3>1
    <3>2. CASE m # n
      <4>1. net.host[s] = n
          BY <1>2, <2>1 DEF Sound
      <4>2. s \notin Sockets(table[m])
          BY <2>1, <3>2, <4>1 DEF Sound
      <4> QED
          BY <1>9, <3>2, <4>2
    <3> QED
        BY <3>1, <3>2
  <2> QED
      BY <1>4, <2>1, <2>2 DEF Sound
<1>11. TypeOK'
    BY <1>1, <1>4, <1>9 DEF IInv, TypeOK
<1> QED
    BY <1>1, <1>5, <1>10, <1>11, PendingKept, ClientsKept, ListsKept DEF IInv

LEMMA AnswerLocalStep == ASSUME IInv, NEW n \in Node, AnswerLocal(n) PROVE IInv'
<1>1. /\ pending[n] # << >> /\ pending' = [pending EXCEPT ![n] = Tail(@)]
      /\ UNCHANGED <<holders, up, table, lookup, searches>>
    BY DEF AnswerLocal, Serves
<1>2. pending' \in [Node -> Seq(Request)] /\ OthersAsk'
    BY <1>1, RequestServed DEF IInv
<1>3. CASE /\ n \in holders /\ UNCHANGED <<net, died>>
           /\ client' = [client EXCEPT ![n] = Append(@, <<n>>)]
  <2> DEFINE answer == <<n>>
  <2>1. answer \in Seq(Machine) /\ Len(answer) <= 1 /\ ToSet(answer) = {n}
      BY EntriesOfOne DEF Machine
  <2>2. client' = [client EXCEPT ![n] = Append(@, answer)]
      BY <1>3
  <2> HIDE DEF answer
  <2>3. answer \in BoundedSeq(Machine, 1) /\ ToSet(answer) \subseteq Known
      BY <1>3, <2>1, ShortList DEF Known
  <2>4. client' \in [Node -> Seq(BoundedSeq(Machine, 1))] /\ ClientsKnow'
      BY <1>1, <2>2, <2>3, ClientTold DEF IInv
  <2>5. TypeOK'
      BY <1>1, <1>2, <1>3, <2>4 DEF IInv, TypeOK
  <2> QED
      BY <1>1, <1>2, <1>3, <2>4, <2>5, NetKept, ListsKept DEF IInv
<1>4. CASE /\ UNCHANGED client
           /\ \E targets \in Broadcast(n) :
                 Sends(n, targets, SearchPacket(n, DefaultTtl, << >>))
  <2> DEFINE packet == SearchPacket(n, DefaultTtl, << >>)
  <2>1. packet \in Question /\ packet.port_source = n
      BY SearchAssumption DEF SearchPacket, Question
  <2> HIDE DEF packet
  <2>2. PICK targets \in Broadcast(n) : Sends(n, targets, packet)
      BY <1>4 DEF packet
  <2>3. net' = Write(targets, packet) /\ died' \in {died, died \cup {n}}
      BY <2>2 DEF Sends
  <2>4. net' \in Net(Packet) /\ Honest(net)' /\ TablesSound'
    <3>1. packet \in Packet /\ packet \notin AnswerWithMachines
        BY <2>1, PacketKinds DEF Packet
    <3> QED
        BY <1>1, <2>1, <2>3, <3>1, WriteIsHonest, TargetsAreNeighbours DEF IInv
  <2>5. TypeOK'
      BY <1>1, <1>2, <1>4, <2>3, <2>4 DEF IInv, TypeOK
  <2> QED
      BY <1>1, <1>2, <1>4, <2>4, <2>5, ClientsKept, ListsKept DEF IInv
<1> QED
    BY <1>3, <1>4 DEF AnswerLocal

LEMMA AnswerRemoteStep == ASSUME IInv, NEW n \in Node, AnswerRemote(n) PROVE IInv'
<1> DEFINE r == Head(pending[n])
<1>1. /\ pending[n] # << >> /\ pending' = [pending EXCEPT ![n] = Tail(@)]
      /\ r.type = "REQUEST_SEARCH_REMOTE"
      /\ UNCHANGED <<holders, up, table, lookup, searches>>
    BY DEF AnswerRemote, Serves
<1>2. pending' \in [Node -> Seq(Request)] /\ OthersAsk'
    BY <1>1, RequestServed DEF IInv
<1>3. r.packet \in Question
  <2>1. pending[n] \in Seq(Request)
      BY DEF IInv, TypeOK
  <2>2. r \in Request
      BY <1>1, <2>1, EntriesHeadTail
  <2>3. r # LocalRequest
      BY <1>1 DEF LocalRequest
  <2> QED
      BY <2>2, <2>3 DEF Request
<1>4. CASE ForwardToLocal(n, r.packet)
  <2>1. client' = [client EXCEPT ![n] = Append(@, << >>)] /\ died' \in {died, died \cup {n}}
        /\ net' = net
      BY <1>3, <1>4, PacketKinds DEF ForwardToLocal
  <2> DEFINE answer == << >>
  <2>2. answer \in Seq(Machine) /\ Len(answer) <= 1 /\ ToSet(answer) \subseteq Known
      BY EntriesOfNone
  <2>3. client' = [client EXCEPT ![n] = Append(@, answer)]
      BY <2>1
  <2> HIDE DEF answer
  <2>4. answer \in BoundedSeq(Machine, 1)
      BY <2>2, ShortList
  <2>5. client' \in [Node -> Seq(BoundedSeq(Machine, 1))] /\ ClientsKnow'
      BY <1>1, <2>1, <2>2, <2>3, <2>4, ClientTold DEF IInv
  <2>6. TypeOK'
      BY <1>1, <1>2, <2>1, <2>5 DEF IInv, TypeOK
  <2> QED
      BY <1>1, <1>2, <2>1, <2>5, <2>6, NetKept, ListsKept DEF IInv
<1>5. CASE /\ UNCHANGED client
           /\ \E targets \in Targets(n, r.source_sock) : Sends(n, targets, Reply(n, r.packet))
  <2> DEFINE packet == Reply(n, r.packet)
  <2>1. packet \in AnswerWithMachines /\ ToSet(packet.machines) \subseteq Known
      BY <1>3, ReplyIsTrue
  <2> HIDE DEF packet
  <2>2. PICK targets \in Targets(n, r.source_sock) : Sends(n, targets, packet)
      BY <1>5 DEF packet
  <2>3. net' = Write(targets, packet) /\ died' \in {died, died \cup {n}}
      BY <2>2 DEF Sends
  <2>4. net' \in Net(Packet) /\ Honest(net)' /\ TablesSound'
    <3>1. packet \in Packet /\ packet \notin Question
        BY <2>1, PacketKinds DEF Packet
    <3> QED
        BY <1>1, <2>1, <2>3, <3>1, WriteIsHonest, TargetsAreNeighbours DEF IInv
  <2>5. TypeOK'
      BY <1>1, <1>2, <1>5, <2>3, <2>4 DEF IInv, TypeOK
  <2> QED
      BY <1>1, <1>2, <1>5, <2>4, <2>5, ClientsKept, ListsKept DEF IInv
<1> QED
    BY <1>4, <1>5 DEF AnswerRemote

\* handle_search_answer.
LEMMA CommandStep == ASSUME IInv, NEW n \in Node, Command(n) PROVE IInv'
<1> DEFINE answer == Head(client[n])
<1>1. /\ client[n] # << >> /\ client' = [client EXCEPT ![n] = Tail(@)]
      /\ UNCHANGED <<holders, up, died, net, table, pending, searches>>
    BY DEF Command
<1>2. PICK machines \in IF HasFileRecord(n) THEN List(lookup[n][1], answer) ELSE {answer} :
         lookup' = [lookup EXCEPT ![n] = <<machines>>]
    BY DEF Command
<1>3. client \in [Node -> Seq(BoundedSeq(Machine, 1))] /\ lookup \in [Node -> Seq(Seq(Machine))]
      /\ Len(lookup[n]) <= 1
    BY DEF IInv, TypeOK
<1>4. /\ answer \in ToSet(client[n]) /\ answer \in BoundedSeq(Machine, 1)
      /\ Tail(client[n]) \in Seq(BoundedSeq(Machine, 1))
      /\ ToSet(Tail(client[n])) \subseteq ToSet(client[n])
    BY <1>1, <1>3, EntriesHeadTail
<1> HIDE DEF answer
<1>5. answer \in Seq(Machine) /\ ToSet(answer) \subseteq Known /\ IsInjective(answer)
  <2>1. answer \in Seq(Machine) /\ Len(answer) <= 1 /\ Len(answer) \in Nat
        /\ DOMAIN answer = 1 .. Len(answer)
      BY <1>4, ShortList, LenProperties
  <2>2. IsInjective(answer)
      BY <2>1 DEF IsInjective
  <2> QED
      BY <1>4, <2>1, <2>2 DEF IInv, ClientsKnow, Named
<1>6. machines \in Seq(Machine) /\ ToSet(machines) \subseteq Known /\ IsInjective(machines)
  <2>1. CASE HasFileRecord(n)
    <3>1. 1 \in 1 .. Len(lookup[n]) /\ DOMAIN lookup[n] = 1 .. Len(lookup[n])
      <4>1. Len(lookup[n]) \in Nat \ {0}
          BY <1>3, <2>1, EmptySeq DEF HasFileRecord
      <4> QED
          BY <1>3, <4>1, LenProperties
    <3>2. lookup[n][1] \in Seq(Machine) /\ lookup[n][1] \in ToSet(lookup[n])
        BY <1>3, <3>1, EntriesOf, ElementOfSeq
    <3>3. ToSet(lookup[n][1]) \subseteq Known /\ IsInjective(lookup[n][1])
        BY <3>1, <3>2 DEF IInv, ClientsKnow, Named, MachinesListedOnce
    <3> QED
        BY <1>2, <1>5, <2>1, <3>2, <3>3, ListAddsUnlisted
  <2> QED
      BY <1>2, <1>5, <2>1
<1>7. <<machines>> \in Seq(Seq(Machine)) /\ Len(<<machines>>) = 1
      /\ ToSet(<<machines>>) = {machines} /\ DOMAIN <<machines>> = {1} /\ <<machines>>[1] = machines
    BY <1>6, EntriesOfOne
<1> DEFINE one == <<machines>>
<1>8. lookup' = [lookup EXCEPT ![n] = one]
    BY <1>2
<1> HIDE DEF one
<1>9. /\ one \in Seq(Seq(Machine)) /\ Len(one) = 1 /\ ToSet(one) = {machines}
      /\ DOMAIN one = {1} /\ one[1] = machines
    BY <1>7 DEF one
<1>10. /\ lookup' \in [Node -> Seq(Seq(Machine))] /\ \A m \in Node : Len(lookup'[m]) <= 1
       /\ \A m \in Node : lookup'[m] = IF m = n THEN one ELSE lookup[m]
  <2>1. \A m \in Node : lookup'[m] = IF m = n THEN one ELSE lookup[m]
      BY <1>3, <1>8
  <2>2. lookup' \in [Node -> Seq(Seq(Machine))]
      BY <1>3, <1>8, <1>9
  <2>3. \A m \in Node : Len(lookup[m]) <= 1
      BY DEF IInv, TypeOK
  <2>4. Len(one) <= 1
      BY <1>9
  <2> QED
      BY <2>1, <2>2, <2>3, <2>4
<1>11. /\ client' \in [Node -> Seq(BoundedSeq(Machine, 1))]
       /\ \A m \in Node : ToSet(client'[m]) \subseteq ToSet(client[m])
    BY <1>1, <1>3, <1>4
<1>12. ClientsKnow'
  <2> SUFFICES ASSUME NEW m \in Node, NEW a \in ToSet(client'[m]) \cup ToSet(lookup'[m])
               PROVE  ToSet(a) \subseteq Known
      BY <1>1 DEF ClientsKnow, Named, Known
  <2>1. a \in ToSet(client[m]) \cup ToSet(lookup[m]) \/ a = machines
      BY <1>9, <1>10, <1>11
  <2> QED
      BY <1>6, <2>1 DEF IInv, ClientsKnow, Named
<1>13. MachinesListedOnce'
    BY <1>6, <1>9, <1>10 DEF IInv, MachinesListedOnce
<1>14. TypeOK'
    BY <1>1, <1>10, <1>11 DEF IInv, TypeOK
<1> QED
    BY <1>1, <1>12, <1>13, <1>14, NetKept, PendingKept DEF IInv

-----------------------------------------------------------------------------
(* The theorems.                                                           *)

LEMMA InitInv == ASSUME Init PROVE IInv
<1>1. /\ holders \subseteq Node /\ up = Node /\ died = {} /\ net = StartNet /\ table = StartTable
      /\ pending = [n \in Node |-> << >>] /\ client = [n \in Node |-> << >>]
      /\ lookup = [n \in Node |-> << >>] /\ searches = 0
    BY DEF Init
<1>2. net \in Net(Packet) /\ \A s \in Socket : net.inbox[s] = << >>
  <2>1. StartNet \in Net({})
      BY SearchAssumption
  <2>2. \A s \in Socket : StartNet.inbox[s] \in Seq({})
      BY <2>1 DEF Net
  <2>3. \A q \in Seq({}) : q = << >>
      BY EmptySeq, ElementOfSeq
  <2>4. \A s \in Socket : StartNet.inbox[s] = << >>
      BY <2>2, <2>3
  <2>5. StartNet.inbox \in [Socket -> Seq(Packet)]
      BY <2>1, <2>4 DEF Net
  <2> QED
      BY <1>1, <2>1, <2>4, <2>5 DEF Net
<1>3. TypeOK
  <2>1. \A S : << >> \in Seq(S) /\ Len(<< >>) = 0
      OBVIOUS
  <2>2. 0 \in 0 .. MaxSearch
      BY SearchAssumption
  <2> QED
      BY <1>1, <1>2, <2>1, <2>2, SearchAssumption DEF TypeOK
<1>4. TablesSound
    BY <1>1, SearchAssumption DEF TablesSound
<1>5. Honest(net)
    BY <1>2, EntriesOfNone DEF Honest
<1>6. OthersAsk /\ ClientsKnow
    BY <1>1, EntriesOfNone DEF OthersAsk, ClientsKnow, Named
<1>7. MachinesListedOnce
  <2>1. DOMAIN << >> = {}
      OBVIOUS
  <2> QED
      BY <1>1, <2>1 DEF MachinesListedOnce
<1> QED
    BY <1>3, <1>4, <1>5, <1>6, <1>7 DEF IInv

LEMMA StutterInv == ASSUME IInv, UNCHANGED vars PROVE IInv'
<1>1. UNCHANGED <<holders, up, died, net, table, pending, client, lookup, searches>>
    BY DEF vars
<1>2. TypeOK'
    BY <1>1 DEF IInv, TypeOK
<1> QED
    BY <1>1, <1>2, NetKept, PendingKept, ClientsKept, ListsKept DEF IInv

LEMMA NextInv == ASSUME IInv, [Next]_vars PROVE IInv'
<1>1. CASE UNCHANGED vars
    BY <1>1, StutterInv
<1>2. ASSUME NEW n \in Node, Leave(n) PROVE IInv'
    BY <1>2, LeaveStep
<1>3. ASSUME NEW n \in Node, SearchFile(n) PROVE IInv'
    BY <1>3, SearchFileStep
<1>4. ASSUME NEW n \in Node, Command(n) PROVE IInv'
    BY <1>4, CommandStep
<1>5. ASSUME NEW n \in Node, NEW s \in Socket,
             ReadsSearch(n, s) \/ ReadsAnswer(n, s) \/ ReadsLeave(n, s)
      PROVE  IInv'
    BY <1>5, ReadsSearchStep, ReadsAnswerStep, ReadsLeaveStep
<1>6. ASSUME NEW n \in Node, AnswerLocal(n) PROVE IInv'
    BY <1>6, AnswerLocalStep
<1>7. ASSUME NEW n \in Node, AnswerRemote(n) PROVE IInv'
    BY <1>7, AnswerRemoteStep
<1> QED
    BY <1>1, <1>2, <1>3, <1>4, <1>5, <1>6, <1>7 DEF Next

LEMMA IInvHolds == Spec => []IInv
<1>1. Init => IInv
    BY InitInv
<1>2. IInv /\ [Next]_vars => IInv'
    BY NextInv
<1> QED
    BY <1>1, <1>2, PTL DEF Spec

\* No queue of a servent, connection or client of the search has anything else than it is
\* for, and nb_neighbours counts the neighbours, for any servents and overlay.
THEOREM SearchTypeCorrect == Spec => []TypeOK
<1>1. IInv => TypeOK
    BY DEF IInv
<1> QED
    BY IInvHolds, <1>1, PTL

LEMMA UnreadIsTrue ==
    ASSUME IInv, NEW n \in Node, NEW p \in Waiting(n)
    PROVE  /\ p \in Question => p.port_source # n
           /\ p \in AnswerWithMachines => ToSet(p.machines) \subseteq Known
           /\ p \in Packet
<1>1. CASE p \in Unread(n)
  <2>1. PICK s \in Sockets(table[n]) : p \in ToSet(net.inbox[s])
      BY <1>1 DEF Unread
  <2>2. s \in Socket /\ s \in net.open /\ net.host[Peer(s)] # n
      BY <2>1, SocketsOfTables DEF IInv, TablesSound, Sound
  <2>3. net.inbox[s] \in Seq(Packet)
      BY <2>2 DEF IInv, TypeOK, Net
  <2>4. p \in Packet
      BY <2>1, <2>3, EntriesOf
  <2> QED
      BY <2>1, <2>2, <2>4 DEF IInv, Honest
<1>2. CASE p \notin Unread(n)
  <2>1. PICK r \in ToSet(pending[n]) : r.type = "REQUEST_SEARCH_REMOTE" /\ p = r.packet
      BY <1>2 DEF Waiting
  <2>2. r \in Request
      BY <2>1, EntriesOf DEF IInv, TypeOK
  <2>3. r # LocalRequest
      BY <2>1 DEF LocalRequest
  <2>4. p \in Question
      BY <2>1, <2>2, <2>3 DEF Request
  <2>5. p.port_source # n
      BY <2>1 DEF IInv, OthersAsk
  <2> QED
      BY <2>4, <2>5, PacketKinds DEF Packet
<1> QED
    BY <1>1, <1>2

\* answer_local_search_request asks the neighbours, and answer_remote_search_request never
\* asks on: no servent is asked its own question, for any overlay and number of searches,
\* whatever source_sock is.
THEOREM NobodyAsksItself == Spec => []QuestionsNeverComeHome
<1>1. IInv => QuestionsNeverComeHome
  <2> SUFFICES ASSUME IInv, NEW n \in Node, NEW p \in SearchesAt(n) PROVE p.port_source # n
      BY DEF QuestionsNeverComeHome
  <2>1. p \in Waiting(n) /\ p.type = "CMSG_SEARCH_REQUEST"
      BY DEF SearchesAt
  <2>2. p \in Question
      BY <2>1, UnreadIsTrue, PacketKinds
  <2> QED
      BY <2>1, <2>2, UnreadIsTrue
<1> QED
    BY IInvHolds, <1>1, PTL

\* From answer_remote_search_request to the list the client shows: nobody is named who has
\* not the file, whatever is written to the wrong sockets and whoever leaves, for any overlay.
THEOREM NobodyElseIsNamed == Spec => []NamedMachinesAreHolders
<1>1. IInv => NamedMachinesAreHolders
  <2> SUFFICES ASSUME IInv, NEW n \in Node,
                      NEW x \in Named(n) \cup UNION {ToSet(p.machines) : p \in Waiting(n) \ {LeavePacket}}
               PROVE  x \in Known
      BY DEF NamedMachinesAreHolders, Spoken, Known
  <2>1. CASE x \in Named(n)
      BY <2>1 DEF IInv, ClientsKnow
  <2>2. ASSUME NEW p \in Waiting(n) \ {LeavePacket}, x \in ToSet(p.machines) PROVE x \in Known
    <3>1. p \in Question \/ p \in AnswerWithMachines
        BY UnreadIsTrue DEF Packet
    <3>2. CASE p \in Question
      <4>1. ToSet(p.machines) = {}
          BY <3>2, PacketKinds, EntriesOfNone
      <4> QED
          BY <2>2, <4>1
    <3>3. CASE p \in AnswerWithMachines
        BY <2>2, <3>3, UnreadIsTrue
    <3> QED
        BY <3>1, <3>2, <3>3
  <2> QED
      BY <2>1, <2>2
<1> QED
    BY IInvHolds, <1>1, PTL

\* handle_search_answer: a machine is listed once, however many neighbours name it and
\* however often the file is searched.
THEOREM NobodyIsListedTwice == Spec => []MachinesListedOnce
<1>1. IInv => MachinesListedOnce
    BY DEF IInv
<1> QED
    BY IInvHolds, <1>1, PTL
=============================================================================
