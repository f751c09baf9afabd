---------------------------- MODULE OverlayProofs ----------------------------
(***************************************************************************)
(* Overlay for any number of servents, any table size and any number of    *)
(* attempts, in three parts.                                               *)
(*   - Types, and the accounting of sockets: IInv is inductive.            *)
(*   - What the two ends of a connection know of each other: LinksInOrder  *)
(*     is inductive relative to IInv.  Its clauses speak of both ends, so  *)
(*     no action preserves one alone.  LinkContract states what any step   *)
(*     does to the connections in terms of the sockets it reads, writes,   *)
(*     closes and opens; ContractStep shows once that such a step keeps    *)
(*     LinksInOrder, and one lemma per action that it is such a step.      *)
(*   - A cycle of servents that wait for each other lasts.                 *)
(***************************************************************************)
EXTENDS Overlay, NetworkLemmas, SequenceTheorems

-----------------------------------------------------------------------------
(* Type correctness.                                                       *)

LEMMA MessageFields ==
    ASSUME NEW m \in Message
    PROVE  /\ m.op = "SMSG_NEIGHBOURS" => m.list \in Seq(Address)
           /\ m.op = "SMSG_JOIN" => m.join \in BOOLEAN
           /\ m.op = "CMSG_JOIN" => m.rescue \in BOOLEAN
  BY DEF Message

LEMMA MessagesAreMessages ==
    /\ NeighboursRequest \in Message /\ Leave \in Message
    /\ \A list \in Seq(Address) : [op |-> "SMSG_NEIGHBOURS", list |-> list] \in Message
    /\ \A b \in BOOLEAN : /\ [op |-> "CMSG_JOIN", rescue |-> b] \in Message
                          /\ [op |-> "SMSG_JOIN", join |-> b] \in Message
  BY DEF Message, NeighboursRequest, Leave

LEMMA NoQueryType == NoQuery \in Query
  BY OverlayAssumption DEF NoQuery, Query, Address

\* Returning from the innermost call keeps the types of its locals.
LEMMA ForgetLocalsType ==
    ASSUME TypeOK, NEW n \in Node, ForgetLocals(n)
    PROVE  /\ asked' \in [Node -> Socket \cup {NoSock}]
           /\ \A m \in Node \ {n} : asked'[m] = asked[m]
           /\ query' \in [Node -> Query]
           /\ dial' \in [Node -> Seq(Address)]
           /\ tried' \in [Node -> Seq(Address)]
           /\ awaiting' \in [Node -> Seq(Socket)]
  BY NoQueryType, EmptySeq DEF TypeOK, ForgetLocals

\* A process that ends leaves a well-typed state.
LEMMA DisappearType ==
    ASSUME TypeOK, NEW n \in Node, NEW w \in Net(Message), Disappear(n, w),
           crashed' \in SUBSET Node, leavers' \in SUBSET Node
    PROVE  TypeOK'
  <1>1. /\ phase' \in [Node -> Phase]
        /\ phase'[n] = "down" /\ \A m \in Node \ {n} : phase'[m] = phase[m]
        /\ booting' \in [Node -> BOOLEAN]
        /\ selfIp' \in [Node -> {"null", "valid", "dangling"}]
    BY DEF TypeOK, Disappear, Phase
  <1>2. /\ todo' \in [Node -> Seq(Frame)]
        /\ \A m \in Node : \A k \in DOMAIN todo'[m] : todo'[m][k].addrs # << >>
    BY DEF TypeOK, Disappear
  <1>3. ForgetLocals(n)
    BY DEF Disappear
  <1>4. table' \in [Node -> NeighbourTables]
    BY EmptyTableAccounted DEF TypeOK, Disappear, Accounted
  <1>5. net' \in Net(Message)
    BY CloseAllType DEF Disappear
  <1>6. \A m \in Node : phase'[m] \in {"neigh", "list"} => asked'[m] \in Socket
    BY <1>1, <1>3, ForgetLocalsType DEF TypeOK
  <1> QED
    BY <1>1, <1>2, <1>3, <1>4, <1>5, <1>6, ForgetLocalsType DEF TypeOK

LEMMA LongTail ==
    ASSUME NEW T, NEW s \in Seq(T), s # << >>, Len(s) # 1
    PROVE  Tail(s) \in Seq(T) /\ Tail(s) # << >>
  <1>1. Len(s) \in Nat \ {0}
    BY EmptySeq
  <1>2. Tail(s) \in Seq(T) /\ Len(Tail(s)) = Len(s) - 1
    BY HeadTailProperties
  <1>3. Len(Tail(s)) # 0
    BY <1>1, <1>2
  <1>4. Len(<< >>) = 0
    BY EmptySeq
  <1> QED
    BY <1>2, <1>3, <1>4, Zenon

LEMMA PoppedType ==
    ASSUME NEW stack \in Seq(Frame), stack # << >>,
           \A k \in DOMAIN stack : stack[k].addrs # << >>
    PROVE  /\ Head(stack) \in Frame /\ Head(stack).addrs # << >>
           /\ Popped(stack) \in Seq(Frame)
           /\ \A k \in DOMAIN Popped(stack) : Popped(stack)[k].addrs # << >>
  <1> DEFINE top == Head(stack)
             rest == Tail(stack)
  <1>1. /\ top \in Frame /\ top.addrs # << >>
        /\ rest \in Seq(Frame) /\ \A k \in DOMAIN rest : rest[k].addrs # << >>
    OBVIOUS
  <1>2. CASE Len(top.addrs) = 1
    BY <1>1, <1>2 DEF Popped
  <1>3. CASE Len(top.addrs) # 1
    <2> DEFINE less == [left |-> top.left, addrs |-> Tail(top.addrs)]
    <2>1. top.left \in 0 .. JoinMaxAttempts /\ top.addrs \in Seq(Address)
      BY <1>1 DEF Frame
    <2>2. Tail(top.addrs) \in Seq(Address) /\ Tail(top.addrs) # << >>
      BY <1>1, <1>3, <2>1, LongTail
    <2>3. less \in Frame /\ less.addrs # << >>
      BY <2>1, <2>2 DEF Frame
    <2>4. Popped(stack) = <<less>> \o rest
      BY <1>3 DEF Popped
    <2> HIDE DEF less, rest
    <2> QED
      BY <1>1, <2>3, <2>4
  <1> QED
    BY <1>1, <1>2, <1>3

\* The network and the list of sockets that join() leaves.
LEMMA JoinType ==
    ASSUME TypeOK, NEW n \in Node, NEW a, NEW rescue \in BOOLEAN,
           NEW w \in Net(Message), Join(n, a, rescue, w)
    PROVE  net' \in Net(Message) /\ awaiting' \in [Node -> Seq(Socket)]
  <1>1. CASE net' = w /\ UNCHANGED awaiting
    BY <1>1 DEF TypeOK
  <1>2. ASSUME Listening(a), NEW c \in Conn,
               net' = Dial(w, c, n, a, [op |-> "CMSG_JOIN", rescue |-> rescue]),
               awaiting' = [awaiting EXCEPT ![n] = Append(@, Caller(c))]
        PROVE  net' \in Net(Message) /\ awaiting' \in [Node -> Seq(Socket)]
    <2>1. net' \in Net(Message)
      BY <1>2, DialType, MessagesAreMessages DEF Listening
    <2>2. Append(awaiting[n], Caller(c)) \in Seq(Socket)
      BY CallerCalleeType DEF TypeOK
    <2> QED
      BY <1>2, <2>1, <2>2 DEF TypeOK
  <1> QED
    BY <1>1, <1>2 DEF Join

-----------------------------------------------------------------------------
(* Every action keeps the types.                                           *)

LEMMA AskFailsType ==
    ASSUME TypeOK, NEW n \in Node, NEW w \in Net(Message), AskFails(n, w),
           ~booting[n] => /\ todo' \in [Node -> Seq(Frame)]
                          /\ \A m \in Node : \A k \in DOMAIN todo'[m] :
                                todo'[m][k].addrs # << >>
    PROVE  TypeOK'
  <1>1. CASE booting[n]
    BY <1>1, DisappearType DEF AskFails, TypeOK
  <1>2. CASE ~booting[n]
    <2>1. /\ phase' = [phase EXCEPT ![n] = "ask"]
          /\ ForgetLocals(n) /\ net' = w
          /\ UNCHANGED <<booting, selfIp, table, crashed, leavers>>
      BY <1>2 DEF AskFails
    <2>2. /\ phase' \in [Node -> Phase]
          /\ phase'[n] = "ask" /\ \A m \in Node \ {n} : phase'[m] = phase[m]
      BY <2>1 DEF TypeOK, Phase
    <2>3. \A m \in Node : phase'[m] \in {"neigh", "list"} => asked'[m] \in Socket
      BY <2>1, <2>2, ForgetLocalsType DEF TypeOK
    <2> QED
      BY <1>2, <2>1, <2>2, <2>3, ForgetLocalsType DEF TypeOK
  <1> QED
    BY <1>1, <1>2

LEMMA StartType ==
    ASSUME TypeOK, NEW n \in Node, Start(n)
    PROVE  TypeOK'
  <1>1. CASE Contact[n] = NoNode
    BY <1>1 DEF Start, TypeOK, Phase, locals
  <1>2. CASE Contact[n] # NoNode
    <2> DEFINE first == [left |-> JoinMaxAttempts, addrs |-> <<Contact[n]>>]
    <2>1. first \in Frame /\ first.addrs # << >>
      <3>1. Contact[n] \in Address
        BY <1>2, OverlayAssumption DEF Address
      <3>2. JoinMaxAttempts \in 0 .. JoinMaxAttempts /\ <<Contact[n]>> \in Seq(Address)
        BY <3>1, OverlayAssumption
      <3> QED
        BY <3>2 DEF Frame
    <2> HIDE DEF first
    <2>2. /\ phase' = [phase EXCEPT ![n] = "ask"]
          /\ booting' = [booting EXCEPT ![n] = TRUE]
          /\ todo' = [todo EXCEPT ![n] = <<first>>]
          /\ UNCHANGED <<asked, query, dial, tried, awaiting, selfIp, table, net,
                         crashed, leavers>>
      BY <1>2 DEF Start, locals, first
    <2>3. /\ <<first>> \in Seq(Frame)
          /\ \A k \in DOMAIN <<first>> : <<first>>[k].addrs # << >>
      BY <2>1
    <2>4. /\ todo' \in [Node -> Seq(Frame)]
          /\ \A m \in Node : \A k \in DOMAIN todo'[m] : todo'[m][k].addrs # << >>
      BY <2>2, <2>3 DEF TypeOK
    <2> QED
      BY <2>2, <2>4 DEF TypeOK, Phase
  <1> QED
    BY <1>1, <1>2

LEMMA AskNeighboursType ==
    ASSUME TypeOK, NEW n \in Node, AskNeighbours(n)
    PROVE  TypeOK'
  <1> DEFINE frame == Head(todo[n])
             a == Head(frame.addrs)
  <1>1. /\ frame \in Frame /\ frame.addrs # << >>
        /\ Popped(todo[n]) \in Seq(Frame)
        /\ \A k \in DOMAIN Popped(todo[n]) : Popped(todo[n])[k].addrs # << >>
    BY PoppedType DEF TypeOK, AskNeighbours
  <1>2. a \in Address /\ frame.left \in 0 .. JoinMaxAttempts
    BY <1>1, HeadTailProperties DEF Frame
  <1> HIDE DEF frame, a
  <1>3. ASSUME todo' = [todo EXCEPT ![n] = Popped(@)]
        PROVE  /\ todo' \in [Node -> Seq(Frame)]
               /\ \A m \in Node : \A k \in DOMAIN todo'[m] : todo'[m][k].addrs # << >>
    BY <1>1, <1>3 DEF TypeOK
  <1>4. CASE AskFails(n, net) /\ (booting[n] \/ todo' = [todo EXCEPT ![n] = Popped(@)])
    BY <1>3, <1>4, AskFailsType DEF TypeOK
  <1>5. ASSUME NEW c \in Conn, Listening(a),
               net' = Dial(net, c, n, a, NeighboursRequest),
               asked' = [asked EXCEPT ![n] = Caller(c)],
               query' = [query EXCEPT ![n] = [target |-> a, left |-> frame.left, got |-> 0]],
               phase' = [phase EXCEPT ![n] = "neigh"],
               todo' = [todo EXCEPT ![n] = Popped(@)],
               selfIp' = [selfIp EXCEPT ![n] = IF @ = "null" THEN "dangling" ELSE @],
               UNCHANGED <<booting, dial, tried, awaiting, table, crashed, leavers>>
        PROVE  TypeOK'
    <2>1. net' \in Net(Message)
      BY <1>5, DialType, MessagesAreMessages DEF Listening, TypeOK
    <2>2. /\ asked' \in [Node -> Socket \cup {NoSock}]
          /\ \A m \in Node : phase'[m] \in {"neigh", "list"} => asked'[m] \in Socket
      BY <1>5, CallerCalleeType DEF TypeOK
    <2>3. query' \in [Node -> Query]
      BY <1>2, <1>5 DEF TypeOK, Query
    <2>4. /\ phase' \in [Node -> Phase]
          /\ selfIp' \in [Node -> {"null", "valid", "dangling"}]
      BY <1>5 DEF TypeOK, Phase
    <2> QED
      BY <1>3, <1>5, <2>1, <2>2, <2>3, <2>4 DEF TypeOK
  <1> QED
    BY <1>4, <1>5 DEF AskNeighbours, frame, a

LEMMA TakeListType ==
    ASSUME TypeOK, NEW n \in Node, NEW list \in Seq(Address), NEW w \in Net(Message),
           TakeList(n, list, w), asked[n] \in Socket
    PROVE  TypeOK'
  <1>1. Len(list) \in Nat
    OBVIOUS
  <1>2. query' \in [Node -> Query]
    BY <1>1 DEF TakeList, TypeOK, Query
  <1>3. dial' \in [Node -> Seq(Address)]
    BY DEF TakeList, TypeOK
  <1>4. /\ phase' \in [Node -> Phase] /\ booting' \in [Node -> BOOLEAN]
        /\ \A m \in Node : phase'[m] \in {"neigh", "list"} => asked'[m] \in Socket
    BY DEF TakeList, TypeOK, Phase
  <1> QED
    BY <1>2, <1>3, <1>4 DEF TakeList, TypeOK

LEMMA HeadOfInbox ==
    ASSUME TypeOK, NEW s \in Socket, net.inbox[s] # << >>
    PROVE  Head(net.inbox[s]) \in Message
  <1>1. net.inbox[s] \in Seq(Message)
    BY DEF TypeOK, Net
  <1> QED
    BY <1>1, HeadTailProperties

LEMMA ReadNeighboursType ==
    ASSUME TypeOK, NEW n \in Node, ReadNeighbours(n)
    PROVE  TypeOK'
  <1> DEFINE s == asked[n]
  <1>1. s \in Socket /\ net \in Net(Message)
    BY DEF TypeOK, ReadNeighbours
  <1>2. CASE /\ HasPacket(s, "SMSG_NEIGHBOURS")
             /\ TakeList(n, Head(net.inbox[s]).list, Receive(net, s))
    BY <1>1, <1>2, HeadOfInbox, MessageFields, ReceiveType, TakeListType DEF HasPacket
  <1>3. CASE AskFails(n, CloseAll(net, {s})) /\ (booting[n] \/ UNCHANGED todo)
    BY <1>1, <1>3, CloseAllType, AskFailsType DEF TypeOK
  <1>4. ASSUME NEW list \in StaleLists, TakeList(n, list, net)
        PROVE  TypeOK'
    <2>1. list \in Seq(Address)
      <3>1. Unreachable \in Address
        BY DEF Address
      <3>2. << >> \in Seq(Address) /\ <<Unreachable>> \in Seq(Address)
        BY <3>1
      <3>3. list = << >> \/ list = <<Unreachable>>
        BY DEF StaleLists
      <3> QED
        BY <3>2, <3>3, Zenon
    <2> QED
      BY <1>1, <1>4, <2>1, TakeListType
  <1> QED
    BY <1>2, <1>3, <1>4 DEF ReadNeighbours

LEMMA DialListedType ==
    ASSUME TypeOK, NEW n \in Node, DialListed(n)
    PROVE  TypeOK'
  <1> DEFINE a == Head(dial[n])
  <1>1. /\ dial[n] \in Seq(Address) /\ dial[n] # << >>
        /\ net \in Net(Message) /\ tried[n] \in Seq(Address)
    BY DEF TypeOK, DialListed
  <1>2. a \in Address /\ Tail(dial[n]) \in Seq(Address)
    BY <1>1, HeadTailProperties
  <1>3. dial' \in [Node -> Seq(Address)]
    BY <1>2 DEF TypeOK, DialListed
  <1> HIDE DEF a
  <1>4. /\ tried' \in [Node -> Seq(Address)]
        /\ net' \in Net(Message) /\ awaiting' \in [Node -> Seq(Socket)]
    <2>1. CASE UNCHANGED <<tried, awaiting, net>>
      BY <2>1 DEF TypeOK
    <2>2. CASE tried' = [tried EXCEPT ![n] = Append(@, a)] /\ Join(n, a, FALSE, net)
      <3>1. Append(tried[n], a) \in Seq(Address)
        BY <1>1, <1>2
      <3>2. tried' \in [Node -> Seq(Address)]
        BY <2>2, <3>1 DEF TypeOK
      <3> QED
        BY <1>1, <2>2, <3>2, JoinType
    <2> QED
      BY <2>1, <2>2 DEF DialListed, a
  <1> QED
    BY <1>3, <1>4 DEF TypeOK, DialListed

LEMMA DialContactType ==
    ASSUME TypeOK, NEW n \in Node, DialContact(n)
    PROVE  TypeOK'
  <1> DEFINE w == CloseAll(net, {asked[n]})
             a == query[n].target
  <1>1. a \in Address /\ w \in Net(Message)
    BY CloseAllType DEF TypeOK, Query
  <1> HIDE DEF a, w
  <1>2. /\ tried' \in [Node -> Seq(Address)]
        /\ net' \in Net(Message) /\ awaiting' \in [Node -> Seq(Socket)]
    <2>1. CASE net' = w /\ UNCHANGED <<tried, awaiting>>
      BY <1>1, <2>1 DEF TypeOK
    <2>2. CASE /\ tried' = [tried EXCEPT ![n] = Append(@, a)]
               /\ Join(n, a, query[n].got = 0, w)
      <3>1. Append(tried[n], a) \in Seq(Address)
        BY <1>1 DEF TypeOK
      <3>2. tried' \in [Node -> Seq(Address)]
        BY <2>2, <3>1 DEF TypeOK
      <3> QED
        BY <1>1, <2>2, <3>2, JoinType
    <2> QED
      BY <2>1, <2>2 DEF DialContact, a, w
  <1>3. /\ phase' \in [Node -> Phase]
        /\ asked' \in [Node -> Socket \cup {NoSock}]
        /\ \A m \in Node : phase'[m] \in {"neigh", "list"} => asked'[m] \in Socket
    BY DEF TypeOK, DialContact, Phase
  <1> QED
    BY <1>2, <1>3 DEF TypeOK, DialContact

LEMMA JoinAnsweredType ==
    ASSUME TypeOK, NEW n \in Node, awaiting[n] # << >>, NEW yes \in BOOLEAN,
           NEW w \in Net(Message), JoinAnswered(n, Head(awaiting[n]), yes, w)
    PROVE  TypeOK'
  <1> DEFINE s == Head(awaiting[n])
  <1>1. s \in Socket /\ Tail(awaiting[n]) \in Seq(Socket)
    BY HeadTailProperties DEF TypeOK
  <1>2. awaiting' \in [Node -> Seq(Socket)]
    BY <1>1 DEF TypeOK, JoinAnswered
  <1>3. table' \in [Node -> NeighbourTables]
    BY <1>1, AddNeighbourType DEF TypeOK, JoinAnswered
  <1>4. net' \in Net(Message)
    BY CloseAllType DEF JoinAnswered
  <1> QED
    BY <1>2, <1>3, <1>4 DEF TypeOK, JoinAnswered

LEMMA ReadJoinAnswerType ==
    ASSUME TypeOK, NEW n \in Node, ReadJoinAnswer(n)
    PROVE  TypeOK'
  <1> DEFINE s == Head(awaiting[n])
  <1>1. s \in Socket /\ net \in Net(Message) /\ awaiting[n] # << >>
    BY HeadTailProperties DEF TypeOK, ReadJoinAnswer
  <1>2. CASE /\ HasPacket(s, "SMSG_JOIN")
             /\ JoinAnswered(n, s, Head(net.inbox[s]).join, Receive(net, s))
    BY <1>1, <1>2, HeadOfInbox, MessageFields, ReceiveType, JoinAnsweredType DEF HasPacket
  <1>3. CASE Dies(n, net)
    BY <1>1, <1>3, DisappearType DEF Dies, TypeOK
  <1>4. ASSUME NEW yes \in BOOLEAN, JoinAnswered(n, s, yes, net)
        PROVE  TypeOK'
    BY <1>1, <1>4, JoinAnsweredType
  <1> QED
    BY <1>2, <1>3, <1>4 DEF ReadJoinAnswer

LEMMA EndCallType ==
    ASSUME TypeOK, NEW n \in Node, EndCall(n)
    PROVE  TypeOK'
  <1>1. ForgetLocals(n)
    BY DEF EndCall
  <1>2. /\ phase' \in [Node -> Phase]
        /\ phase'[n] = "ask" /\ \A m \in Node \ {n} : phase'[m] = phase[m]
    BY DEF TypeOK, EndCall, Phase
  <1>3. \A m \in Node : phase'[m] \in {"neigh", "list"} => asked'[m] \in Socket
    BY <1>1, <1>2, ForgetLocalsType DEF TypeOK
  <1>4. /\ todo' \in [Node -> Seq(Frame)]
        /\ \A m \in Node : \A k \in DOMAIN todo'[m] : todo'[m][k].addrs # << >>
    <2> DEFINE more == [left |-> query[n].left - 1, addrs |-> tried[n]]
    <2>1. CASE todo' = todo
      BY <2>1 DEF TypeOK
    <2>2. CASE /\ query[n].left > 0 /\ tried[n] # << >>
               /\ todo' = [todo EXCEPT ![n] = <<more>> \o @]
      <3>1. query[n].left - 1 \in 0 .. JoinMaxAttempts
        BY <2>2, OverlayAssumption DEF TypeOK, Query
      <3>2. more \in Frame /\ more.addrs # << >>
        BY <2>2, <3>1 DEF TypeOK, Frame
      <3> HIDE DEF more
      <3>3. /\ <<more>> \o todo[n] \in Seq(Frame)
            /\ \A k \in DOMAIN (<<more>> \o todo[n]) : (<<more>> \o todo[n])[k].addrs # << >>
        BY <3>2 DEF TypeOK
      <3> QED
        BY <2>2, <3>3 DEF TypeOK
    <2> QED
      BY <2>1, <2>2 DEF EndCall
  <1> QED
    BY <1>1, <1>2, <1>3, <1>4, ForgetLocalsType DEF TypeOK, EndCall

LEMMA EndJoinType ==
    ASSUME TypeOK, NEW n \in Node, EndJoin(n)
    PROVE  TypeOK'
  BY DEF TypeOK, EndJoin, Phase, joinVars, locals

LEMMA NeighboursReply ==
    ASSUME TypeOK, NEW n \in Node, NEW s \in Socket, AnswerNeighbours(n, s)
    PROVE  \E reply \in Message :
              /\ reply.op = "SMSG_NEIGHBOURS"
              /\ net' = CloseAll(SendAll(Receive(net, s), {s}, reply), {s})
  <1> DEFINE live == LiveSlots(table[n])
  <1>1. PICK order \in InOrder(live), shown \in [live -> Address] :
           net' = CloseAll(SendAll(Receive(net, s), {s},
                                   [op |-> "SMSG_NEIGHBOURS",
                                    list |-> [k \in DOMAIN order |-> shown[order[k]]]]), {s})
    BY DEF AnswerNeighbours
  <1> DEFINE list == [k \in DOMAIN order |-> shown[order[k]]]
  <1>2. list \in Seq(Address)
    <2>1. Cardinality(live) \in Nat
      BY SlotFinite DEF LiveSlots
    <2>2. order \in [1 .. Cardinality(live) -> live]
      BY DEF InOrder
    <2> HIDE DEF live
    <2>3. list \in [1 .. Cardinality(live) -> Address]
      BY <2>2
    <2> QED
      BY <2>1, <2>3, IsASeq
  <1> DEFINE reply == [op |-> "SMSG_NEIGHBOURS", list |-> list]
  <1>3. net' = CloseAll(SendAll(Receive(net, s), {s}, reply), {s})
    BY <1>1
  <1> HIDE DEF list
  <1>4. reply \in Message /\ reply.op = "SMSG_NEIGHBOURS"
    BY <1>2, MessagesAreMessages
  <1> QED
    BY <1>3, <1>4

LEMMA AnswerNeighboursType ==
    ASSUME TypeOK, NEW n \in Node, NEW s \in Socket, AnswerNeighbours(n, s)
    PROVE  net' \in Net(Message)
  <1>1. PICK reply \in Message : net' = CloseAll(SendAll(Receive(net, s), {s}, reply), {s})
    BY NeighboursReply
  <1>2. Receive(net, s) \in Net(Message)
    BY ReceiveType DEF TypeOK, AnswerNeighbours, HasPacket
  <1>3. SendAll(Receive(net, s), {s}, reply) \in Net(Message)
    BY <1>2, SendAllType
  <1> QED
    BY <1>1, <1>3, CloseAllType

LEMMA AnswerJoinType ==
    ASSUME TypeOK, NEW n \in Node, NEW s \in Socket, AnswerJoin(n, s)
    PROVE  /\ net' \in Net(Message)
           /\ table' \in [Node -> NeighbourTables]
           /\ selfIp' \in [Node -> {"null", "valid", "dangling"}]
  <1>1. PICK yes \in BOOLEAN :
           LET answered == SendAll(Receive(net, s), {s}, [op |-> "SMSG_JOIN", join |-> yes])
           IN  /\ net' = IF yes THEN answered ELSE CloseAll(answered, {s})
               /\ table' = IF yes THEN [table EXCEPT ![n] = AddNeighbour(@, s)] ELSE table
    BY DEF AnswerJoin
  <1>2. SendAll(Receive(net, s), {s}, [op |-> "SMSG_JOIN", join |-> yes]) \in Net(Message)
    BY ReceiveType, SendAllType, MessagesAreMessages DEF TypeOK, AnswerJoin, HasPacket
  <1>3. net' \in Net(Message)
    BY <1>1, <1>2, CloseAllType
  <1>4. table' \in [Node -> NeighbourTables]
    BY <1>1, AddNeighbourType DEF TypeOK
  <1>5. selfIp' \in [Node -> {"null", "valid", "dangling"}]
    BY DEF TypeOK, AnswerJoin
  <1> QED
    BY <1>3, <1>4, <1>5

LEMMA ServeType ==
    ASSUME TypeOK, NEW n \in Node, NEW s \in Socket, Serve(n, s)
    PROVE  TypeOK'
  <1>1. /\ net' \in Net(Message)
        /\ table' \in [Node -> NeighbourTables]
        /\ selfIp' \in [Node -> {"null", "valid", "dangling"}]
    <2>1. CASE AnswerNeighbours(n, s) /\ UNCHANGED <<selfIp, table>>
      BY <2>1, AnswerNeighboursType DEF TypeOK
    <2>2. CASE AnswerJoin(n, s)
      BY <2>2, AnswerJoinType
    <2> QED
      BY <2>1, <2>2 DEF Serve, AnswerNeighbours
  <1> QED
    BY <1>1 DEF TypeOK, Serve, joinVars, locals

LEMMA PeerAddressesType ==
    ASSUME TypeOK, NEW s \in net.open, NEW a \in PeerAddresses(s)
    PROVE  a \in Address
  <1>1. s \in Socket /\ Peer(s) \in Socket
    BY PeerType DEF TypeOK, Net
  <1> QED
    BY <1>1 DEF PeerAddresses, TypeOK, Net, Address

-----------------------------------------------------------------------------
(* Sockets in order.  Most actions of n leave another servent's sockets as  *)
(* they are.                                                               *)

LEMMA OthersInOrder ==
    ASSUME SocketAccounting, NEW n \in Node,
           \A m \in Node \ {n} : /\ table'[m] = table[m] /\ asked'[m] = asked[m]
                                 /\ awaiting'[m] = awaiting[m]
                                 /\ HostedBy(net, m) \subseteq HostedBy(net', m),
           SocketsInOrder(n)'
    PROVE  SocketAccounting'
  <1>1. ASSUME NEW m \in Node \ {n}
        PROVE  SocketsInOrder(m)'
    BY <1>1 DEF SocketAccounting, SocketsInOrder
  <1> QED
    BY <1>1 DEF SocketAccounting

\* Different machines host different ends.
LEMMA HostsDiffer ==
    ASSUME NEW w, NEW n, NEW m, m # n
    PROVE  HostedBy(w, m) \cap HostedBy(w, n) = {}
  BY DEF HostedBy

LEMMA SameSocketsInOrder ==
    ASSUME SocketAccounting, UNCHANGED <<table, asked, awaiting>>,
           \A m \in Node : HostedBy(net, m) \subseteq HostedBy(net', m)
    PROVE  SocketAccounting'
  BY DEF SocketAccounting, SocketsInOrder

LEMMA DisappearInOrder ==
    ASSUME TypeOK, SocketAccounting, NEW n \in Node, NEW w \in Net(Message), Disappear(n, w),
           \A m \in Node \ {n} : HostedBy(w, m) = HostedBy(net, m)
    PROVE  SocketAccounting'
  <1>1. /\ table'[n] = EmptyTable /\ asked'[n] = NoSock /\ awaiting'[n] = << >>
        /\ \A m \in Node \ {n} : /\ table'[m] = table[m] /\ asked'[m] = asked[m]
                                 /\ awaiting'[m] = awaiting[m]
    BY DEF Disappear, ForgetLocals, TypeOK
  <1>2. SocketsInOrder(n)'
    BY <1>1, EmptyTableAccounted DEF SocketsInOrder
  <1>3. ASSUME NEW m \in Node \ {n}
        PROVE  HostedBy(net, m) \subseteq HostedBy(net', m)
    BY HostedByCloseAll, HostsDiffer DEF Disappear
  <1> QED
    BY <1>1, <1>2, <1>3, OthersInOrder

\* Returning from a call gives up sockets, and may close those given up.
LEMMA ForgetInOrder ==
    ASSUME TypeOK, SocketAccounting, NEW n \in Node, ForgetLocals(n), UNCHANGED table,
           \A m \in Node \ {n} : HostedBy(net, m) \subseteq HostedBy(net', m),
           Sockets(table[n]) \subseteq HostedBy(net', n)
    PROVE  SocketAccounting'
  <1>1. /\ asked'[n] = NoSock /\ awaiting'[n] = << >>
        /\ \A m \in Node \ {n} : asked'[m] = asked[m] /\ awaiting'[m] = awaiting[m]
    BY DEF ForgetLocals, TypeOK
  <1>2. SocketsInOrder(n)'
    BY <1>1 DEF SocketsInOrder, SocketAccounting
  <1> QED
    BY <1>1, <1>2, OthersInOrder

\* Closing the connection that was asked concerns nobody else.
LEMMA CloseAskedHosts ==
    ASSUME TypeOK, SocketAccounting, NEW n \in Node
    PROVE  LET w == CloseAll(net, {asked[n]})
           IN  /\ w \in Net(Message)
               /\ \A m \in Node \ {n} : HostedBy(w, m) = HostedBy(net, m)
               /\ HostedBy(w, n) = HostedBy(net, n) \ {asked[n]}
  <1> DEFINE w == CloseAll(net, {asked[n]})
  <1>1. w \in Net(Message) /\ \A m : HostedBy(w, m) = HostedBy(net, m) \ {asked[n]}
    BY CloseAllType, HostedByCloseAll DEF TypeOK
  <1> HIDE DEF w
  <1>2. asked[n] = NoSock \/ asked[n] \in HostedBy(net, n)
    BY DEF SocketAccounting, SocketsInOrder
  <1>3. \A m : NoSock \notin HostedBy(net, m)
    BY NoSockNotSocket DEF HostedBy, TypeOK, Net
  <1>4. ASSUME NEW m \in Node \ {n}
        PROVE  HostedBy(w, m) = HostedBy(net, m)
    BY <1>1, <1>2, <1>3, <1>4, HostsDiffer
  <1> QED
    BY <1>1, <1>4 DEF w

LEMMA AskFailsInOrder ==
    ASSUME TypeOK, SocketAccounting, NEW n \in Node, NEW w \in Net(Message), AskFails(n, w),
           w = net \/ w = CloseAll(net, {asked[n]})
    PROVE  SocketAccounting'
  <1>1. /\ \A m \in Node \ {n} : HostedBy(w, m) = HostedBy(net, m)
        /\ HostedBy(net, n) \ {asked[n]} \subseteq HostedBy(w, n)
    BY CloseAskedHosts
  <1>2. CASE booting[n]
    BY <1>1, <1>2, DisappearInOrder DEF AskFails
  <1>3. CASE ~booting[n]
    <2>1. Sockets(table[n]) \subseteq HostedBy(net, n) \ {asked[n]}
      BY NoSockNotSocket DEF SocketAccounting, SocketsInOrder, HostedBy, TypeOK, Net
    <2> QED
      BY <1>1, <1>3, <2>1, ForgetInOrder DEF AskFails
  <1> QED
    BY <1>2, <1>3

LEMMA AskNeighboursInOrder ==
    ASSUME TypeOK, SocketAccounting, NEW n \in Node, AskNeighbours(n)
    PROVE  SocketAccounting'
  <1>1. CASE AskFails(n, net)
    BY <1>1, AskFailsInOrder DEF TypeOK
  <1>2. ASSUME NEW c \in Conn, NEW a, NextConn(net, c),
               net' = Dial(net, c, n, a, NeighboursRequest),
               asked' = [asked EXCEPT ![n] = Caller(c)],
               UNCHANGED <<awaiting, table>>
        PROVE  SocketAccounting'
    <2>1. /\ \A m \in Node : HostedBy(net, m) \subseteq HostedBy(net', m)
          /\ Caller(c) \in HostedBy(net', n) /\ Caller(c) \notin HostedBy(net, n)
      BY <1>2, HostedByDial DEF NextConn, TypeOK
    <2>2. asked'[n] = Caller(c) /\ \A m \in Node \ {n} : asked'[m] = asked[m]
      BY <1>2 DEF TypeOK
    <2>3. SocketsInOrder(n)
      BY DEF SocketAccounting
    <2>4. SocketsInOrder(n)'
      BY <1>2, <2>1, <2>2, <2>3 DEF SocketsInOrder, Caller
    <2> QED
      BY <1>2, <2>1, <2>2, <2>4, OthersInOrder
  <1> QED
    BY <1>1, <1>2 DEF AskNeighbours

LEMMA ReadNeighboursInOrder ==
    ASSUME TypeOK, SocketAccounting, NEW n \in Node, ReadNeighbours(n)
    PROVE  SocketAccounting'
  <1>1. ASSUME NEW list, NEW w, TakeList(n, list, w),
               \A m : HostedBy(w, m) = HostedBy(net, m)
        PROVE  SocketAccounting'
    BY <1>1, SameSocketsInOrder DEF TakeList
  <1>2. CASE AskFails(n, CloseAll(net, {asked[n]}))
    BY <1>2, CloseAskedHosts, AskFailsInOrder
  <1> QED
    BY <1>1, <1>2, HostedByReceive DEF ReadNeighbours

\* join() over a network w in which the servent still has its sockets, except
\* perhaps the connection that was asked.
LEMMA JoinInOrder ==
    ASSUME TypeOK, SocketAccounting, NEW n \in Node, NEW a, NEW rescue,
           NEW w \in Net(Message), Join(n, a, rescue, w), UNCHANGED table,
           \A m \in Node \ {n} : /\ asked'[m] = asked[m]
                                 /\ HostedBy(net, m) \subseteq HostedBy(w, m),
           Sockets(table[n]) \subseteq HostedBy(w, n),
           \A k \in DOMAIN awaiting[n] : awaiting[n][k] \in HostedBy(w, n),
           \/ asked'[n] = NoSock
           \/ asked'[n] = asked[n] /\ (asked[n] = NoSock \/ asked[n] \in HostedBy(w, n))
    PROVE  SocketAccounting'
  <1>1. SocketsInOrder(n)
    BY DEF SocketAccounting
  <1>2. \A s \in HostedBy(w, n) : s # NoSock
    BY NoSockNotSocket DEF HostedBy, Net
  <1>3. CASE net' = w /\ UNCHANGED awaiting
    <2>1. SocketsInOrder(n)'
      BY <1>1, <1>2, <1>3 DEF SocketsInOrder
    <2> QED
      BY <1>3, <2>1, OthersInOrder
  <1>4. ASSUME NEW c \in Conn, NextConn(w, c),
               net' = Dial(w, c, n, a, [op |-> "CMSG_JOIN", rescue |-> rescue]),
               awaiting' = [awaiting EXCEPT ![n] = Append(@, Caller(c))]
        PROVE  SocketAccounting'
    <2>1. /\ \A m \in Node : HostedBy(w, m) \subseteq HostedBy(net', m)
          /\ Caller(c) \in HostedBy(net', n) /\ Caller(c) \notin HostedBy(w, n)
      BY <1>4, HostedByDial DEF NextConn
    <2>2. /\ awaiting'[n] = Append(awaiting[n], Caller(c))
          /\ \A m \in Node \ {n} : awaiting'[m] = awaiting[m]
          /\ awaiting[n] \in Seq(Socket) /\ Caller(c) \in Socket
      BY <1>4, CallerCalleeType DEF TypeOK
    <2>3. /\ DOMAIN awaiting[n] = 1 .. Len(awaiting[n])
          /\ DOMAIN awaiting'[n] = 1 .. Len(awaiting[n]) + 1
          /\ \A k \in DOMAIN awaiting[n] : awaiting'[n][k] = awaiting[n][k]
          /\ awaiting'[n][Len(awaiting[n]) + 1] = Caller(c)
          /\ \A k \in DOMAIN awaiting'[n] : k \in DOMAIN awaiting[n] \/ k = Len(awaiting[n]) + 1
      BY <2>2
    <2>4. \A k \in DOMAIN awaiting'[n] :
             /\ awaiting'[n][k] \in HostedBy(net', n) \ Sockets(table[n])
             /\ awaiting'[n][k][2] = "caller" /\ awaiting'[n][k] # asked'[n]
      <3>1. ASSUME NEW k \in DOMAIN awaiting[n]
            PROVE  /\ awaiting'[n][k] \in HostedBy(net', n) \ Sockets(table[n])
                   /\ awaiting'[n][k][2] = "caller" /\ awaiting'[n][k] # asked'[n]
        BY <1>1, <1>2, <2>1, <2>3 DEF SocketsInOrder
      <3>2. /\ Caller(c) \in HostedBy(net', n) \ Sockets(table[n])
            /\ Caller(c)[2] = "caller" /\ Caller(c) # asked'[n]
        BY <2>1, <2>2, NoSockNotSocket DEF Caller
      <3> QED
        BY <2>3, <3>1, <3>2
    <2>5. \A k, l \in DOMAIN awaiting'[n] : awaiting'[n][k] = awaiting'[n][l] => k = l
      BY <1>1, <2>1, <2>3 DEF SocketsInOrder
    <2>6. asked'[n] # NoSock =>
             asked'[n] \in HostedBy(net', n) \ Sockets(table[n]) /\ asked'[n][2] = "caller"
      BY <1>1, <2>1 DEF SocketsInOrder
    <2>7. SocketsInOrder(n)'
      BY <1>1, <2>1, <2>4, <2>5, <2>6 DEF SocketsInOrder
    <2> QED
      BY <2>1, <2>2, <2>7, OthersInOrder
  <1> QED
    BY <1>3, <1>4 DEF Join

LEMMA DialListedInOrder ==
    ASSUME TypeOK, SocketAccounting, NEW n \in Node, DialListed(n)
    PROVE  SocketAccounting'
  <1>1. CASE UNCHANGED <<awaiting, net>>
    BY <1>1, SameSocketsInOrder DEF DialListed
  <1>2. ASSUME NEW a, Join(n, a, FALSE, net)
        PROVE  SocketAccounting'
    BY <1>2, JoinInOrder DEF DialListed, SocketAccounting, SocketsInOrder, TypeOK
  <1> QED
    BY <1>1, <1>2 DEF DialListed

LEMMA DialContactInOrder ==
    ASSUME TypeOK, SocketAccounting, NEW n \in Node, DialContact(n)
    PROVE  SocketAccounting'
  <1> DEFINE w == CloseAll(net, {asked[n]})
  <1>1. /\ w \in Net(Message)
        /\ \A m \in Node \ {n} : HostedBy(w, m) = HostedBy(net, m)
        /\ HostedBy(w, n) = HostedBy(net, n) \ {asked[n]}
    BY CloseAskedHosts
  <1> HIDE DEF w
  <1>2. /\ Sockets(table[n]) \subseteq HostedBy(w, n)
        /\ \A k \in DOMAIN awaiting[n] : awaiting[n][k] \in HostedBy(w, n)
    BY <1>1, NoSockNotSocket DEF SocketAccounting, SocketsInOrder, HostedBy, TypeOK, Net
  <1>3. asked'[n] = NoSock /\ \A m \in Node \ {n} : asked'[m] = asked[m]
    BY DEF DialContact, TypeOK
  <1>4. CASE net' = w /\ UNCHANGED awaiting
    <2>1. SocketsInOrder(n) /\ UNCHANGED table
      BY DEF SocketAccounting, DialContact
    <2>2. /\ Sockets(table'[n]) \subseteq HostedBy(net', n)
          /\ \A k \in DOMAIN awaiting'[n] : awaiting'[n][k] \in HostedBy(net', n)
      BY <1>2, <1>4, <2>1
    <2>3. \A k \in DOMAIN awaiting'[n] : awaiting'[n][k] # asked'[n]
      BY <1>1, <1>2, <1>3, <1>4, NoSockNotSocket DEF HostedBy, Net
    <2>4. SocketsInOrder(n)'
      BY <1>3, <1>4, <2>1, <2>2, <2>3 DEF SocketsInOrder
    <2> QED
      BY <1>1, <1>3, <1>4, <2>1, <2>4, OthersInOrder
  <1>5. ASSUME NEW a, NEW rescue, Join(n, a, rescue, w)
        PROVE  SocketAccounting'
    BY <1>1, <1>2, <1>3, <1>5, JoinInOrder DEF DialContact
  <1> QED
    BY <1>4, <1>5 DEF DialContact, w

LEMMA JoinAnsweredInOrder ==
    ASSUME TypeOK, SocketAccounting, NEW n \in Node, awaiting[n] # << >>, NEW yes,
           NEW w \in Net(Message), \A m : HostedBy(w, m) = HostedBy(net, m),
           JoinAnswered(n, Head(awaiting[n]), yes, w)
    PROVE  SocketAccounting'
  <1> DEFINE s == Head(awaiting[n])
             rest == Tail(awaiting[n])
  <1>1. SocketsInOrder(n)
    BY DEF SocketAccounting
  <1>2. /\ awaiting'[n] = rest /\ \A m \in Node \ {n} : awaiting'[m] = awaiting[m]
        /\ awaiting[n] \in Seq(Socket) /\ s \in Socket
    BY HeadTailProperties DEF JoinAnswered, TypeOK
  <1>3. /\ 1 \in DOMAIN awaiting[n] /\ s = awaiting[n][1]
        /\ \A k \in DOMAIN rest : /\ k + 1 \in DOMAIN awaiting[n] /\ k \in Nat \ {0}
                                  /\ rest[k] = awaiting[n][k + 1]
    BY <1>2
  <1> HIDE DEF s, rest
  <1>4. /\ \A k \in DOMAIN rest : /\ rest[k] \in HostedBy(net, n) \ (Sockets(table[n]) \cup {s})
                                  /\ rest[k][2] = "caller" /\ rest[k] # asked[n]
        /\ \A k, l \in DOMAIN rest : rest[k] = rest[l] => k = l
    BY <1>1, <1>3 DEF SocketsInOrder
  <1>5. s \in HostedBy(net, n) \ Sockets(table[n]) /\ s # asked[n]
    BY <1>1, <1>3 DEF SocketsInOrder
  <1>6. CASE yes
    <2>1. /\ net' = w /\ asked' = asked
          /\ table'[n] = AddNeighbour(table[n], s)
          /\ \A m \in Node \ {n} : table'[m] = table[m]
      BY <1>6 DEF JoinAnswered, TypeOK, s
    <2>2. /\ Accounted(table'[n])
          /\ Sockets(table'[n]) \subseteq Sockets(table[n]) \cup {s}
      BY <1>1, <1>2, <1>5, <2>1, AddNeighbourAccounted DEF SocketsInOrder
    <2>3. SocketsInOrder(n)'
      BY <1>1, <1>2, <1>4, <1>5, <2>1, <2>2 DEF SocketsInOrder
    <2> QED
      BY <1>2, <2>1, <2>3, OthersInOrder
  <1>7. CASE ~yes
    <2>1. net' = CloseAll(w, {s}) /\ UNCHANGED <<asked, table>>
      BY <1>7 DEF JoinAnswered, s
    <2>2. \A m : HostedBy(net', m) = HostedBy(net, m) \ {s}
      BY <2>1, HostedByCloseAll
    <2>3. SocketsInOrder(n)'
      <3>1. Accounted(table'[n]) /\ Sockets(table'[n]) \subseteq HostedBy(net', n)
        BY <1>1, <1>5, <2>1, <2>2 DEF SocketsInOrder
      <3>2. asked'[n] # NoSock =>
              asked'[n] \in HostedBy(net', n) \ Sockets(table'[n]) /\ asked'[n][2] = "caller"
        BY <1>1, <1>5, <2>1, <2>2 DEF SocketsInOrder
      <3>3. \A k \in DOMAIN rest : /\ rest[k] \in HostedBy(net', n) \ Sockets(table'[n])
                                   /\ rest[k][2] = "caller" /\ rest[k] # asked'[n]
        BY <1>4, <2>1, <2>2
      <3> QED
        BY <1>2, <1>4, <3>1, <3>2, <3>3 DEF SocketsInOrder
    <2>4. \A m \in Node \ {n} : HostedBy(net, m) \subseteq HostedBy(net', m)
      BY <1>5, <2>2, HostsDiffer
    <2> QED
      BY <1>2, <2>1, <2>3, <2>4, OthersInOrder
  <1> QED
    BY <1>6, <1>7

LEMMA ReadJoinAnswerInOrder ==
    ASSUME TypeOK, SocketAccounting, NEW n \in Node, ReadJoinAnswer(n)
    PROVE  SocketAccounting'
  <1> DEFINE s == Head(awaiting[n])
  <1>1. s \in Socket /\ net \in Net(Message) /\ awaiting[n] # << >>
    BY HeadTailProperties DEF TypeOK, ReadJoinAnswer
  <1>2. CASE /\ HasPacket(s, "SMSG_JOIN")
             /\ JoinAnswered(n, s, Head(net.inbox[s]).join, Receive(net, s))
    <2> DEFINE w == Receive(net, s)
               yes == Head(net.inbox[s]).join
    <2>1. w \in Net(Message) /\ \A m : HostedBy(w, m) = HostedBy(net, m)
      BY <1>1, <1>2, ReceiveType, HostedByReceive DEF HasPacket
    <2>2. JoinAnswered(n, s, yes, w)
      BY <1>2
    <2> HIDE DEF w, yes
    <2> QED
      BY <1>1, <2>1, <2>2, JoinAnsweredInOrder
  <1>3. CASE Dies(n, net)
    BY <1>1, <1>3, DisappearInOrder DEF Dies
  <1>4. ASSUME NEW yes \in BOOLEAN, JoinAnswered(n, s, yes, net)
        PROVE  SocketAccounting'
    BY <1>1, <1>4, JoinAnsweredInOrder
  <1> QED
    BY <1>2, <1>3, <1>4 DEF ReadJoinAnswer

LEMMA EndCallInOrder ==
    ASSUME TypeOK, SocketAccounting, NEW n \in Node, EndCall(n)
    PROVE  SocketAccounting'
  BY ForgetInOrder DEF EndCall, SocketAccounting, SocketsInOrder

LEMMA StartInOrder ==
    ASSUME SocketAccounting, NEW n \in Node, Start(n)
    PROVE  SocketAccounting'
  BY SameSocketsInOrder DEF Start, locals

LEMMA EndJoinInOrder ==
    ASSUME SocketAccounting, NEW n \in Node, EndJoin(n)
    PROVE  SocketAccounting'
  BY SameSocketsInOrder DEF EndJoin, joinVars, locals

-----------------------------------------------------------------------------
(* Serving.                                                                *)

\* Writing an answer and closing the connection takes one socket away.
LEMMA AnsweredHosts ==
    ASSUME TypeOK, NEW s, NEW reply
    PROVE  LET answered == SendAll(Receive(net, s), {s}, reply)
           IN  /\ \A m : HostedBy(answered, m) = HostedBy(net, m)
               /\ \A m : HostedBy(CloseAll(answered, {s}), m) = HostedBy(net, m) \ {s}
  <1> DEFINE answered == SendAll(Receive(net, s), {s}, reply)
  <1>1. answered.open = net.open /\ answered.host = net.host
    BY SendAllEffect, ReceiveEffect
  <1> HIDE DEF answered
  <1>2. net.open \subseteq Socket
    BY DEF TypeOK, Net
  <1>3. \A m : HostedBy(CloseAll(answered, {s}), m) = HostedBy(net, m) \ {s}
    BY <1>1, <1>2 DEF HostedBy, CloseAll
  <1>4. \A m : HostedBy(answered, m) = HostedBy(net, m)
    BY <1>1 DEF HostedBy
  <1> QED
    BY <1>3, <1>4 DEF answered

LEMMA AnswerNeighboursHosts ==
    ASSUME TypeOK, NEW n \in Node, NEW s, AnswerNeighbours(n, s)
    PROVE  \A m : HostedBy(net', m) = HostedBy(net, m) \ {s}
  <1>1. PICK reply : net' = CloseAll(SendAll(Receive(net, s), {s}, reply), {s})
    BY DEF AnswerNeighbours
  <1> QED
    BY <1>1, AnsweredHosts

LEMMA AnswerJoinHosts ==
    ASSUME TypeOK, NEW n \in Node, NEW s, AnswerJoin(n, s)
    PROVE  \/ /\ \A m : HostedBy(net', m) = HostedBy(net, m)
              /\ table' = [table EXCEPT ![n] = AddNeighbour(table[n], s)]
           \/ /\ \A m : HostedBy(net', m) = HostedBy(net, m) \ {s}
              /\ table' = table
  <1>1. PICK yes \in BOOLEAN :
           LET answered == SendAll(Receive(net, s), {s}, [op |-> "SMSG_JOIN", join |-> yes])
           IN  /\ net' = IF yes THEN answered ELSE CloseAll(answered, {s})
               /\ table' = IF yes THEN [table EXCEPT ![n] = AddNeighbour(@, s)] ELSE table
    BY DEF AnswerJoin
  <1>2. CASE yes
    BY <1>1, <1>2, AnsweredHosts
  <1>3. CASE ~yes
    BY <1>1, <1>3, AnsweredHosts
  <1> QED
    BY <1>2, <1>3

\* What is served is an accepted connection, which no join of its own uses.
LEMMA ServeInOrder ==
    ASSUME TypeOK, SocketAccounting, NEW n \in Node, NEW s \in Socket, Serve(n, s)
    PROVE  SocketAccounting'
  <1>1. SocketsInOrder(n)
    BY DEF SocketAccounting
  <1>2. /\ s \in HostedBy(net, n) \ Sockets(table[n]) /\ s[2] = "callee"
        /\ UNCHANGED <<asked, awaiting>>
    BY DEF Serve, Unserved, joinVars, locals
  <1>3. s # asked[n] /\ \A k \in DOMAIN awaiting[n] : s # awaiting[n][k]
    BY <1>1, <1>2, NoSockNotSocket DEF SocketsInOrder
  <1>4. CASE \A m : HostedBy(net', m) = HostedBy(net, m) \ {s} /\ table' = table
    <2>1. SocketsInOrder(n)'
      BY <1>1, <1>2, <1>3, <1>4 DEF SocketsInOrder
    <2>2. \A m \in Node \ {n} : HostedBy(net, m) \subseteq HostedBy(net', m)
      BY <1>2, <1>4, HostsDiffer
    <2> QED
      BY <1>2, <1>4, <2>1, <2>2, OthersInOrder
  <1>5. CASE /\ \A m : HostedBy(net', m) = HostedBy(net, m)
             /\ table' = [table EXCEPT ![n] = AddNeighbour(table[n], s)]
    <2>1. /\ table'[n] = AddNeighbour(table[n], s)
          /\ \A m \in Node \ {n} : table'[m] = table[m]
      BY <1>5 DEF TypeOK
    <2>2. Accounted(table'[n]) /\ Sockets(table'[n]) \subseteq Sockets(table[n]) \cup {s}
      BY <1>1, <1>2, <2>1, AddNeighbourAccounted DEF SocketsInOrder
    <2>3. SocketsInOrder(n)'
      BY <1>1, <1>2, <1>3, <1>5, <2>2 DEF SocketsInOrder
    <2> QED
      BY <1>2, <1>5, <2>1, <2>3, OthersInOrder
  <1> QED
    BY <1>4, <1>5, AnswerNeighboursHosts, AnswerJoinHosts DEF Serve, AnswerNeighbours

-----------------------------------------------------------------------------
(* Departures of neighbours.                                               *)

LEMMA HandleLeaveType ==
    ASSUME TypeOK, SocketAccounting, NEW n \in Node, NEW i \in LiveSlots(table[n]),
           NEW w \in Net(Message), HandleLeave(n, i, w)
    PROVE  TypeOK'
  <1> DEFINE t == DropNeighbour(table[n], i)
  <1>1. i \in Slot /\ table[n] \in NeighbourTables /\ Accounted(table[n])
    BY DEF LiveSlots, TypeOK, SocketAccounting, SocketsInOrder
  <1>2. t \in NeighbourTables /\ Sockets(t) \subseteq Sockets(table[n])
    BY <1>1, DropNeighbourType, DropNeighbourAccounted
  <1> HIDE DEF t
  <1>3. table' \in [Node -> NeighbourTables] /\ net' \in Net(Message)
    BY <1>2, CloseAllType DEF HandleLeave, TypeOK, t
  <1>4. CASE UNCHANGED <<phase, todo>>
    BY <1>3, <1>4 DEF HandleLeave, TypeOK, locals
  <1>5. ASSUME NEW j \in LiveSlots(t), NEW a \in PeerAddresses(t.sock[j]),
               todo' = [todo EXCEPT ![n] = <<[left |-> JoinMaxAttempts, addrs |-> <<a>>]>>],
               phase' = [phase EXCEPT ![n] = "ask"]
        PROVE  TypeOK'
    <2> DEFINE frame == [left |-> JoinMaxAttempts, addrs |-> <<a>>]
    <2>1. t.sock[j] \in net.open
      BY <1>2 DEF Sockets, SocketAccounting, SocketsInOrder, HostedBy
    <2>2. a \in Address
      BY <1>5, <2>1, PeerAddressesType
    <2>3. frame \in Frame /\ frame.addrs # << >>
      <3>1. JoinMaxAttempts \in 0 .. JoinMaxAttempts /\ <<a>> \in Seq(Address) /\ <<a>> # << >>
        BY <2>2, OverlayAssumption
      <3> QED
        BY <3>1 DEF Frame
    <2> HIDE DEF frame
    <2>4. /\ todo' \in [Node -> Seq(Frame)]
          /\ \A m \in Node : \A k \in DOMAIN todo'[m] : todo'[m][k].addrs # << >>
      <3>1. /\ todo'[n] = <<frame>>
            /\ \A m \in Node \ {n} : todo'[m] = todo[m]
        BY <1>5 DEF TypeOK, frame
      <3>2. <<frame>> \in Seq(Frame) /\ \A k \in DOMAIN <<frame>> : <<frame>>[k] = frame
        BY <2>3
      <3>3. todo' \in [Node -> Seq(Frame)]
        BY <1>5, <3>2 DEF TypeOK, frame
      <3> QED
        BY <2>3, <3>1, <3>2, <3>3 DEF TypeOK
    <2>5. phase' \in [Node -> Phase] /\ \A m \in Node : phase'[m] \in {"neigh", "list"} =>
                                         phase[m] \in {"neigh", "list"}
      BY <1>5 DEF TypeOK, Phase
    <2> QED
      BY <1>3, <2>4, <2>5 DEF HandleLeave, TypeOK, locals
  <1> QED
    BY <1>4, <1>5 DEF HandleLeave, t

LEMMA HandleLeaveInOrder ==
    ASSUME TypeOK, SocketAccounting, NEW n \in Node, NEW i \in LiveSlots(table[n]),
           NEW w \in Net(Message), \A m : HostedBy(w, m) = HostedBy(net, m),
           HandleLeave(n, i, w)
    PROVE  SocketAccounting'
  <1> DEFINE s == table[n].sock[i]
  <1>1. SocketsInOrder(n) /\ s \in Sockets(table[n])
    BY DEF SocketAccounting, Sockets
  <1>2. /\ table'[n] = DropNeighbour(table[n], i)
        /\ \A m \in Node \ {n} : table'[m] = table[m]
        /\ UNCHANGED <<asked, awaiting>>
        /\ net' = CloseAll(w, {s})
    BY DEF HandleLeave, TypeOK, locals
  <1> HIDE DEF s
  <1>3. Accounted(table'[n]) /\ Sockets(table'[n]) = Sockets(table[n]) \ {s}
    BY <1>1, <1>2, DropNeighbourAccounted DEF SocketsInOrder, s
  <1>4. \A m : HostedBy(net', m) = HostedBy(net, m) \ {s}
    BY <1>2, HostedByCloseAll
  <1>5. SocketsInOrder(n)'
    <2>1. Sockets(table'[n]) \subseteq HostedBy(net', n)
      BY <1>1, <1>3, <1>4 DEF SocketsInOrder
    <2>2. asked'[n] # NoSock =>
            asked'[n] \in HostedBy(net', n) \ Sockets(table'[n]) /\ asked'[n][2] = "caller"
      BY <1>1, <1>2, <1>3, <1>4 DEF SocketsInOrder
    <2>3. \A k \in DOMAIN awaiting[n] :
            /\ awaiting[n][k] \in HostedBy(net', n) \ Sockets(table'[n])
            /\ awaiting[n][k][2] = "caller" /\ awaiting[n][k] # asked[n]
      BY <1>1, <1>3, <1>4 DEF SocketsInOrder
    <2>4. \A k, l \in DOMAIN awaiting[n] : awaiting[n][k] = awaiting[n][l] => k = l
      BY <1>1 DEF SocketsInOrder
    <2> QED
      BY <1>2, <1>3, <2>1, <2>2, <2>3, <2>4 DEF SocketsInOrder
  <1>6. \A m \in Node \ {n} : HostedBy(net, m) \subseteq HostedBy(net', m)
    BY <1>1, <1>4, HostsDiffer DEF SocketsInOrder
  <1> QED
    BY <1>2, <1>5, <1>6, OthersInOrder

LEMMA ReadLeaveStep ==
    ASSUME TypeOK, SocketAccounting, NEW n \in Node, NEW i \in Slot, ReadLeave(n, i)
    PROVE  TypeOK' /\ SocketAccounting'
  <1> DEFINE s == table[n].sock[i]
             w == Receive(net, s)
  <1>1. i \in LiveSlots(table[n]) /\ HasPacket(s, "CMSG_LEAVE") /\ HandleLeave(n, i, w)
    BY DEF ReadLeave
  <1>2. s \in Socket
    BY <1>1 DEF LiveSlots, TypeOK, NeighbourTables
  <1>3. w \in Net(Message) /\ \A m : HostedBy(w, m) = HostedBy(net, m)
    BY <1>1, <1>2, ReceiveType, HostedByReceive DEF HasPacket, TypeOK
  <1> HIDE DEF w
  <1> QED
    BY <1>1, <1>3, HandleLeaveType, HandleLeaveInOrder

LEMMA EofTakenForLeaveStep ==
    ASSUME TypeOK, SocketAccounting, NEW n \in Node, NEW i \in Slot, EofTakenForLeave(n, i)
    PROVE  TypeOK' /\ SocketAccounting'
  <1>1. i \in LiveSlots(table[n]) /\ HandleLeave(n, i, net) /\ net \in Net(Message)
    BY DEF EofTakenForLeave, TypeOK
  <1> QED
    BY <1>1, HandleLeaveType, HandleLeaveInOrder

-----------------------------------------------------------------------------
(* Leaving.                                                                *)

\* A process that ends over a network in which nothing was closed.
LEMMA DisappearStep ==
    ASSUME TypeOK, SocketAccounting, NEW n \in Node, NEW w \in Net(Message), Disappear(n, w),
           crashed' \in SUBSET Node, leavers' \in SUBSET Node,
           \A m : HostedBy(w, m) = HostedBy(net, m)
    PROVE  TypeOK' /\ SocketAccounting'
  BY DisappearType, DisappearInOrder

LEMMA LeaveWritten ==
    ASSUME TypeOK, NEW S \in SUBSET Socket
    PROVE  /\ SendAll(net, S, Leave) \in Net(Message)
           /\ \A m : HostedBy(SendAll(net, S, Leave), m) = HostedBy(net, m)
  BY SendAllType, HostedBySendAll, MessagesAreMessages DEF TypeOK

LEMMA SocketsType ==
    ASSUME TypeOK, NEW n \in Node
    PROVE  Sockets(table[n]) \in SUBSET Socket
  BY DEF TypeOK, NeighbourTables, Sockets, LiveSlots

LEMMA DiesInBroadcastStep ==
    ASSUME TypeOK, SocketAccounting, NEW n \in Node, DiesInBroadcast(n)
    PROVE  TypeOK' /\ SocketAccounting'
  <1>1. PICK i \in LiveSlots(table[n]) :
           Dies(n, SendAll(net, {table[n].sock[j] : j \in LiveSlots(table[n]) \cap 1 .. i - 1},
                           Leave))
    BY DEF DiesInBroadcast
  <1> DEFINE S == {table[n].sock[j] : j \in LiveSlots(table[n]) \cap 1 .. i - 1}
             w == SendAll(net, S, Leave)
  <1>2. S \in SUBSET Socket
    BY DEF TypeOK, NeighbourTables, LiveSlots
  <1>3. Dies(n, w)
    BY <1>1
  <1> HIDE DEF S
  <1>4. w \in Net(Message) /\ \A m : HostedBy(w, m) = HostedBy(net, m)
    BY <1>2, LeaveWritten
  <1> HIDE DEF w
  <1>5. crashed' \in SUBSET Node /\ leavers' \in SUBSET Node
    BY <1>3 DEF Dies, TypeOK
  <1> QED
    BY <1>3, <1>4, <1>5, DisappearStep DEF Dies

LEMMA LeaveRequestStep ==
    ASSUME TypeOK, SocketAccounting, NEW n \in Node, LeaveRequest(n)
    PROVE  TypeOK' /\ SocketAccounting'
  <1>1. CASE /\ phase' = [phase EXCEPT ![n] = "stop"]
             /\ net' = Broadcast(n)
             /\ leavers' = leavers \cup {n}
             /\ UNCHANGED <<joinVars, selfIp, table, crashed>>
    <2>1. net' \in Net(Message) /\ \A m : HostedBy(net', m) = HostedBy(net, m)
      BY <1>1, SocketsType, LeaveWritten DEF Broadcast
    <2>2. TypeOK'
      BY <1>1, <2>1 DEF TypeOK, Phase, joinVars, locals
    <2>3. SocketAccounting'
      BY <1>1, <2>1, SameSocketsInOrder DEF joinVars, locals
    <2> QED
      BY <2>2, <2>3
  <1> QED
    BY <1>1, DiesInBroadcastStep DEF LeaveRequest

LEMMA SigintStep ==
    ASSUME TypeOK, SocketAccounting, NEW n \in Node, Sigint(n)
    PROVE  TypeOK' /\ SocketAccounting'
  <1>1. TypeOK'
    BY DEF Sigint, TypeOK, Phase, joinVars, locals
  <1>2. SocketAccounting'
    BY SameSocketsInOrder DEF Sigint, joinVars, locals
  <1> QED
    BY <1>1, <1>2

LEMMA ExitStep ==
    ASSUME TypeOK, SocketAccounting, NEW n \in Node, Exit(n)
    PROVE  TypeOK' /\ SocketAccounting'
  <1>1. CASE Disappear(n, Broadcast(n)) /\ UNCHANGED <<crashed, leavers>>
    <2>1. Broadcast(n) \in Net(Message) /\ \A m : HostedBy(Broadcast(n), m) = HostedBy(net, m)
      BY SocketsType, LeaveWritten DEF Broadcast
    <2>2. crashed' \in SUBSET Node /\ leavers' \in SUBSET Node
      BY <1>1 DEF TypeOK
    <2> QED
      BY <1>1, <2>1, <2>2, DisappearStep
  <1> QED
    BY <1>1, DiesInBroadcastStep DEF Exit

LEMMA CrashStep ==
    ASSUME TypeOK, SocketAccounting, NEW n \in Node, Crash(n)
    PROVE  TypeOK' /\ SocketAccounting'
  <1>1. /\ Disappear(n, net) /\ net \in Net(Message)
        /\ crashed' \in SUBSET Node /\ leavers' \in SUBSET Node
    BY DEF Crash, Dies, TypeOK
  <1> QED
    BY <1>1, DisappearStep

-----------------------------------------------------------------------------
(* The invariant.  Type correctness is not inductive alone: that the call   *)
(* handle_leave makes goes to an address depends on the entries of the     *)
(* table being open sockets.                                               *)

IInv == TypeOK /\ SocketAccounting

LEMMA InitIInv == Init => IInv
  <1> SUFFICES ASSUME Init PROVE IInv
    OBVIOUS
  <1>1. TypeOK
    BY NoQueryType, EmptySeq, EmptyNetType, EmptyTableAccounted
    DEF Init, TypeOK, Phase, Accounted
  <1>2. SocketAccounting
    BY EmptyTableAccounted DEF Init, SocketAccounting, SocketsInOrder
  <1> QED
    BY <1>1, <1>2 DEF IInv

LEMMA JoinStepIInv ==
    ASSUME IInv, NEW n \in Node, JoinStep(n)
    PROVE  IInv'
  <1>1. CASE AskNeighbours(n)
    BY <1>1, AskNeighboursType, AskNeighboursInOrder DEF IInv
  <1>2. CASE ReadNeighbours(n)
    BY <1>2, ReadNeighboursType, ReadNeighboursInOrder DEF IInv
  <1>3. CASE DialListed(n)
    BY <1>3, DialListedType, DialListedInOrder DEF IInv
  <1>4. CASE DialContact(n)
    BY <1>4, DialContactType, DialContactInOrder DEF IInv
  <1>5. CASE ReadJoinAnswer(n)
    BY <1>5, ReadJoinAnswerType, ReadJoinAnswerInOrder DEF IInv
  <1>6. CASE EndCall(n)
    BY <1>6, EndCallType, EndCallInOrder DEF IInv
  <1>7. CASE EndJoin(n)
    BY <1>7, EndJoinType, EndJoinInOrder DEF IInv
  <1> QED
    BY <1>1, <1>2, <1>3, <1>4, <1>5, <1>6, <1>7 DEF JoinStep

LEMMA ThreadStepIInv ==
    ASSUME IInv, NEW n \in Node, ThreadStep(n)
    PROVE  IInv'
  <1>1. CASE JoinStep(n)
    BY <1>1, JoinStepIInv
  <1>2. ASSUME NEW s \in Socket, Serve(n, s)
        PROVE  IInv'
    BY <1>2, ServeType, ServeInOrder DEF IInv
  <1>3. ASSUME NEW i \in Slot, ReadLeave(n, i)
        PROVE  IInv'
    BY <1>3, ReadLeaveStep DEF IInv
  <1>4. CASE Exit(n)
    BY <1>4, ExitStep DEF IInv
  <1> QED
    BY <1>1, <1>2, <1>3, <1>4 DEF ThreadStep

LEMMA StepIInv == IInv /\ [Next]_vars => IInv'
  <1> SUFFICES ASSUME IInv, [Next]_vars PROVE IInv'
    OBVIOUS
  <1>1. ASSUME NEW n \in Node, Start(n)
        PROVE  IInv'
    BY <1>1, StartType, StartInOrder DEF IInv
  <1>2. ASSUME NEW n \in Node, ThreadStep(n)
        PROVE  IInv'
    BY <1>2, ThreadStepIInv
  <1>3. ASSUME NEW n \in Node, NEW i \in Slot, EofTakenForLeave(n, i)
        PROVE  IInv'
    BY <1>3, EofTakenForLeaveStep DEF IInv
  <1>4. ASSUME NEW n \in Node, LeaveRequest(n)
        PROVE  IInv'
    BY <1>4, LeaveRequestStep DEF IInv
  <1>5. ASSUME NEW n \in Node, Sigint(n)
        PROVE  IInv'
    BY <1>5, SigintStep DEF IInv
  <1>6. ASSUME NEW n \in Node, Crash(n)
        PROVE  IInv'
    BY <1>6, CrashStep DEF IInv
  <1>7. CASE UNCHANGED vars
    <2>1. TypeOK'
      BY <1>7 DEF IInv, TypeOK, vars, joinVars, locals
    <2>2. SocketAccounting'
      BY <1>7, SameSocketsInOrder DEF IInv, vars, joinVars, locals
    <2> QED
      BY <2>1, <2>2 DEF IInv
  <1> QED
    BY <1>1, <1>2, <1>3, <1>4, <1>5, <1>6, <1>7 DEF Next

\* Every servent's variables keep their types in every overlay: in particular no
\* frame of the recursion of join_network_through is ever without an address, and
\* what handle_leave asks is an address.
THEOREM TypeCorrect == Spec => []TypeOK
  <1>1. IInv => TypeOK
    BY DEF IInv
  <1> QED
    BY <1>1, InitIInv, StepIInv, PTL DEF Spec

\* In every overlay, every socket a servent has a use for is open, its own and has
\* one use, and nb_neighbours counts the live entries of neighbours.
THEOREM SocketsAccounted == Spec => []SocketAccounting
  <1>1. IInv => SocketAccounting
    BY DEF IInv
  <1> QED
    BY <1>1, InitIInv, StepIInv, PTL DEF Spec

-----------------------------------------------------------------------------
(* Links.  LinksInOrder is preserved by any step that keeps to a contract,  *)
(* which names what one servent may do to the connections of all; then      *)
(* every action keeps to the contract.                                     *)

IsIn(q, m) == \E k \in DOMAIN q : q[k] = m

\* The ends of the connections of new.
Ends(new) == {s \in Socket : s[1] \in new}

\* The network in a step that reads the first packets at R, writes msg on W, closes
\* C and opens the connections of new.
NetStep(C, R, W, msg, new) ==
    /\ net'.open = (net.open \ C) \cup Ends(new)
    /\ ClosedEndsAreEmpty'
    /\ \A t \in net.open \ C :
          /\ t[1] \notin new
          /\ net'.host[t] = net.host[t] /\ net'.host[Peer(t)] = net.host[Peer(t)]
          /\ Packets(t)' \subseteq Packets(t) \cup {msg}
          /\ Peer(t) \notin W => Packets(t)' \subseteq Packets(t)
          /\ Peer(t) \in W => msg \in Packets(t)'
          /\ Packets(t) \subseteq Packets(t)' \cup {Head(net.inbox[t])}
          /\ t \notin R => Packets(t) \subseteq Packets(t)'
          /\ t \notin R /\ net.inbox[t] # << >>
                => net'.inbox[t] # << >> /\ Head(net'.inbox[t]) = Head(net.inbox[t])
          /\ t \notin R /\ net.inbox[t] = << >> /\ Peer(t) \notin W => net'.inbox[t] = << >>
          /\ t \notin R /\ net.inbox[t] = << >> /\ Peer(t) \in W
                => net'.inbox[t] # << >> /\ Head(net'.inbox[t]) = msg
          /\ t \in net.broken => t \in net'.broken
          /\ Peer(t) \in C \ R /\ net.inbox[Peer(t)] # << >> => t \in net'.broken

\* What n does is its own: its variables, its sockets, its end.
OwnStep(n, C, R, W, new) ==
    /\ \A m \in Node \ {n} : /\ phase'[m] = phase[m] /\ booting'[m] = booting[m]
                             /\ todo'[m] = todo[m] /\ asked'[m] = asked[m]
                             /\ awaiting'[m] = awaiting[m] /\ table'[m] = table[m]
    /\ C \subseteq HostedBy(net, n) /\ R \subseteq HostedBy(net, n) /\ W \subseteq HostedBy(net, n)
    /\ crashed \subseteq crashed' /\ crashed' \subseteq crashed \cup {n}
    /\ n \in crashed' => phase'[n] = "down"
    /\ phase[n] \in {"stop", "down"} => phase'[n] \in {"stop", "down"}
    /\ phase'[n] \in {"off", "down"} => HostedBy(net, n) \subseteq C /\ new = {}
    /\ awaiting'[n] # << >> => phase'[n] \in {"list", "resp"}
    /\ booting'[n] => /\ Sockets(table'[n]) = {}
                      /\ \/ phase'[n] = "neigh"
                         \/ phase'[n] = "ask" /\ todo'[n] # << >>

\* What n writes is true when the step is over, and is not written on a connection
\* that remains to be served.
WriteStep(n, C, W, msg) ==
    /\ W \subseteq Sockets(table'[n]) \cup C
    /\ W # {} /\ msg = Leave => phase'[n] \in {"stop", "down"}
    /\ W # {} /\ msg.op = "SMSG_NEIGHBOURS" => W \subseteq C
    /\ W # {} /\ msg.op = "SMSG_JOIN" =>
          \A t \in W : IF msg.join THEN t \in Sockets(table'[n]) ELSE t \in C

\* A link is forgotten only as it is closed; one is made only by granting a join,
\* or on a granted join, or on a connection that is gone.
LinkStep(n, C, R, W, msg) ==
    /\ Sockets(table[n]) \ C \subseteq Sockets(table'[n])
    /\ Sockets(table'[n]) \cap C = {}
    /\ \A t \in Sockets(table'[n]) \ Sockets(table[n]) :
          /\ t[2] = "callee" => /\ t \in R \cap W /\ HasPacket(t, "CMSG_JOIN")
                                /\ msg.op = "SMSG_JOIN"
          /\ t[2] = "caller" =>
                /\ IsIn(awaiting[n], t)
                /\ \/ AtEof(net, t)
                   \/ t \in R /\ HasPacket(t, "SMSG_JOIN") /\ Head(net.inbox[t]).join

\* What is read is dealt with: a request is answered, a departure closes the link.
ReadStep(n, C, R) ==
    /\ \A t \in R : net.inbox[t] # << >>
    /\ R \cap Unserved(n) \subseteq C \cup Sockets(table'[n])
    /\ R \cap Sockets(table[n]) \subseteq C

\* Why an accepted connection is closed: its process ends, which either counts as a
\* crash or is announced on every link; its request was answered; the departure of
\* the other side was read, or its end was seen.
CloseStep(n, C, R, W, msg) ==
    \A t \in C : t[2] = "callee" =>
       \/ n \in crashed'
       \/ t \notin R /\ (t \in Sockets(table[n]) => t \in W /\ msg = Leave)
       \/ /\ t \in Unserved(n) /\ t \in W /\ HasPacket(t, "CMSG_JOIN")
          /\ msg.op = "SMSG_JOIN" /\ ~msg.join
       \/ t \in Unserved(n) /\ HasPacket(t, "CMSG_NEIGHBOURS")
       \/ t \in Sockets(table[n]) /\ (Announced(t) \/ AtEof(net, t))

\* A connection that n opens holds its request; n waits on it or on those it had.
OpenStep(n, C, R, new) ==
    /\ \A c \in new : /\ c \in Conn
                      /\ net'.host[Caller(c)] = n
                      /\ net'.host[Callee(c)] \in Node
                      /\ phase[net'.host[Callee(c)]] \notin {"off", "down"}
                      /\ net'.inbox[Caller(c)] = << >>
                      /\ net'.inbox[Callee(c)] # << >>
                      /\ \A m \in Packets(Callee(c))' :
                            m.op \in {"CMSG_NEIGHBOURS", "CMSG_JOIN"}
    /\ \/ asked'[n] = NoSock
       \/ asked'[n] = asked[n] /\ asked[n] \notin C
       \/ \E c \in new : asked'[n] = Caller(c) /\ HasPacket(Callee(c), "CMSG_NEIGHBOURS")'
    /\ \A k \in DOMAIN awaiting'[n] :
          \/ IsIn(awaiting[n], awaiting'[n][k]) /\ awaiting'[n][k] \notin R \cup C
          \/ \E c \in new : awaiting'[n][k] = Caller(c) /\ HasPacket(Callee(c), "CMSG_JOIN")'

LinkContract(n, C, R, W, msg, new) ==
    /\ NetStep(C, R, W, msg, new)
    /\ OwnStep(n, C, R, W, new)
    /\ WriteStep(n, C, W, msg)
    /\ LinkStep(n, C, R, W, msg)
    /\ ReadStep(n, C, R)
    /\ CloseStep(n, C, R, W, msg)
    /\ OpenStep(n, C, R, new)


\* An end that is open after the step was there before, or is new.
LEMMA OpenEnds ==
    ASSUME IInv, NEW C, NEW R, NEW W, NEW msg, NEW new, NetStep(C, R, W, msg, new),
           NEW t \in net'.open
    PROVE  /\ t \in Socket /\ Peer(t) \in Socket /\ Peer(t) # t /\ Peer(Peer(t)) = t
           /\ Peer(t)[1] = t[1]
           /\ (t[2] = "caller" <=> Peer(t)[2] = "callee") /\ t[2] \in {"caller", "callee"}
           /\ \/ t \in net.open \ C
              \/ t[1] \in new /\ t = Caller(t[1]) /\ Peer(t) = Callee(t[1]) /\ t[1] \in Conn
              \/ t[1] \in new /\ t = Callee(t[1]) /\ Peer(t) = Caller(t[1]) /\ t[1] \in Conn
  <1>1. net.open \subseteq Socket
    BY DEF IInv, TypeOK, Net
  <1>2. t \in Socket
    BY <1>1 DEF NetStep, Ends
  <1>3. /\ Peer(t) \in Socket /\ Peer(t) # t /\ Peer(Peer(t)) = t /\ Peer(t)[1] = t[1]
        /\ (t[2] = "caller" <=> Peer(t)[2] = "callee") /\ t[2] \in {"caller", "callee"}
        /\ t[1] \in Conn
        /\ \/ t = Caller(t[1]) /\ Peer(t) = Callee(t[1])
           \/ t = Callee(t[1]) /\ Peer(t) = Caller(t[1])
    BY <1>2 DEF Peer, Caller, Callee, Socket, Side
  <1> QED
    BY <1>2, <1>3 DEF NetStep, Ends

LEMMA HostsStep ==
    ASSUME IInv, LinksInOrder, NEW n \in Node, NEW C, NEW R, NEW W, NEW msg, NEW new,
           LinkContract(n, C, R, W, msg, new)
    PROVE  OnlyTheLivingHost'
  <1>1. ASSUME NEW m \in Node, phase'[m] \in {"off", "down"}, NEW t \in HostedBy(net', m)
        PROVE  FALSE
    <2>1. t \in net'.open /\ net'.host[t] = m
      BY DEF HostedBy
    <2>2. m # n => HostedBy(net, m) = {}
      BY <1>1 DEF LinksInOrder, OnlyTheLivingHost, LinkContract, OwnStep
    <2>3. m = n => HostedBy(net, n) \subseteq C /\ new = {}
      BY <1>1 DEF LinkContract, OwnStep
    <2>4. CASE t \in net.open \ C
      <3>1. t \in HostedBy(net, m)
        BY <2>1, <2>4 DEF LinkContract, NetStep, HostedBy
      <3> QED
        BY <2>2, <2>3, <2>4, <3>1
    <2>5. ASSUME NEW c \in new, t = Caller(c) \/ t = Callee(c)
          PROVE  FALSE
      BY <1>1, <2>1, <2>3, <2>5 DEF LinkContract, OpenStep, OwnStep
    <2> QED
      BY <2>1, <2>4, <2>5, OpenEnds DEF LinkContract
  <1>2. ASSUME NEW m \in crashed'
        PROVE  phase'[m] = "down"
    <2>1. m \in crashed \cup {n} /\ crashed \subseteq Node /\ (m = n => phase'[n] = "down")
      BY DEF LinkContract, OwnStep, IInv, TypeOK
    <2>2. m \in crashed => phase[m] = "down"
      BY DEF LinksInOrder, OnlyTheLivingHost
    <2>3. m \in Node \ {n} => phase'[m] = phase[m]
      BY DEF LinkContract, OwnStep
    <2> QED
      BY <2>1, <2>2, <2>3
  <1> QED
    BY <1>1, <1>2 DEF OnlyTheLivingHost

LEMMA JoinsStep ==
    ASSUME LinksInOrder, NEW n \in Node, NEW C, NEW R, NEW W, NEW msg, NEW new,
           LinkContract(n, C, R, W, msg, new)
    PROVE  JoinsInOrder'
  BY DEF LinksInOrder, JoinsInOrder, LinkContract, OwnStep

\* What remains open keeps its machines.
LEMMA FarStep ==
    ASSUME IInv, NEW n \in Node, NEW C, NEW R, NEW W, NEW msg, NEW new,
           LinkContract(n, C, R, W, msg, new), NEW t \in net.open \ C
    PROVE  /\ t \in net'.open /\ t \in Socket /\ Peer(t) \in Socket
           /\ Peer(Peer(t)) = t /\ Peer(t) \notin Ends(new)
           /\ net.host[t] \in Node /\ net'.host[t] = net.host[t]
           /\ Far(t) \in Node /\ Far(t)' = Far(t)
           /\ t \in R \cup W \cup C => net.host[t] = n
           /\ Peer(t) \in R \cup W \cup C => Far(t) = n
  <1>1. net.open \subseteq Socket /\ net.host[t] \in Node /\ net.host[Peer(t)] \in Node
    BY DEF IInv, TypeOK, Net
  <1>2. t \in Socket /\ Peer(t) \in Socket /\ Peer(Peer(t)) = t /\ Peer(t)[1] = t[1]
    BY <1>1 DEF Peer, Caller, Callee, Socket, Side
  <1>3. t \in net'.open /\ net'.host[t] = net.host[t] /\ Far(t)' = Far(t) /\ t[1] \notin new
    BY DEF LinkContract, NetStep, Far
  <1>4. Peer(t) \notin Ends(new)
    BY <1>2, <1>3 DEF Ends
  <1>5. t \in R \cup W \cup C => net.host[t] = n
    BY DEF LinkContract, OwnStep, HostedBy
  <1>6. Peer(t) \in R \cup W \cup C => Far(t) = n
    BY DEF LinkContract, OwnStep, HostedBy, Far
  <1> QED
    BY <1>1, <1>2, <1>3, <1>4, <1>5, <1>6 DEF Far

\* A link that is not closed stays a link.
LEMMA LinkStays ==
    ASSUME IInv, NEW n \in Node, NEW C, NEW R, NEW W, NEW msg, NEW new,
           LinkContract(n, C, R, W, msg, new), NEW m \in Node, NEW t \in Sockets(table[m]), t \notin C
    PROVE  t \in Sockets(table'[m])
  BY DEF LinkContract, LinkStep, OwnStep

LEMMA PacketsStep ==
    ASSUME IInv, LinksInOrder, NEW n \in Node, NEW C, NEW R, NEW W, NEW msg, NEW new,
           LinkContract(n, C, R, W, msg, new)
    PROVE  PacketsAreTrue'
  <1> SUFFICES ASSUME NEW t \in net'.open, NEW m \in Packets(t)'
               PROVE  /\ m = Leave => phase'[Far(t)'] \in {"stop", "down"}
                      /\ m.op = "SMSG_JOIN" =>
                            IF m.join THEN Peer(t) \in net'.open =>
                                              Peer(t) \in Sockets(table'[Far(t)'])
                            ELSE Peer(t) \notin net'.open
                      /\ m.op = "SMSG_NEIGHBOURS" => Peer(t) \notin net'.open
    BY DEF PacketsAreTrue
  <1>1. ASSUME NEW c \in new, t = Caller(c) \/ t = Callee(c)
        PROVE  m.op \in {"CMSG_NEIGHBOURS", "CMSG_JOIN"}
    <2>1. CASE t = Caller(c)
      BY <1>1, <2>1 DEF LinkContract, OpenStep, Packets
    <2>2. CASE t = Callee(c)
      BY <1>1, <2>2 DEF LinkContract, OpenStep
    <2> QED
      BY <1>1, <2>1, <2>2
  <1>2. Leave.op = "CMSG_LEAVE"
    BY DEF Leave
  <1>3. CASE t \in net.open \ C
    <2>1. /\ Far(t) \in Node /\ Far(t)' = Far(t) /\ Peer(t) \notin Ends(new)
          /\ Peer(t) \in W => Far(t) = n
      BY <1>3, FarStep
    <2>2. Peer(t) \in net'.open => Peer(t) \in net.open \ C
      BY <2>1 DEF LinkContract, NetStep
    <2>3. m \in Packets(t) \/ (m = msg /\ Peer(t) \in W)
      BY <1>3 DEF LinkContract, NetStep
    <2>4. CASE m \in Packets(t)
      <3>1. /\ m = Leave => phase[Far(t)] \in {"stop", "down"}
            /\ m.op = "SMSG_JOIN" =>
                  IF m.join THEN Peer(t) \in net.open => Peer(t) \in Sockets(table[Far(t)])
                  ELSE Peer(t) \notin net.open
            /\ m.op = "SMSG_NEIGHBOURS" => Peer(t) \notin net.open
        BY <1>3, <2>4 DEF LinksInOrder, PacketsAreTrue
      <3>2. phase[Far(t)] \in {"stop", "down"} => phase'[Far(t)] \in {"stop", "down"}
        BY <2>1 DEF LinkContract, OwnStep
      <3> QED
        BY <2>1, <2>2, <3>1, <3>2, LinkStays
    <2>5. CASE m = msg /\ Peer(t) \in W
      <3>1. /\ m = Leave => phase'[n] \in {"stop", "down"}
            /\ m.op = "SMSG_NEIGHBOURS" => Peer(t) \in C
            /\ m.op = "SMSG_JOIN" =>
                  IF m.join THEN Peer(t) \in Sockets(table'[n]) ELSE Peer(t) \in C
        BY <2>5 DEF LinkContract, WriteStep
      <3> QED
        BY <2>1, <2>2, <2>5, <3>1
    <2> QED
      BY <2>3, <2>4, <2>5
  <1> QED
    BY <1>1, <1>2, <1>3, OpenEnds DEF LinkContract

LEMMA HeadIsPacket ==
    ASSUME TypeOK, NEW s \in Socket, net.inbox[s] # << >>
    PROVE  Head(net.inbox[s]) \in Packets(s)
  <1>1. net.inbox[s] \in Seq(Message)
    BY DEF TypeOK, Net
  <1>2. 1 \in DOMAIN net.inbox[s] /\ Head(net.inbox[s]) = net.inbox[s][1]
    BY <1>1
  <1> QED
    BY <1>2 DEF Packets

\* A link after the step was open before, and was a link unless it is a new one.
LEMMA LinkedWasOpen ==
    ASSUME IInv, IInv', NEW n \in Node, NEW C, NEW R, NEW W, NEW msg, NEW new,
           LinkContract(n, C, R, W, msg, new),
           NEW m \in Node, NEW t \in Sockets(table'[m])
    PROVE  /\ t \in net.open \ C /\ net.host[t] = m
           /\ \/ t \in Sockets(table[m])
              \/ m = n /\ t \in Sockets(table'[n]) \ Sockets(table[n])
  <1>1. /\ Sockets(table[m]) \subseteq HostedBy(net, m)
        /\ t \in HostedBy(net', m) /\ C \subseteq HostedBy(net, n)
    BY DEF IInv, SocketAccounting, SocketsInOrder, LinkContract, OwnStep
  <1>2. CASE m # n
    <2>1. t \in Sockets(table[m])
      BY <1>2 DEF LinkContract, OwnStep
    <2> QED
      BY <1>1, <1>2, <2>1, HostsDiffer DEF HostedBy
  <1>3. CASE m = n
    <2>1. t \notin C
      BY <1>3 DEF LinkContract, LinkStep
    <2>2. CASE t \in Sockets(table[n])
      BY <1>1, <1>3, <2>1, <2>2 DEF HostedBy
    <2>3. CASE t \notin Sockets(table[n])
      <3>1. t[2] = "callee" => t \in R
        BY <1>3, <2>3 DEF LinkContract, LinkStep
      <3>2. t[2] = "caller" => IsIn(awaiting[n], t)
        BY <1>3, <2>3 DEF LinkContract, LinkStep
      <3>3. IsIn(awaiting[n], t) => t \in HostedBy(net, n)
        BY DEF IsIn, IInv, SocketAccounting, SocketsInOrder
      <3>4. R \subseteq HostedBy(net, n)
        BY DEF LinkContract, OwnStep
      <3>5. t[2] = "callee" \/ t[2] = "caller"
        BY <1>1, OpenEnds DEF HostedBy, LinkContract
      <3> QED
        BY <1>3, <2>1, <2>3, <3>1, <3>2, <3>3, <3>4, <3>5 DEF HostedBy
    <2> QED
      BY <2>2, <2>3
  <1> QED
    BY <1>2, <1>3

LEMMA MutualStep ==
    ASSUME IInv, IInv', LinksInOrder, NEW n \in Node, NEW C, NEW R, NEW W, NEW msg, NEW new,
           LinkContract(n, C, R, W, msg, new)
    PROVE  OutgoingLinksAreMutual'
  <1> SUFFICES ASSUME NEW m \in Node, NEW t \in Sockets(table'[m]), t[2] = "caller",
                      Peer(t) \in net'.open
               PROVE  Peer(t) \in Sockets(table'[Far(t)'])
    BY DEF OutgoingLinksAreMutual, Far
  <1>1. t \in net.open \ C
    BY LinkedWasOpen
  <1>2. /\ Far(t) \in Node /\ Far(t)' = Far(t) /\ Peer(t) \notin Ends(new) /\ t \in Socket
    BY <1>1, FarStep
  <1>3. Peer(t) \in net.open \ C
    BY <1>2 DEF LinkContract, NetStep
  <1>4. Peer(t) \in Sockets(table[Far(t)])
    <2>1. CASE t \in Sockets(table[m])
      BY <1>3, <2>1 DEF LinksInOrder, OutgoingLinksAreMutual, Far
    <2>2. CASE m = n /\ t \in Sockets(table'[n]) \ Sockets(table[n])
      <3>1. ~AtEof(net, t)
        BY <1>3 DEF AtEof
      <3>2. HasPacket(t, "SMSG_JOIN") /\ Head(net.inbox[t]).join
        BY <2>2, <3>1 DEF LinkContract, LinkStep
      <3>3. Head(net.inbox[t]) \in Packets(t) /\ Head(net.inbox[t]).op = "SMSG_JOIN"
        BY <1>2, <3>2, HeadIsPacket DEF HasPacket, IInv
      <3> QED
        BY <1>1, <1>3, <3>2, <3>3 DEF LinksInOrder, PacketsAreTrue
    <2> QED
      BY <2>1, <2>2, LinkedWasOpen
  <1> QED
    BY <1>2, <1>3, <1>4, LinkStays

LEMMA UnservedStep ==
    ASSUME IInv, LinksInOrder, NEW n \in Node, NEW C, NEW R, NEW W, NEW msg, NEW new,
           LinkContract(n, C, R, W, msg, new)
    PROVE  UnservedIsUnanswered'
  <1> SUFFICES ASSUME NEW m \in Node, NEW t \in net'.open, net'.host[t] = m, t[2] = "callee",
                      t \notin Sockets(table'[m])
               PROVE  net'.inbox[t] # << >> /\ net'.inbox[Peer(t)] = << >>
    BY DEF UnservedIsUnanswered, Unserved, HostedBy
  <1>1. ASSUME NEW c \in new, t = Callee(c), Peer(t) = Caller(c)
        PROVE  net'.inbox[t] # << >> /\ net'.inbox[Peer(t)] = << >>
    BY <1>1 DEF LinkContract, OpenStep
  <1>2. CASE t \in net.open \ C
    <2>1. /\ t \in Socket /\ Peer(t) \in Socket /\ Peer(Peer(t)) = t /\ Peer(t) \notin Ends(new)
          /\ net.host[t] = m
          /\ t \in R \cup W => m = n
      BY <1>2, FarStep
    <2>2. t \in Unserved(m)
      BY <1>2, <2>1, LinkStays DEF Unserved, HostedBy
    <2>3. net.inbox[t] # << >> /\ net.inbox[Peer(t)] = << >>
      BY <2>2 DEF LinksInOrder, UnservedIsUnanswered
    <2>4. t \notin R
      BY <1>2, <2>1, <2>2 DEF LinkContract, ReadStep
    <2>5. t \notin W
      BY <1>2, <2>1 DEF LinkContract, WriteStep
    <2>6. Peer(t) \notin R
      BY <2>3 DEF LinkContract, ReadStep
    <2>7. net'.inbox[t] # << >>
      BY <1>2, <2>3, <2>4 DEF LinkContract, NetStep
    <2>8. CASE Peer(t) \in net'.open
      <3>1. Peer(t) \in net.open \ C
        BY <2>1, <2>8 DEF LinkContract, NetStep
      <3> QED
        BY <2>1, <2>3, <2>5, <2>6, <2>7, <3>1 DEF LinkContract, NetStep
    <2>9. CASE Peer(t) \notin net'.open
      BY <2>1, <2>7, <2>9 DEF LinkContract, NetStep, ClosedEndsAreEmpty
    <2> QED
      BY <2>8, <2>9
  <1>3. t # Caller(t[1])
    BY DEF Caller
  <1> QED
    BY <1>1, <1>2, <1>3, OpenEnds DEF LinkContract

\* A request that nobody reads stays pending while its connection is open.
LEMMA PendingStays ==
    ASSUME IInv, IInv', NEW n \in Node, NEW C, NEW R, NEW W, NEW msg, NEW new,
           LinkContract(n, C, R, W, msg, new),
           NEW t \in net.open \ C, Peer(t) \in net'.open, Peer(t) \notin R,
           NEW op, Pending(t, op)
    PROVE  Pending(t, op)'
  <1> DEFINE q == Peer(t)
             m == Far(t)
  <1>1. /\ m \in Node /\ Far(t)' = m /\ q \notin Ends(new) /\ q \in Socket
    BY FarStep
  <1>2. q \in net.open \ C
    BY <1>1 DEF LinkContract, NetStep
  <1>3. q \in Unserved(m) /\ HasPacket(q, op)
    BY DEF Pending
  <1> HIDE DEF q, m
  <1>4. net'.inbox[q] # << >> /\ Head(net'.inbox[q]) = Head(net.inbox[q])
    BY <1>2, <1>3 DEF LinkContract, NetStep, HasPacket, q
  <1>5. q \notin Sockets(table'[m])
    <2>1. SUFFICES ASSUME q \in Sockets(table'[m])
                   PROVE  FALSE
      OBVIOUS
    <2>2. q \in Sockets(table'[n]) \ Sockets(table[n]) /\ q[2] = "callee"
      BY <1>1, <1>3, <2>1, LinkedWasOpen DEF Unserved
    <2>3. q \in R
      BY <2>2 DEF LinkContract, LinkStep
    <2> QED
      BY <2>3 DEF q
  <1>6. q \in net'.open /\ net'.host[q] = m /\ q[2] = "callee"
    BY <1>2, <1>3, FarStep DEF Unserved, HostedBy, q
  <1> QED
    BY <1>1, <1>3, <1>4, <1>5, <1>6 DEF Pending, Unserved, HostedBy, HasPacket, q

\* A request that was written when its connection was opened is pending.
LEMMA NewIsPending ==
    ASSUME IInv, IInv', NEW n \in Node, NEW C, NEW R, NEW W, NEW msg, NEW new,
           LinkContract(n, C, R, W, msg, new),
           NEW c \in new, NEW op, HasPacket(Callee(c), op)'
    PROVE  Pending(Caller(c), op)' /\ Peer(Caller(c)) \in net'.open
  <1> DEFINE q == Callee(c)
             m == net'.host[q]
  <1>1. c \in Conn /\ m \in Node
    BY DEF LinkContract, OpenStep
  <1>2. q \in Socket /\ Peer(Caller(c)) = q /\ q[2] = "callee" /\ q[1] = c
    BY <1>1, CallerCalleeType DEF Callee
  <1>3. q \in net'.open
    BY <1>2 DEF LinkContract, NetStep, Ends
  <1>4. q \notin net.open \ C
    BY <1>2 DEF LinkContract, NetStep
  <1>5. q \notin Sockets(table'[m])
    BY <1>1, <1>4, LinkedWasOpen
  <1> HIDE DEF q
  <1> QED
    BY <1>2, <1>3, <1>5 DEF Pending, Unserved, HostedBy, Far, q

\* An unserved request that is read is either answered by a close, or it asked to
\* join and is granted.
LEMMA ReadIsAnswered ==
    ASSUME NEW n \in Node, NEW C, NEW R, NEW W, NEW msg, NEW new,
           LinkContract(n, C, R, W, msg, new), NEW q \in (Unserved(n) \cap R) \ C
    PROVE  q \in W /\ HasPacket(q, "CMSG_JOIN") /\ msg.op = "SMSG_JOIN"
  <1>1. q \in Sockets(table'[n]) \ Sockets(table[n]) /\ q[2] = "callee"
    BY DEF LinkContract, ReadStep, Unserved
  <1> QED
    BY <1>1 DEF LinkContract, LinkStep

LEMMA AskedStep ==
    ASSUME IInv, IInv', LinksInOrder, NEW n \in Node, NEW C, NEW R, NEW W, NEW msg, NEW new,
           LinkContract(n, C, R, W, msg, new)
    PROVE  AskedIsPending'
  <1> SUFFICES ASSUME NEW m \in Node, NEW t, t = asked'[m], t # NoSock, Peer(t) \in net'.open
               PROVE  Pending(t, "CMSG_NEIGHBOURS")'
    BY DEF AskedIsPending, Pending, Unserved, HostedBy, Far, HasPacket
  <1>1. CASE t = asked[m] /\ t \notin C
    <2>1. t \in net.open \ C
      BY <1>1 DEF IInv, SocketAccounting, SocketsInOrder, HostedBy
    <2>2. Peer(t) \notin Ends(new) /\ (Peer(t) \in R => Far(t) = n)
      BY <2>1, FarStep
    <2>3. Peer(t) \in net.open \ C
      BY <2>2 DEF LinkContract, NetStep
    <2>4. Pending(t, "CMSG_NEIGHBOURS")
      BY <1>1, <2>3 DEF LinksInOrder, AskedIsPending
    <2>5. Peer(t) \notin R
      BY <2>2, <2>3, <2>4, ReadIsAnswered DEF Pending, HasPacket
    <2> QED
      BY <2>1, <2>4, <2>5, PendingStays
  <1>2. ASSUME NEW c \in new, t = Caller(c), HasPacket(Callee(c), "CMSG_NEIGHBOURS")'
        PROVE  Pending(t, "CMSG_NEIGHBOURS")'
    <2>1. Pending(Caller(c), "CMSG_NEIGHBOURS")'
      BY <1>2, NewIsPending
    <2> QED
      BY <1>2, <2>1
  <1>3. m # n => t = asked[m] /\ t \notin C
    <2>1. m # n => t = asked[m] /\ t \in HostedBy(net, m)
      BY DEF LinkContract, OwnStep, IInv, SocketAccounting, SocketsInOrder
    <2>2. C \subseteq HostedBy(net, n)
      BY DEF LinkContract, OwnStep
    <2> QED
      BY <2>1, <2>2, HostsDiffer
  <1> QED
    BY <1>1, <1>2, <1>3 DEF LinkContract, OpenStep

\* That an end was closed for a reason known at the other end does not change.
LEMMA ClosedStays ==
    ASSUME IInv, NEW n \in Node, NEW C, NEW R, NEW W, NEW msg, NEW new,
           LinkContract(n, C, R, W, msg, new), NEW t \in net.open \ C, ClosedKnowingly(t),
           t \notin R \/ Head(net.inbox[t]) # Leave
    PROVE  ClosedKnowingly(t)'
  <1>1. Far(t)' = Far(t)
    BY FarStep
  <1>2. Announced(t) => Announced(t)'
    BY DEF LinkContract, NetStep, Announced
  <1>3. t \in net.broken => t \in net'.broken
    BY DEF LinkContract, NetStep
  <1>4. crashed \subseteq crashed'
    BY DEF LinkContract, OwnStep
  <1> QED
    BY <1>1, <1>2, <1>3, <1>4 DEF ClosedKnowingly

\* The other end of a link is closed for a reason that is known: its servent reads
\* no departure here, and does not see this end closed.
LEMMA LinkIsClosed ==
    ASSUME IInv, LinksInOrder, NEW n \in Node, NEW C, NEW R, NEW W, NEW msg, NEW new,
           LinkContract(n, C, R, W, msg, new), NEW t \in net.open \ C, t[2] = "caller",
           Peer(t) \in C, Peer(t) \in Sockets(table[Far(t)]),
           phase[net.host[t]] \notin {"stop", "down"}
    PROVE  ClosedKnowingly(t)'
  <1> DEFINE q == Peer(t)
  <1>1. /\ t \in Socket /\ Peer(q) = t /\ Far(t) = n /\ Far(t)' = n
        /\ q \in net.open /\ q[2] = "callee"
    <2>1. t \in Socket /\ Peer(q) = t /\ Far(t) = n /\ Far(t)' = n
      BY FarStep
    <2>2. q \in net.open
      BY DEF LinkContract, OwnStep, HostedBy
    <2>3. q[2] = "callee"
      BY DEF Peer, Callee
    <2> QED
      BY <2>1, <2>2, <2>3
  <1> HIDE DEF q
  <1>2. q \in C /\ q \in Sockets(table[n])
    BY <1>1 DEF q
  <1>3. q \notin Unserved(n)
    BY <1>2 DEF Unserved
  <1>4. ~Announced(q)
    BY <1>1, <1>2 DEF LinksInOrder, PacketsAreTrue, Announced, Far
  <1>5. ~AtEof(net, q)
    BY <1>1 DEF AtEof
  <1>6. n \in crashed' \/ (q \in W /\ msg = Leave)
    BY <1>1, <1>2, <1>3, <1>4, <1>5 DEF LinkContract, CloseStep
  <1>7. CASE n \in crashed'
    BY <1>1, <1>7 DEF ClosedKnowingly
  <1>8. CASE q \in W /\ msg = Leave
    BY <1>8 DEF LinkContract, NetStep, ClosedKnowingly, Announced, q
  <1> QED
    BY <1>6, <1>7, <1>8

\* An awaited connection after a step that leaves it to be read.
LEMMA AwaitedStays ==
    ASSUME IInv, IInv', LinksInOrder, NEW n \in Node, NEW C, NEW R, NEW W, NEW msg, NEW new,
           LinkContract(n, C, R, W, msg, new),
           NEW t \in net.open \ C, t \notin R, t[2] = "caller", AwaitedInOrder(t),
           phase[net.host[t]] \in {"list", "resp"}
    PROVE  AwaitedInOrder(t)'
  <1> DEFINE q == Peer(t)
  <1>1. /\ t \in Socket /\ q \in Socket /\ Peer(q) = t /\ Far(t)' = Far(t) /\ Far(t) \in Node
        /\ q \notin Ends(new) /\ (q \in R \cup W \cup C => Far(t) = n)
    BY FarStep
  <1>2. q \in net'.open <=> q \in net.open \ C
    BY <1>1 DEF LinkContract, NetStep
  <1>3. /\ net.inbox[t] # << >> => /\ net'.inbox[t] # << >>
                                   /\ Head(net'.inbox[t]) = Head(net.inbox[t])
        /\ net.inbox[t] = << >> /\ q \in W => net'.inbox[t] # << >> /\ Head(net'.inbox[t]) = msg
    BY DEF LinkContract, NetStep
  <1>4. CASE q \in net'.open
    <2>1. Pending(t, "CMSG_JOIN") \/ HasPacket(t, "SMSG_JOIN")
      BY <1>2, <1>4 DEF AwaitedInOrder
    <2>2. CASE HasPacket(t, "SMSG_JOIN")
      BY <1>3, <1>4, <2>2 DEF AwaitedInOrder, HasPacket
    <2>3. CASE Pending(t, "CMSG_JOIN") /\ q \notin R
      BY <1>4, <2>3, PendingStays DEF AwaitedInOrder
    <2>4. CASE Pending(t, "CMSG_JOIN") /\ q \in R
      <3>1. q \in Unserved(n)
        BY <1>1, <2>4 DEF Pending
      <3>2. q \in W /\ msg.op = "SMSG_JOIN"
        BY <1>2, <1>4, <2>4, <3>1, ReadIsAnswered
      <3>3. net.inbox[t] = << >>
        BY <1>1, <3>1 DEF LinksInOrder, UnservedIsUnanswered
      <3>4. HasPacket(t, "SMSG_JOIN")'
        BY <1>3, <3>2, <3>3 DEF HasPacket
      <3> QED
        BY <1>4, <3>4 DEF AwaitedInOrder
    <2> QED
      BY <2>1, <2>2, <2>3, <2>4
  <1>5. CASE q \notin net.open
    <2>1. Refused(t) \/ ClosedKnowingly(t)
      BY <1>5 DEF AwaitedInOrder
    <2>2. Refused(t) => Refused(t)'
      BY <1>3 DEF Refused, HasPacket
    <2>3. ClosedKnowingly(t) => ClosedKnowingly(t)'
      BY ClosedStays
    <2> QED
      BY <1>2, <1>5, <2>1, <2>2, <2>3 DEF AwaitedInOrder
  <1>6. CASE q \in net.open /\ q \in C
    <2>1. Far(t) = n /\ q[2] = "callee"
      BY <1>1, <1>6 DEF Peer, Callee
    <2>2. SUFFICES Refused(t)' \/ ClosedKnowingly(t)'
      BY <1>2, <1>6 DEF AwaitedInOrder
    <2>3. CASE q \in Sockets(table[n])
      <3>1. phase[net.host[t]] \notin {"stop", "down"}
        OBVIOUS
      <3> QED
        BY <1>6, <2>1, <2>3, <3>1, LinkIsClosed
    <2>4. CASE q \notin Sockets(table[n])
      <3>1. q \in Unserved(n)
        BY <1>6, <2>1, <2>4 DEF Unserved, LinkContract, OwnStep
      <3>2. net.inbox[q] # << >> /\ net.inbox[t] = << >>
        BY <1>1, <3>1 DEF LinksInOrder, UnservedIsUnanswered
      <3>3. HasPacket(q, "CMSG_JOIN")
        BY <1>6, <3>2 DEF AwaitedInOrder, Pending, HasPacket
      <3>4. \/ n \in crashed'
            \/ q \notin R
            \/ q \in W /\ msg.op = "SMSG_JOIN" /\ ~msg.join
        BY <1>6, <2>1, <2>4, <3>3 DEF LinkContract, CloseStep, HasPacket
      <3>5. CASE n \in crashed'
        BY <1>1, <2>1, <3>5 DEF ClosedKnowingly
      <3>6. CASE q \notin R
        BY <1>6, <3>2, <3>6 DEF LinkContract, NetStep, ClosedKnowingly
      <3>7. CASE q \in W /\ msg.op = "SMSG_JOIN" /\ ~msg.join
        BY <1>3, <3>2, <3>7 DEF Refused, HasPacket
      <3> QED
        BY <3>4, <3>5, <3>6, <3>7
    <2> QED
      BY <2>3, <2>4
  <1> QED
    BY <1>2, <1>4, <1>5, <1>6

LEMMA AwaitedStep ==
    ASSUME IInv, IInv', LinksInOrder, NEW n \in Node, NEW C, NEW R, NEW W, NEW msg, NEW new,
           LinkContract(n, C, R, W, msg, new)
    PROVE  AwaitedIsPending'
  <1> SUFFICES ASSUME NEW m \in Node, NEW k \in DOMAIN awaiting'[m], NEW t, t = awaiting'[m][k]
               PROVE  AwaitedInOrder(t)'
    BY DEF AwaitedIsPending, AwaitedInOrder, Pending, Unserved, HostedBy, Refused,
           ClosedKnowingly, Announced, Packets, Far, HasPacket
  <1>1. CASE IsIn(awaiting[m], t) /\ t \notin R \cup C
    <2>1. PICK l \in DOMAIN awaiting[m] : awaiting[m][l] = t
      BY <1>1 DEF IsIn
    <2>2. t \in net.open \ C /\ net.host[t] = m /\ t[2] = "caller"
      BY <1>1, <2>1 DEF IInv, SocketAccounting, SocketsInOrder, HostedBy
    <2>3. AwaitedInOrder(t)
      BY <2>1 DEF LinksInOrder, AwaitedIsPending
    <2>4. phase[net.host[t]] \in {"list", "resp"}
      <3>1. awaiting[m] # << >>
        BY <2>1
      <3> QED
        BY <2>2, <3>1 DEF LinksInOrder, JoinsInOrder
    <2> QED
      BY <1>1, <2>2, <2>3, <2>4, AwaitedStays
  <1>2. ASSUME NEW c \in new, t = Caller(c), HasPacket(Callee(c), "CMSG_JOIN")'
        PROVE  AwaitedInOrder(t)'
    <2>1. Pending(Caller(c), "CMSG_JOIN")' /\ Peer(Caller(c)) \in net'.open
      BY <1>2, NewIsPending
    <2> QED
      BY <1>2, <2>1 DEF AwaitedInOrder
  <1>3. m # n => IsIn(awaiting[m], t) /\ t \notin R \cup C
    <2>1. m # n => k \in DOMAIN awaiting[m] /\ t = awaiting[m][k]
      BY DEF LinkContract, OwnStep
    <2>2. m # n => t \in HostedBy(net, m)
      BY <2>1 DEF IInv, SocketAccounting, SocketsInOrder
    <2>3. C \subseteq HostedBy(net, n) /\ R \subseteq HostedBy(net, n)
      BY DEF LinkContract, OwnStep
    <2> QED
      BY <2>1, <2>2, <2>3, HostsDiffer DEF IsIn
  <1> QED
    BY <1>1, <1>2, <1>3 DEF LinkContract, OpenStep

\* A link that was there before the step.
LEMMA OldLinkStep ==
    ASSUME IInv, IInv', LinksInOrder, OnlyTheLivingHost',
           NEW n \in Node, NEW C, NEW R, NEW W, NEW msg, NEW new,
           LinkContract(n, C, R, W, msg, new),
           NEW m \in Node, NEW t \in Sockets(table[m]) \cap Sockets(table'[m]),
           t[2] = "caller", Peer(t) \notin net'.open, phase'[m] # "stop"
    PROVE  ClosedKnowingly(t)'
  <1>1. t \in net.open \ C /\ net.host[t] = m
    BY LinkedWasOpen
  <1>2. t \notin R
    <2>1. t \in R => m = n
      BY <1>1, FarStep
    <2> QED
      BY <1>1, <2>1 DEF LinkContract, ReadStep
  <1>3. phase[m] \notin {"stop", "down"}
    <2>1. t \in HostedBy(net', m)
      BY DEF IInv, SocketAccounting, SocketsInOrder
    <2>2. phase'[m] # "down"
      BY <2>1 DEF OnlyTheLivingHost
    <2>3. phase[m] \in {"stop", "down"} => phase'[m] \in {"stop", "down"}
      BY DEF LinkContract, OwnStep
    <2> QED
      BY <2>2, <2>3
  <1>4. CASE Peer(t) \notin net.open
    <2>1. ClosedKnowingly(t)
      BY <1>3, <1>4 DEF LinksInOrder, DeparturesAreAnnounced, ClosedKnowingly
    <2> QED
      BY <1>1, <1>2, <2>1, ClosedStays
  <1>5. CASE Peer(t) \in net.open
    <2>1. Peer(t) \in C
      BY <1>5 DEF LinkContract, NetStep
    <2>2. Peer(t) \in Sockets(table[Far(t)])
      BY <1>5 DEF LinksInOrder, OutgoingLinksAreMutual, Far
    <2> QED
      BY <1>1, <1>3, <2>1, <2>2, LinkIsClosed
  <1> QED
    BY <1>4, <1>5

\* A link that the step makes, of an awaited connection.
LEMMA NewLinkStep ==
    ASSUME IInv, IInv', LinksInOrder, NEW n \in Node, NEW C, NEW R, NEW W, NEW msg, NEW new,
           LinkContract(n, C, R, W, msg, new),
           NEW t \in Sockets(table'[n]) \ Sockets(table[n]),
           t[2] = "caller", Peer(t) \notin net'.open
    PROVE  ClosedKnowingly(t)'
  <1>1. t \in net.open \ C /\ net.host[t] = n /\ t \in Socket
    BY LinkedWasOpen, FarStep
  <1>2. AwaitedInOrder(t) /\ phase[n] \in {"list", "resp"}
    <2>1. PICK k \in DOMAIN awaiting[n] : awaiting[n][k] = t
      BY DEF LinkContract, LinkStep, IsIn
    <2>2. awaiting[n] # << >>
      BY <2>1
    <2> QED
      BY <2>1, <2>2 DEF LinksInOrder, AwaitedIsPending, JoinsInOrder
  <1>3. CASE AtEof(net, t)
    <2>1. ClosedKnowingly(t)
      BY <1>2, <1>3 DEF AwaitedInOrder, AtEof, Refused, HasPacket
    <2>2. t \notin R
      BY <1>3 DEF LinkContract, ReadStep, AtEof
    <2> QED
      BY <1>1, <2>1, <2>2, ClosedStays
  <1>4. CASE HasPacket(t, "SMSG_JOIN") /\ Head(net.inbox[t]).join
    <2>1. Head(net.inbox[t]) \in Packets(t) /\ Head(net.inbox[t]).op = "SMSG_JOIN"
      BY <1>1, <1>4, HeadIsPacket DEF HasPacket, IInv
    <2>2. CASE Peer(t) \notin net.open
      <3>1. ClosedKnowingly(t)
        BY <1>2, <1>4, <2>2 DEF AwaitedInOrder, Refused
      <3>2. Head(net.inbox[t]) # Leave
        BY <2>1 DEF Leave
      <3> QED
        BY <1>1, <3>1, <3>2, ClosedStays
    <2>3. CASE Peer(t) \in net.open
      <3>1. Peer(t) \in C
        BY <2>3 DEF LinkContract, NetStep
      <3>2. Peer(t) \in Sockets(table[Far(t)])
        BY <1>1, <1>4, <2>1, <2>3 DEF LinksInOrder, PacketsAreTrue
      <3>3. phase[net.host[t]] \notin {"stop", "down"}
        BY <1>1, <1>2
      <3> QED
        BY <1>1, <3>1, <3>2, <3>3, LinkIsClosed
    <2> QED
      BY <2>2, <2>3
  <1> QED
    BY <1>3, <1>4 DEF LinkContract, LinkStep

LEMMA DeparturesStep ==
    ASSUME IInv, IInv', LinksInOrder, OnlyTheLivingHost', PacketsAreTrue',
           NEW n \in Node, NEW C, NEW R, NEW W, NEW msg, NEW new,
           LinkContract(n, C, R, W, msg, new)
    PROVE  DeparturesAreAnnounced'
  <1> SUFFICES ASSUME NEW m \in Node, NEW t \in Sockets(table'[m])
               PROVE  /\ t[2] = "caller" /\ Peer(t) \notin net'.open /\ phase'[m] # "stop"
                            => ClosedKnowingly(t)'
                      /\ Announced(t)' => phase'[Far(t)'] \in {"stop", "down"}
    BY DEF DeparturesAreAnnounced, ClosedKnowingly
  <1>1. t[2] = "caller" /\ Peer(t) \notin net'.open /\ phase'[m] # "stop" => ClosedKnowingly(t)'
    BY LinkedWasOpen, OldLinkStep, NewLinkStep
  <1>2. t \in net'.open
    BY DEF IInv, SocketAccounting, SocketsInOrder, HostedBy
  <1>3. Announced(t)' => phase'[Far(t)'] \in {"stop", "down"}
    BY <1>2 DEF PacketsAreTrue, Announced
  <1> QED
    BY <1>1, <1>3

LEMMA ContractStep ==
    ASSUME IInv, IInv', LinksInOrder, NEW n \in Node, NEW C, NEW R, NEW W, NEW msg, NEW new,
           LinkContract(n, C, R, W, msg, new)
    PROVE  LinksInOrder'
  <1>1. ClosedEndsAreEmpty'
    BY DEF LinkContract, NetStep
  <1>2. OnlyTheLivingHost'
    BY HostsStep
  <1>3. JoinsInOrder'
    BY JoinsStep
  <1>4. PacketsAreTrue'
    BY PacketsStep
  <1>5. UnservedIsUnanswered'
    BY UnservedStep
  <1>6. AskedIsPending'
    BY AskedStep
  <1>7. AwaitedIsPending'
    BY AwaitedStep
  <1>8. OutgoingLinksAreMutual'
    BY MutualStep
  <1>9. DeparturesAreAnnounced'
    BY <1>2, <1>4, DeparturesStep
  <1> QED
    BY <1>1, <1>2, <1>3, <1>4, <1>5, <1>6, <1>7, <1>8, <1>9 DEF LinksInOrder

-----------------------------------------------------------------------------
(* Every action keeps to the contract.                                     *)

\* What reading the first packet and writing one more do to the packets.
LEMMA PacketsOfTail ==
    ASSUME NEW M, NEW q \in Seq(M), q # << >>
    PROVE  /\ Tail(q) \in Seq(M)
           /\ \A m : IsIn(Tail(q), m) => IsIn(q, m)
           /\ \A m : IsIn(q, m) => IsIn(Tail(q), m) \/ m = Head(q)
  <1>1. /\ Tail(q) \in Seq(M) /\ Head(q) = q[1]
        /\ \A k \in DOMAIN Tail(q) : k + 1 \in DOMAIN q /\ Tail(q)[k] = q[k + 1]
        /\ \A k \in DOMAIN q : k = 1 \/ (k - 1 \in DOMAIN Tail(q) /\ Tail(q)[k - 1] = q[k])
    OBVIOUS
  <1>2. \A m : IsIn(Tail(q), m) => IsIn(q, m)
    BY <1>1 DEF IsIn
  <1>3. \A m : IsIn(q, m) => IsIn(Tail(q), m) \/ m = Head(q)
    BY <1>1 DEF IsIn
  <1> QED
    BY <1>1, <1>2, <1>3

LEMMA PacketsOfAppend ==
    ASSUME NEW M, NEW q \in Seq(M), NEW msg \in M
    PROVE  /\ Append(q, msg) \in Seq(M) /\ Append(q, msg) # << >>
           /\ \A m : IsIn(Append(q, msg), m) <=> (IsIn(q, m) \/ m = msg)
           /\ q # << >> => Head(Append(q, msg)) = Head(q)
           /\ q = << >> => Head(Append(q, msg)) = msg
  <1> DEFINE v == Append(q, msg)
  <1>1. /\ v \in Seq(M) /\ v # << >> /\ DOMAIN v = 1 .. Len(q) + 1 /\ DOMAIN q = 1 .. Len(q)
        /\ Len(q) \in Nat
        /\ \A k \in DOMAIN q : v[k] = q[k]
        /\ v[Len(q) + 1] = msg
        /\ Head(v) = v[1]
    OBVIOUS
  <1> HIDE DEF v
  <1>2. ASSUME NEW m, IsIn(v, m)
        PROVE  IsIn(q, m) \/ m = msg
    <2>1. PICK k \in DOMAIN v : v[k] = m
      BY <1>2 DEF IsIn
    <2>2. k \in DOMAIN q \/ k = Len(q) + 1
      BY <1>1
    <2> QED
      BY <1>1, <2>1, <2>2 DEF IsIn
  <1>3. ASSUME NEW m, IsIn(q, m) \/ m = msg
        PROVE  IsIn(v, m)
    <2>1. DOMAIN q \subseteq DOMAIN v /\ Len(q) + 1 \in DOMAIN v
      BY <1>1
    <2> QED
      BY <1>1, <1>3, <2>1 DEF IsIn
  <1>4. q # << >> => Head(v) = Head(q)
    <2>1. q # << >> => 1 \in DOMAIN q /\ Head(q) = q[1]
      BY <1>1
    <2> QED
      BY <1>1, <2>1
  <1>5. q = << >> => Head(v) = msg
    BY DEF v
  <1> QED
    BY <1>1, <1>2, <1>3, <1>4, <1>5 DEF v

\* A step of reads, writes and closes.
LEMMA PassesNet ==
    ASSUME TypeOK, NEW C, NEW R, NEW W, NEW msg \in Message, NEW new, new = {},
           \A s \in R : net.inbox[s] # << >>, Passes(net, net', C, R, W, msg)
    PROVE  NetStep(C, R, W, msg, new)
  <1>1. net'.open = (net.open \ C) \cup Ends(new)
    BY DEF Passes, Ends
  <1>2. ClosedEndsAreEmpty'
    BY DEF Passes, EmptyWhenClosed, ClosedEndsAreEmpty
  <1>3. ASSUME NEW t \in net.open \ C
        PROVE  /\ t[1] \notin new
               /\ net'.host[t] = net.host[t] /\ net'.host[Peer(t)] = net.host[Peer(t)]
               /\ t \in net.broken => t \in net'.broken
               /\ Peer(t) \in C \ R /\ net.inbox[Peer(t)] # << >> => t \in net'.broken
    BY DEF Passes
  <1>4. ASSUME NEW t \in net.open \ C
        PROVE  /\ Packets(t)' \subseteq Packets(t) \cup {msg}
               /\ Peer(t) \notin W => Packets(t)' \subseteq Packets(t)
               /\ Peer(t) \in W => msg \in Packets(t)'
               /\ Packets(t) \subseteq Packets(t)' \cup {Head(net.inbox[t])}
               /\ t \notin R => Packets(t) \subseteq Packets(t)'
               /\ t \notin R /\ net.inbox[t] # << >>
                     => net'.inbox[t] # << >> /\ Head(net'.inbox[t]) = Head(net.inbox[t])
               /\ t \notin R /\ net.inbox[t] = << >> /\ Peer(t) \notin W => net'.inbox[t] = << >>
               /\ t \notin R /\ net.inbox[t] = << >> /\ Peer(t) \in W
                     => net'.inbox[t] # << >> /\ Head(net'.inbox[t]) = msg
    <2> DEFINE q == net.inbox[t]
               v == net'.inbox[t]
               rest == IF t \in R THEN Tail(q) ELSE q
    <2>1. q \in Seq(Message) /\ (t \in R => q # << >>)
      BY DEF TypeOK, Net
    <2>2. v = IF Peer(t) \in W THEN Append(rest, msg) ELSE rest
      BY DEF Passes
    <2>3. /\ \A m : m \in Packets(t) <=> IsIn(q, m)
          /\ \A m : m \in Packets(t)' <=> IsIn(v, m)
      BY DEF Packets, IsIn
    <2> HIDE DEF q, v
    <2>4. ASSUME t \in R
          PROVE  /\ Tail(q) \in Seq(Message)
                 /\ \A m : IsIn(Tail(q), m) => IsIn(q, m)
                 /\ \A m : IsIn(q, m) => IsIn(Tail(q), m) \/ m = Head(q)
      BY <2>1, <2>4, PacketsOfTail
    <2>5. /\ rest \in Seq(Message)
          /\ \A m : IsIn(rest, m) => IsIn(q, m)
          /\ \A m : IsIn(q, m) => IsIn(rest, m) \/ m = Head(q)
          /\ t \notin R => rest = q
      BY <2>1, <2>4
    <2> HIDE DEF rest
    <2>6. /\ Append(rest, msg) # << >>
          /\ \A m : IsIn(Append(rest, msg), m) <=> (IsIn(rest, m) \/ m = msg)
          /\ rest # << >> => Head(Append(rest, msg)) = Head(rest)
          /\ rest = << >> => Head(Append(rest, msg)) = msg
      <3> HIDE DEF rest
      <3>1. rest \in Seq(Message)
        BY <2>5
      <3> QED
        BY <3>1, PacketsOfAppend
    <2>7. Peer(t) \in W => v = Append(rest, msg)
      BY <2>2
    <2>8. Peer(t) \notin W => v = rest
      BY <2>2
    <2>9. /\ Packets(t)' \subseteq Packets(t) \cup {msg}
          /\ Peer(t) \notin W => Packets(t)' \subseteq Packets(t)
          /\ Peer(t) \in W => msg \in Packets(t)'
      BY <2>3, <2>5, <2>6, <2>7, <2>8, Zenon
    <2>10. /\ Packets(t) \subseteq Packets(t)' \cup {Head(q)}
           /\ t \notin R => Packets(t) \subseteq Packets(t)'
      BY <2>3, <2>5, <2>6, <2>7, <2>8, Zenon
    <2>11. /\ t \notin R /\ q # << >> => v # << >> /\ Head(v) = Head(q)
           /\ t \notin R /\ q = << >> /\ Peer(t) \notin W => v = << >>
           /\ t \notin R /\ q = << >> /\ Peer(t) \in W => v # << >> /\ Head(v) = msg
      BY <2>5, <2>6, <2>7, <2>8, Zenon
    <2> QED
      BY <2>9, <2>10, <2>11 DEF q, v
  <1> QED
    BY <1>1, <1>2, <1>3, <1>4 DEF NetStep

\* The new connection c, from one servent to another, with its request.
Opened(c, from, to, req) ==
    /\ net'.host[Caller(c)] = from /\ net'.host[Callee(c)] = to
    /\ net'.inbox[Caller(c)] = << >> /\ net'.inbox[Callee(c)] = <<req>>

LEMMA OpenedRequest ==
    ASSUME NEW c, NEW from, NEW to, NEW req, Opened(c, from, to, req)
    PROVE  /\ HasPacket(Callee(c), req.op)'
           /\ \A m \in Packets(Callee(c))' : m = req
  BY DEF Opened, HasPacket, Packets

\* A step that closes C and then opens connection c.
LEMMA DialNet ==
    ASSUME TypeOK, NEW C, NEW Z, Z = {}, NEW msg, NEW w \in Net(Message), Passes(net, w, C, Z, Z, msg),
           NEW c \in Conn, IsFree(w, c), NEW from \in Node, NEW to \in Node, NEW req \in Message,
           net' = Dial(w, c, from, to, req), NEW new, new = {c}
    PROVE  NetStep(C, Z, Z, msg, new) /\ Opened(c, from, to, req)
  <1>1. /\ Caller(c) \in Socket /\ Callee(c) \in Socket /\ Caller(c) # Callee(c)
        /\ \A s \in Socket : s[1] = c => s = Caller(c) \/ s = Callee(c)
    BY DEF Caller, Callee, Socket, Side
  <1>2. /\ w.open = net.open \ C /\ w.open \subseteq Socket
        /\ Caller(c) \notin w.open /\ Callee(c) \notin w.open
    BY DEF Passes, Net, IsFree
  <1>3. /\ net'.open = w.open \cup {Caller(c), Callee(c)}
        /\ net'.host[Caller(c)] = from /\ net'.host[Callee(c)] = to
        /\ net'.inbox[Callee(c)] = <<req>> /\ net'.broken = w.broken
        /\ \A s \in Socket : s # Caller(c) /\ s # Callee(c) => net'.host[s] = w.host[s]
        /\ \A s \in Socket : s # Callee(c) => net'.inbox[s] = w.inbox[s]
    BY <1>1 DEF Dial, Net
  <1>4. EmptyWhenClosed(w)
    BY DEF Passes
  <1>5. net'.inbox[Caller(c)] = << >>
    BY <1>1, <1>2, <1>3, <1>4 DEF EmptyWhenClosed
  <1>6. net'.open = (net.open \ C) \cup Ends(new)
    BY <1>1, <1>2, <1>3 DEF Ends, Caller, Callee
  <1>7. ClosedEndsAreEmpty'
    BY <1>2, <1>3, <1>4 DEF ClosedEndsAreEmpty, EmptyWhenClosed
  <1>8. ASSUME NEW t \in net.open \ C
        PROVE  /\ t[1] \notin new
               /\ net'.host[t] = net.host[t] /\ net'.host[Peer(t)] = net.host[Peer(t)]
               /\ net'.inbox[t] = net.inbox[t]
               /\ t \in net.broken => t \in net'.broken
               /\ Peer(t) \in C \ Z /\ net.inbox[Peer(t)] # << >> => t \in net'.broken
    <2>1. t \in w.open /\ t \in Socket /\ t[1] # c
      BY <1>1, <1>2
    <2>2. Peer(t) \in Socket /\ Peer(t)[1] # c
      BY <2>1 DEF Peer, Caller, Callee, Socket, Side
    <2>3. /\ t # Caller(c) /\ t # Callee(c) /\ Peer(t) # Caller(c) /\ Peer(t) # Callee(c)
      BY <2>1, <2>2 DEF Caller, Callee
    <2> QED
      BY <1>3, <2>1, <2>2, <2>3 DEF Passes
  <1>9. ASSUME NEW t \in net.open \ C
        PROVE  Packets(t)' = Packets(t)
    BY <1>8 DEF Packets
  <1>10. NetStep(C, Z, Z, msg, new)
    BY <1>6, <1>7, <1>8, <1>9 DEF NetStep
  <1> QED
    BY <1>3, <1>5, <1>10 DEF Opened

\* The step of n fits the contract in some way.
Contracted(n) == \E C, R, W, msg, new : LinkContract(n, C, R, W, msg, new)

LEMMA NetUnchanged ==
    ASSUME TypeOK, LinksInOrder, net' = net, NEW Z, Z = {}
    PROVE  NetStep(Z, Z, Z, Leave, Z)
  <1>1. EmptyWhenClosed(net)
    BY DEF LinksInOrder, ClosedEndsAreEmpty, EmptyWhenClosed
  <1>2. Passes(net, net', Z, Z, Z, Leave)
    BY <1>1, NothingPasses
  <1>3. Leave \in Message /\ \A s \in Z : net.inbox[s] # << >>
    BY MessagesAreMessages
  <1> QED
    BY <1>2, <1>3, PassesNet

\* A step that leaves the connections and the table alone.
LEMMA QuietContract ==
    ASSUME TypeOK, LinksInOrder, NEW n \in Node, UNCHANGED <<net, table, crashed>>,
           NEW Z, Z = {}, OwnStep(n, Z, Z, Z, Z),
           asked'[n] \in {NoSock, asked[n]}, awaiting'[n] \in {<< >>, awaiting[n]}
    PROVE  Contracted(n)
  <1>1. NetStep(Z, Z, Z, Leave, Z)
    BY NetUnchanged
  <1>2. WriteStep(n, Z, Z, Leave)
    BY DEF WriteStep
  <1>3. LinkStep(n, Z, Z, Z, Leave)
    BY DEF LinkStep
  <1>4. ReadStep(n, Z, Z)
    BY DEF ReadStep
  <1>5. CloseStep(n, Z, Z, Z, Leave)
    BY DEF CloseStep
  <1>6. OpenStep(n, Z, Z, Z)
    <2>1. asked'[n] = NoSock \/ (asked'[n] = asked[n] /\ asked[n] \notin Z)
      OBVIOUS
    <2>2. \A k \in DOMAIN awaiting'[n] : IsIn(awaiting[n], awaiting'[n][k])
      BY DEF IsIn
    <2> QED
      BY <2>1, <2>2 DEF OpenStep
  <1>7. LinkContract(n, Z, Z, Z, Leave, Z)
    BY <1>1, <1>2, <1>3, <1>4, <1>5, <1>6 DEF LinkContract
  <1> QED
    BY <1>7 DEF Contracted

\* The phases in which a servent is not booting and waits for no join.
LEMMA QuietPhases ==
    ASSUME LinksInOrder, NEW n \in Node
    PROVE  /\ phase[n] \notin {"neigh", "ask"} => ~booting[n]
           /\ phase[n] = "ask" /\ todo[n] = << >> => ~booting[n]
           /\ phase[n] \notin {"list", "resp"} => awaiting[n] = << >>
           /\ booting[n] => Sockets(table[n]) = {}
           /\ phase[n] \in {"off", "down"} => HostedBy(net, n) = {}
           /\ n \in crashed => phase[n] = "down"
  BY DEF LinksInOrder, JoinsInOrder, OnlyTheLivingHost

LEMMA StartContract ==
    ASSUME IInv, LinksInOrder, NEW n \in Node, Start(n)
    PROVE  Contracted(n)
  <1> DEFINE Z == {}
  <1>1. Sockets(table[n]) = {} /\ awaiting[n] = << >> /\ n \notin crashed /\ ~booting[n]
    BY QuietPhases DEF Start, IInv, SocketAccounting, SocketsInOrder
  <1>2. UNCHANGED <<net, table, crashed, asked, awaiting>>
    BY DEF Start, locals
  <1>3. /\ \A m \in Node \ {n} : phase'[m] = phase[m] /\ booting'[m] = booting[m] /\ todo'[m] = todo[m]
        /\ phase'[n] \in {"run", "ask"}
        /\ booting'[n] => phase'[n] = "ask" /\ todo'[n] # << >>
    <2> USE DEF IInv, TypeOK
    <2>1. CASE Contact[n] = NoNode
      BY <1>1, <2>1 DEF Start
    <2>2. CASE Contact[n] # NoNode
      <3>1. <<[left |-> JoinMaxAttempts, addrs |-> <<Contact[n]>>]>> # << >>
        OBVIOUS
      <3> HIDE DEF Z
      <3>2. /\ phase' = [phase EXCEPT ![n] = "ask"]
            /\ booting' = [booting EXCEPT ![n] = TRUE]
            /\ todo' = [todo EXCEPT ![n] =
                           <<[left |-> JoinMaxAttempts, addrs |-> <<Contact[n]>>]>>]
        BY <2>2 DEF Start
      <3> QED
        BY <3>1, <3>2
    <2> QED
      BY <2>1, <2>2
  <1>4. OwnStep(n, Z, Z, Z, Z)
    BY <1>1, <1>2, <1>3 DEF OwnStep, Start
  <1> QED
    BY <1>2, <1>4, QuietContract DEF IInv

LEMMA EndCallContract ==
    ASSUME IInv, LinksInOrder, NEW n \in Node, EndCall(n)
    PROVE  Contracted(n)
  <1> DEFINE Z == {}
  <1>1. phase[n] = "resp" /\ n \notin crashed /\ ~booting[n]
    BY QuietPhases DEF EndCall
  <1>2. UNCHANGED <<net, table, crashed, booting>>
    BY DEF EndCall
  <1>3. /\ \A m \in Node \ {n} : /\ phase'[m] = phase[m] /\ todo'[m] = todo[m]
                                 /\ asked'[m] = asked[m] /\ awaiting'[m] = awaiting[m]
        /\ phase'[n] = "ask" /\ asked'[n] = NoSock /\ awaiting'[n] = << >>
    BY DEF EndCall, ForgetLocals, IInv, TypeOK
  <1>4. OwnStep(n, Z, Z, Z, Z)
    BY <1>1, <1>2, <1>3 DEF OwnStep
  <1> QED
    BY <1>2, <1>3, <1>4, QuietContract DEF IInv

LEMMA EndJoinContract ==
    ASSUME IInv, LinksInOrder, NEW n \in Node, EndJoin(n)
    PROVE  Contracted(n)
  <1> DEFINE Z == {}
  <1>1. phase[n] = "ask" /\ n \notin crashed /\ ~booting[n] /\ awaiting[n] = << >>
    BY QuietPhases DEF EndJoin
  <1>2. UNCHANGED <<net, table, crashed, booting, todo, asked, awaiting>>
    BY DEF EndJoin, joinVars, locals
  <1>3. phase'[n] = "run" /\ \A m \in Node \ {n} : phase'[m] = phase[m]
    BY DEF EndJoin, IInv, TypeOK
  <1>4. OwnStep(n, Z, Z, Z, Z)
    BY <1>1, <1>2, <1>3 DEF OwnStep
  <1> QED
    BY <1>2, <1>4, QuietContract DEF IInv

LEMMA SigintContract ==
    ASSUME IInv, LinksInOrder, NEW n \in Node, Sigint(n)
    PROVE  Contracted(n)
  <1> DEFINE Z == {}
  <1>1. phase[n] = "run" /\ n \notin crashed /\ ~booting[n] /\ awaiting[n] = << >>
    BY QuietPhases DEF Sigint
  <1>2. UNCHANGED <<net, table, crashed, booting, todo, asked, awaiting>>
    BY DEF Sigint, joinVars, locals
  <1>3. phase'[n] = "stop" /\ \A m \in Node \ {n} : phase'[m] = phase[m]
    BY DEF Sigint, IInv, TypeOK
  <1>4. OwnStep(n, Z, Z, Z, Z)
    BY <1>1, <1>2, <1>3 DEF OwnStep
  <1> QED
    BY <1>2, <1>4, QuietContract DEF IInv

\* The end of a process, with a departure written on some links or on all.
LEMMA DisappearContract ==
    ASSUME IInv, LinksInOrder, NEW n \in Node, NEW w, Disappear(n, w),
           NEW Z, Z = {}, NEW C, C = HostedBy(net, n), NEW W \in SUBSET Sockets(table[n]),
           Passes(net, net', C, Z, W, Leave),
           crashed' = crashed \cup {n} \/ (crashed' = crashed /\ Sockets(table[n]) \subseteq W)
    PROVE  Contracted(n)
  <1>1. NetStep(C, Z, W, Leave, Z)
    BY MessagesAreMessages, PassesNet DEF IInv
  <1>2. /\ \A m \in Node \ {n} : /\ phase'[m] = phase[m] /\ booting'[m] = booting[m]
                                 /\ todo'[m] = todo[m] /\ asked'[m] = asked[m]
                                 /\ awaiting'[m] = awaiting[m] /\ table'[m] = table[m]
        /\ phase'[n] = "down" /\ booting'[n] = FALSE /\ asked'[n] = NoSock
        /\ awaiting'[n] = << >> /\ table'[n] = EmptyTable
    BY DEF Disappear, ForgetLocals, IInv, TypeOK
  <1>3. Sockets(table[n]) \subseteq C
    BY DEF IInv, SocketAccounting, SocketsInOrder
  <1>4. Sockets(table'[n]) = {}
    BY <1>2, EmptyTableAccounted
  <1>5. OwnStep(n, C, Z, W, Z)
    BY <1>2, <1>3 DEF OwnStep
  <1>6. WriteStep(n, C, W, Leave)
    BY <1>2, <1>3 DEF WriteStep, Leave
  <1>7. LinkStep(n, C, Z, W, Leave)
    BY <1>3, <1>4 DEF LinkStep
  <1>8. ReadStep(n, C, Z)
    BY DEF ReadStep
  <1>9. CloseStep(n, C, Z, W, Leave)
    BY DEF CloseStep
  <1>10. OpenStep(n, C, Z, Z)
    BY <1>2 DEF OpenStep
  <1>11. LinkContract(n, C, Z, W, Leave, Z)
    BY <1>1, <1>5, <1>6, <1>7, <1>8, <1>9, <1>10 DEF LinkContract
  <1> QED
    BY <1>11 DEF Contracted

\* The sockets of a process that ends, after a message was written on some of them.
LEMMA DisappearPasses ==
    ASSUME IInv, LinksInOrder, NEW n \in Node, NEW Z, Z = {}, NEW W \in SUBSET Sockets(table[n])
    PROVE  LET w == SendAll(net, W, Leave)
           IN  Passes(net, CloseAll(w, HostedBy(w, n)), HostedBy(net, n), Z, W, Leave)
  <1> DEFINE w == SendAll(net, W, Leave)
  <1>1. EmptyWhenClosed(net) /\ net \in Net(Message) /\ Leave \in Message
    BY MessagesAreMessages DEF LinksInOrder, ClosedEndsAreEmpty, EmptyWhenClosed, IInv, TypeOK
  <1>2. Passes(net, net, Z, Z, Z, Leave)
    BY <1>1, NothingPasses
  <1>3. Passes(net, w, Z, Z, W, Leave)
    BY <1>1, <1>2, SendAllPasses
  <1>4. W \in SUBSET Socket
    BY SocketsType DEF IInv, TypeOK
  <1>5. w \in Net(Message)
    BY <1>1, <1>4, SendAllType
  <1>6. HostedBy(w, n) = HostedBy(net, n)
    BY HostedBySendAll
  <1> HIDE DEF w
  <1>7. Passes(net, CloseAll(w, HostedBy(net, n)), HostedBy(net, n), Z, W, Leave)
    BY <1>1, <1>3, <1>5, CloseAllPasses
  <1> QED
    BY <1>6, <1>7 DEF w

\* A process that dies without writing, or at its first write.
LEMMA CloseOwnPasses ==
    ASSUME IInv, LinksInOrder, NEW n \in Node, NEW Z, Z = {}
    PROVE  Passes(net, CloseAll(net, HostedBy(net, n)), HostedBy(net, n), Z, Z, Leave)
  <1>1. EmptyWhenClosed(net) /\ net \in Net(Message)
    BY DEF LinksInOrder, ClosedEndsAreEmpty, EmptyWhenClosed, IInv, TypeOK
  <1>2. Passes(net, net, Z, Z, Z, Leave)
    BY <1>1, NothingPasses
  <1> QED
    BY <1>1, <1>2, CloseAllPasses

LEMMA DiesContract ==
    ASSUME IInv, LinksInOrder, NEW n \in Node, Dies(n, net)
    PROVE  Contracted(n)
  <1> DEFINE Z == {}
             C == HostedBy(net, n)
  <1>1. Disappear(n, net) /\ crashed' = crashed \cup {n}
    BY DEF Dies
  <1>2. net' = CloseAll(net, C)
    BY <1>1 DEF Disappear
  <1> HIDE DEF Z
  <1>3. Z = {}
    BY DEF Z
  <1>4. Passes(net, net', C, Z, Z, Leave)
    BY <1>2, <1>3, CloseOwnPasses
  <1>5. Z \in SUBSET Sockets(table[n])
    BY <1>3
  <1> HIDE DEF C
  <1>6. C = HostedBy(net, n)
    BY DEF C
  <1> QED
    BY <1>1, <1>3, <1>4, <1>5, <1>6, DisappearContract

LEMMA DiesInBroadcastContract ==
    ASSUME IInv, LinksInOrder, NEW n \in Node, DiesInBroadcast(n)
    PROVE  Contracted(n)
  <1> DEFINE Z == {}
             C == HostedBy(net, n)
  <1>1. PICK i \in LiveSlots(table[n]) :
           Dies(n, SendAll(net, {table[n].sock[j] : j \in LiveSlots(table[n]) \cap 1 .. i - 1}, Leave))
    BY DEF DiesInBroadcast
  <1> DEFINE W == {table[n].sock[j] : j \in LiveSlots(table[n]) \cap 1 .. i - 1}
             w == SendAll(net, W, Leave)
  <1>2. W \in SUBSET Sockets(table[n])
    BY DEF Sockets
  <1>3. Dies(n, w)
    BY <1>1
  <1> HIDE DEF W
  <1>4. Disappear(n, w) /\ crashed' = crashed \cup {n}
    BY <1>3 DEF Dies
  <1>5. net' = CloseAll(w, HostedBy(w, n))
    BY <1>4 DEF Disappear
  <1> HIDE DEF Z, C
  <1>6. Z = {} /\ C = HostedBy(net, n)
    BY DEF Z, C
  <1>7. Passes(net, net', C, Z, W, Leave)
    BY <1>2, <1>5, <1>6, DisappearPasses
  <1> HIDE DEF w
  <1> QED
    BY <1>2, <1>4, <1>6, <1>7, DisappearContract

LEMMA ExitContract ==
    ASSUME IInv, LinksInOrder, NEW n \in Node, Exit(n)
    PROVE  Contracted(n)
  <1> DEFINE Z == {}
             C == HostedBy(net, n)
             W == Sockets(table[n])
             w == SendAll(net, W, Leave)
  <1>1. CASE DiesInBroadcast(n)
    BY <1>1, DiesInBroadcastContract
  <1>2. CASE Disappear(n, Broadcast(n)) /\ UNCHANGED <<crashed, leavers>>
    <2>1. Disappear(n, w) /\ crashed' = crashed
      BY <1>2 DEF Broadcast
    <2>2. net' = CloseAll(w, HostedBy(w, n))
      BY <2>1 DEF Disappear
    <2> HIDE DEF Z, C, W
    <2>3. Z = {} /\ C = HostedBy(net, n) /\ W \in SUBSET Sockets(table[n]) /\ W = Sockets(table[n])
      BY DEF Z, C, W
    <2>4. Passes(net, net', C, Z, W, Leave)
      BY <2>2, <2>3, DisappearPasses
    <2> HIDE DEF w
    <2> QED
      BY <2>1, <2>3, <2>4, DisappearContract
  <1> QED
    BY <1>1, <1>2 DEF Exit

LEMMA CrashContract ==
    ASSUME IInv, LinksInOrder, NEW n \in Node, Crash(n)
    PROVE  Contracted(n)
  BY DiesContract DEF Crash

LEMMA LeaveRequestContract ==
    ASSUME IInv, LinksInOrder, NEW n \in Node, LeaveRequest(n)
    PROVE  Contracted(n)
  <1> DEFINE Z == {}
             W == Sockets(table[n])
  <1>1. CASE DiesInBroadcast(n)
    BY <1>1, DiesInBroadcastContract
  <1>2. CASE ~DiesInBroadcast(n)
    <2>1. /\ phase[n] = "run" /\ phase' = [phase EXCEPT ![n] = "stop"]
          /\ net' = SendAll(net, W, Leave)
          /\ UNCHANGED <<booting, todo, asked, awaiting, table, crashed>>
      BY <1>2 DEF LeaveRequest, Broadcast, joinVars, locals
    <2>2. n \notin crashed /\ ~booting[n] /\ awaiting[n] = << >>
      BY <2>1, QuietPhases
    <2> HIDE DEF Z, W
    <2>3. Z = {} /\ W = Sockets(table[n])
      BY DEF Z, W
    <2>4. EmptyWhenClosed(net) /\ net \in Net(Message) /\ Leave \in Message
      BY MessagesAreMessages DEF LinksInOrder, ClosedEndsAreEmpty, EmptyWhenClosed, IInv, TypeOK
    <2>5. Passes(net, net, Z, Z, Z, Leave)
      BY <2>3, <2>4, NothingPasses
    <2>6. Passes(net, net', Z, Z, W, Leave)
      BY <2>1, <2>3, <2>4, <2>5, SendAllPasses
    <2>7. NetStep(Z, Z, W, Leave, Z)
      BY <2>3, <2>4, <2>6, PassesNet DEF IInv
    <2>8. W \subseteq HostedBy(net, n)
      BY <2>3 DEF IInv, SocketAccounting, SocketsInOrder
    <2>9. phase'[n] = "stop" /\ \A m \in Node \ {n} : phase'[m] = phase[m]
      BY <2>1 DEF IInv, TypeOK
    <2>10. OwnStep(n, Z, Z, W, Z)
      BY <2>1, <2>2, <2>3, <2>8, <2>9 DEF OwnStep
    <2>11. WriteStep(n, Z, W, Leave)
      BY <2>1, <2>3, <2>9 DEF WriteStep, Leave
    <2>12. LinkStep(n, Z, Z, W, Leave) /\ ReadStep(n, Z, Z) /\ CloseStep(n, Z, Z, W, Leave)
      BY <2>1, <2>3 DEF LinkStep, ReadStep, CloseStep
    <2>13. OpenStep(n, Z, Z, Z)
      BY <2>1, <2>2, <2>3 DEF OpenStep
    <2>14. LinkContract(n, Z, Z, W, Leave, Z)
      BY <2>7, <2>10, <2>11, <2>12, <2>13 DEF LinkContract
    <2> QED
      BY <2>14 DEF Contracted
  <1> QED
    BY <1>1, <1>2

\* A step of a join: at most the connection a, which n opened and which is not a
\* link, is read or closed, and nothing is written.
LEMMA OwnEndContract ==
    ASSUME IInv, NEW n \in Node, NEW a \in HostedBy(net, n), a[2] = "caller",
           a \notin Sockets(table[n]), NEW Z, Z = {}, NEW C \in SUBSET {a}, NEW R \in SUBSET {a},
           R # {} => net.inbox[a] # << >>, NEW new,
           NetStep(C, R, Z, Leave, new), OwnStep(n, C, R, Z, new), OpenStep(n, C, R, new),
           LinkStep(n, C, R, Z, Leave)
    PROVE  Contracted(n)
  <1>1. a \notin Unserved(n)
    BY DEF Unserved
  <1>2. WriteStep(n, C, Z, Leave)
    BY DEF WriteStep
  <1>3. ReadStep(n, C, R)
    BY <1>1 DEF ReadStep
  <1>4. CloseStep(n, C, R, Z, Leave)
    BY DEF CloseStep
  <1>5. LinkContract(n, C, R, Z, Leave, new)
    BY <1>2, <1>3, <1>4 DEF LinkContract
  <1> QED
    BY <1>5 DEF Contracted

LEMMA SameTableLink ==
    ASSUME NEW n, NEW C, NEW R, NEW W, NEW msg, table'[n] = table[n], Sockets(table[n]) \cap C = {}
    PROVE  LinkStep(n, C, R, W, msg)
  BY DEF LinkStep

\* What is known of the connection that was asked.
LEMMA AskedEnd ==
    ASSUME IInv, NEW n \in Node, asked[n] # NoSock
    PROVE  /\ asked[n] \in HostedBy(net, n) /\ asked[n] \in net.open /\ asked[n] \in Socket
           /\ asked[n][2] = "caller" /\ asked[n] \notin Sockets(table[n])
  BY DEF IInv, TypeOK, Net, SocketAccounting, SocketsInOrder, HostedBy

\* The packets of a network, after nothing, a read or a close.
LEMMA ReadNet ==
    ASSUME IInv, LinksInOrder, NEW s \in Socket, net.inbox[s] # << >>,
           net' = Receive(net, s), NEW Z, Z = {}, NEW R, R = {s}
    PROVE  NetStep(Z, R, Z, Leave, Z)
  <1>1. EmptyWhenClosed(net) /\ net \in Net(Message) /\ Leave \in Message
    BY MessagesAreMessages DEF LinksInOrder, ClosedEndsAreEmpty, EmptyWhenClosed, IInv, TypeOK
  <1>2. Passes(net, net', Z, R, Z, Leave)
    BY <1>1, ReceivePasses
  <1> QED
    BY <1>1, <1>2, PassesNet DEF IInv

LEMMA CloseNet ==
    ASSUME IInv, LinksInOrder, NEW C, net' = CloseAll(net, C), NEW Z, Z = {}
    PROVE  NetStep(C, Z, Z, Leave, Z)
  <1>1. EmptyWhenClosed(net) /\ net \in Net(Message) /\ Leave \in Message
    BY MessagesAreMessages DEF LinksInOrder, ClosedEndsAreEmpty, EmptyWhenClosed, IInv, TypeOK
  <1>2. Passes(net, net, Z, Z, Z, Leave)
    BY <1>1, NothingPasses
  <1>3. Passes(net, net', C, Z, Z, Leave)
    BY <1>1, <1>2, CloseAllPasses
  <1> QED
    BY <1>1, <1>3, PassesNet DEF IInv

LEMMA ReadCloseNet ==
    ASSUME IInv, LinksInOrder, NEW s \in Socket, net.inbox[s] # << >>, NEW C,
           net' = CloseAll(Receive(net, s), C), NEW Z, Z = {}, NEW R, R = {s}
    PROVE  NetStep(C, R, Z, Leave, Z)
  <1>1. EmptyWhenClosed(net) /\ net \in Net(Message) /\ Leave \in Message
    BY MessagesAreMessages DEF LinksInOrder, ClosedEndsAreEmpty, EmptyWhenClosed, IInv, TypeOK
  <1>2. Passes(net, Receive(net, s), Z, R, Z, Leave)
    BY <1>1, ReceivePasses
  <1>3. Receive(net, s) \in Net(Message)
    BY <1>1, ReceiveType
  <1>4. Passes(net, net', C, R, Z, Leave)
    BY <1>1, <1>2, <1>3, CloseAllPasses
  <1> QED
    BY <1>1, <1>4, PassesNet DEF IInv

\* The call of a servent that is not booting fails.
LEMMA AskFailsQuiet ==
    ASSUME IInv, LinksInOrder, NEW n \in Node, AskFails(n, net), ~booting[n],
           phase[n] \in {"ask", "neigh"},
           \A m \in Node \ {n} : todo'[m] = todo[m]
    PROVE  Contracted(n)
  <1> DEFINE Z == {}
  <1>1. UNCHANGED <<net, booting, table, crashed>> /\ n \notin crashed
    BY QuietPhases DEF AskFails
  <1>2. /\ \A m \in Node \ {n} : /\ phase'[m] = phase[m] /\ asked'[m] = asked[m]
                                 /\ awaiting'[m] = awaiting[m]
        /\ phase'[n] = "ask" /\ asked'[n] = NoSock /\ awaiting'[n] = << >>
    BY DEF AskFails, ForgetLocals, IInv, TypeOK
  <1>3. OwnStep(n, Z, Z, Z, Z)
    BY <1>1, <1>2 DEF OwnStep
  <1> QED
    BY <1>1, <1>2, <1>3, QuietContract DEF IInv

LEMMA AskNeighboursContract ==
    ASSUME IInv, LinksInOrder, NEW n \in Node, AskNeighbours(n)
    PROVE  Contracted(n)
  <1> DEFINE a == Head(Head(todo[n]).addrs)
             Z == {}
  <1>1. phase[n] = "ask" /\ todo[n] # << >> /\ awaiting[n] = << >> /\ n \notin crashed
    BY QuietPhases DEF AskNeighbours
  <1>2. CASE ~Listening(a)
    <2>1. AskFails(n, net) /\ (booting[n] \/ todo' = [todo EXCEPT ![n] = Popped(@)])
      BY <1>2 DEF AskNeighbours
    <2>2. CASE booting[n]
      <3>1. Disappear(n, net) /\ crashed' = crashed /\ Sockets(table[n]) = {}
        BY <2>1, <2>2, QuietPhases DEF AskFails
      <3> DEFINE C == HostedBy(net, n)
      <3>2. net' = CloseAll(net, C)
        BY <3>1 DEF Disappear
      <3> HIDE DEF Z, C
      <3>3. Z = {} /\ C = HostedBy(net, n)
        BY DEF Z, C
      <3>4. Passes(net, net', C, Z, Z, Leave)
        BY <3>2, <3>3, CloseOwnPasses
      <3>5. Z \in SUBSET Sockets(table[n])
        BY <3>3
      <3> QED
        BY <3>1, <3>3, <3>4, <3>5, DisappearContract
    <2>3. CASE ~booting[n]
      <3>1. \A m \in Node \ {n} : todo'[m] = todo[m]
        BY <2>1, <2>3 DEF IInv, TypeOK
      <3> QED
        BY <1>1, <2>1, <2>3, <3>1, AskFailsQuiet
    <2> QED
      BY <2>2, <2>3
  <1>3. CASE Listening(a)
    <2>1. PICK c \in Conn : /\ NextConn(net, c)
                            /\ net' = Dial(net, c, n, a, NeighboursRequest)
                            /\ asked' = [asked EXCEPT ![n] = Caller(c)]
      BY <1>3 DEF AskNeighbours
    <2>2. /\ phase' = [phase EXCEPT ![n] = "neigh"]
          /\ todo' = [todo EXCEPT ![n] = Popped(@)]
          /\ UNCHANGED <<booting, awaiting, table, crashed>>
      BY <1>3 DEF AskNeighbours
    <2>3. a \in Node /\ phase[a] \notin {"off", "down"}
      BY <1>3 DEF Listening
    <2> HIDE DEF a
    <2> DEFINE new == {c}
    <2> HIDE DEF Z, new
    <2>4. Z = {} /\ new = {c}
      BY DEF Z, new
    <2>5. EmptyWhenClosed(net) /\ net \in Net(Message) /\ NeighboursRequest \in Message
      BY MessagesAreMessages DEF LinksInOrder, ClosedEndsAreEmpty, EmptyWhenClosed, IInv, TypeOK
    <2>6. Passes(net, net, Z, Z, Z, Leave) /\ IsFree(net, c)
      BY <2>1, <2>4, <2>5, NothingPasses DEF NextConn
    <2>7. NetStep(Z, Z, Z, Leave, new) /\ Opened(c, n, a, NeighboursRequest)
      <3>1. TypeOK /\ n \in Node /\ a \in Node /\ c \in Conn
        BY <2>3 DEF IInv
      <3>2. net' = Dial(net, c, n, a, NeighboursRequest)
        BY <2>1
      <3> QED
        BY <2>4, <2>5, <2>6, <3>1, <3>2, DialNet
    <2>8. /\ \A m \in Node \ {n} : /\ phase'[m] = phase[m] /\ todo'[m] = todo[m]
                                   /\ asked'[m] = asked[m]
          /\ phase'[n] = "neigh" /\ asked'[n] = Caller(c)
      BY <2>1, <2>2 DEF IInv, TypeOK
    <2>9. booting[n] => Sockets(table[n]) = {}
      BY QuietPhases
    <2>10. OwnStep(n, Z, Z, Z, new)
      BY <1>1, <2>2, <2>4, <2>8, <2>9 DEF OwnStep
    <2>11. OpenStep(n, Z, Z, new)
      <3>1. /\ \A m \in Packets(Callee(c))' : m.op \in {"CMSG_NEIGHBOURS", "CMSG_JOIN"}
            /\ HasPacket(Callee(c), "CMSG_NEIGHBOURS")'
        BY <2>7, OpenedRequest DEF NeighboursRequest
      <3>2. net'.inbox[Callee(c)] # << >>
        BY <2>7 DEF Opened
      <3> QED
        BY <1>1, <2>2, <2>3, <2>4, <2>7, <2>8, <3>1, <3>2 DEF OpenStep, Opened
    <2>12. /\ WriteStep(n, Z, Z, Leave) /\ LinkStep(n, Z, Z, Z, Leave)
           /\ ReadStep(n, Z, Z) /\ CloseStep(n, Z, Z, Z, Leave)
      BY <2>2, <2>4 DEF WriteStep, LinkStep, ReadStep, CloseStep
    <2>13. LinkContract(n, Z, Z, Z, Leave, new)
      BY <2>7, <2>10, <2>11, <2>12 DEF LinkContract
    <2> QED
      BY <2>13 DEF Contracted
  <1> QED
    BY <1>2, <1>3

LEMMA ReadNeighboursContract ==
    ASSUME IInv, LinksInOrder, NEW n \in Node, ReadNeighbours(n)
    PROVE  Contracted(n)
  <1> DEFINE s == asked[n]
             Z == {}
             A == {s}
  <1>1. phase[n] = "neigh" /\ awaiting[n] = << >> /\ n \notin crashed
    BY QuietPhases DEF ReadNeighbours
  <1>2. s \in Socket /\ s # NoSock
    BY <1>1, NoSockNotSocket DEF IInv, TypeOK
  <1>3. s \in HostedBy(net, n) /\ s[2] = "caller" /\ s \notin Sockets(table[n])
    BY <1>2, AskedEnd
  <1> HIDE DEF Z, A
  <1>4. Z = {} /\ A = {s}
    BY DEF Z, A
  <1>5. ASSUME NEW list, NEW w, TakeList(n, list, w)
        PROVE  /\ UNCHANGED <<todo, asked, awaiting, table, crashed>> /\ net' = w
               /\ \A m \in Node \ {n} : phase'[m] = phase[m] /\ booting'[m] = booting[m]
               /\ phase'[n] = "list" /\ ~booting'[n]
    BY <1>5 DEF TakeList, IInv, TypeOK
  <1>6. CASE HasPacket(s, "SMSG_NEIGHBOURS")
             /\ TakeList(n, Head(net.inbox[s]).list, Receive(net, s))
    <2> DEFINE list == Head(net.inbox[s]).list
               w == Receive(net, s)
    <2>1. net.inbox[s] # << >> /\ TakeList(n, list, w)
      BY <1>6 DEF HasPacket
    <2> HIDE DEF list
    <2>2. /\ UNCHANGED <<todo, asked, awaiting, table, crashed>> /\ net' = w
          /\ \A m \in Node \ {n} : phase'[m] = phase[m] /\ booting'[m] = booting[m]
          /\ phase'[n] = "list" /\ ~booting'[n]
      BY <1>5, <2>1
    <2> HIDE DEF s
    <2>3. NetStep(Z, A, Z, Leave, Z)
      BY <1>2, <1>4, <2>1, <2>2, ReadNet
    <2> USE DEF s
    <2>4. OwnStep(n, Z, A, Z, Z)
      BY <1>1, <1>3, <1>4, <2>2 DEF OwnStep
    <2>5. OpenStep(n, Z, A, Z)
      BY <1>1, <1>4, <2>2 DEF OpenStep
    <2>6. LinkStep(n, Z, A, Z, Leave)
      BY <1>4, <2>2, SameTableLink
    <2> QED
      BY <1>3, <1>4, <2>1, <2>3, <2>4, <2>5, <2>6, OwnEndContract
  <1>7. CASE /\ AskFails(n, CloseAll(net, A)) /\ (booting[n] \/ UNCHANGED todo)
    <2>1. CASE booting[n]
      <3> DEFINE w == CloseAll(net, A)
                 C == HostedBy(net, n)
      <3>1. Disappear(n, w) /\ crashed' = crashed /\ Sockets(table[n]) = {}
        BY <1>7, <2>1, QuietPhases DEF AskFails
      <3>2. net' = CloseAll(w, HostedBy(w, n))
        BY <3>1 DEF Disappear
      <3>3. net \in Net(Message) /\ EmptyWhenClosed(net)
        BY DEF LinksInOrder, ClosedEndsAreEmpty, EmptyWhenClosed, IInv, TypeOK
      <3>4. HostedBy(w, n) = C \ A
        BY <3>3, HostedByCloseAll
      <3>5. net' = CloseAll(CloseAll(net, {s}), C \ {s}) /\ s \in C
        BY <1>3, <1>4, <3>2, <3>4
      <3> HIDE DEF C, s
      <3>6. Passes(net, net', C, Z, Z, Leave)
        BY <1>4, <3>3, <3>5, CloseTwicePasses
      <3>7. Z \in SUBSET Sockets(table[n]) /\ C = HostedBy(net, n)
        BY <1>4 DEF C
      <3> HIDE DEF w
      <3> QED
        BY <1>4, <3>1, <3>6, <3>7, DisappearContract
    <2>2. CASE ~booting[n]
      <3>1. net' = CloseAll(net, A) /\ UNCHANGED <<todo, booting, table, crashed>>
        BY <1>7, <2>2 DEF AskFails
      <3>2. /\ \A m \in Node \ {n} : /\ phase'[m] = phase[m] /\ asked'[m] = asked[m]
                                     /\ awaiting'[m] = awaiting[m]
            /\ phase'[n] = "ask" /\ asked'[n] = NoSock /\ awaiting'[n] = << >>
        BY <1>7, <2>2 DEF AskFails, ForgetLocals, IInv, TypeOK
      <3>3. NetStep(A, Z, Z, Leave, Z)
        BY <1>4, <3>1, CloseNet
      <3>4. OwnStep(n, A, Z, Z, Z)
        BY <1>1, <1>3, <1>4, <2>2, <3>1, <3>2 DEF OwnStep
      <3>5. OpenStep(n, A, Z, Z)
        BY <1>4, <3>2 DEF OpenStep
      <3>6. LinkStep(n, A, Z, Z, Leave)
        BY <1>3, <1>4, <3>1, SameTableLink
      <3> QED
        BY <1>3, <1>4, <3>3, <3>4, <3>5, <3>6, OwnEndContract
    <2> QED
      BY <2>1, <2>2
  <1>8. CASE \E list \in StaleLists : TakeList(n, list, net)
    <2>1. PICK list : TakeList(n, list, net)
      BY <1>8
    <2>2. /\ UNCHANGED <<todo, asked, awaiting, table, crashed, net>>
          /\ \A m \in Node \ {n} : phase'[m] = phase[m] /\ booting'[m] = booting[m]
          /\ phase'[n] = "list" /\ ~booting'[n]
      BY <1>5, <2>1
    <2>3. OwnStep(n, Z, Z, Z, Z)
      BY <1>1, <1>4, <2>2 DEF OwnStep
    <2> QED
      BY <1>4, <2>2, <2>3, QuietContract DEF IInv
  <1> QED
    BY <1>6, <1>7, <1>8 DEF ReadNeighbours, A

\* A connection that is waited on is neither a link nor the one that was asked.
LEMMA AwaitedEnd ==
    ASSUME IInv, NEW n \in Node, NEW k \in DOMAIN awaiting[n]
    PROVE  /\ awaiting[n][k] \in HostedBy(net, n) /\ awaiting[n][k] \in Socket
           /\ awaiting[n][k][2] = "caller"
           /\ awaiting[n][k] \notin Sockets(table[n]) /\ awaiting[n][k] # asked[n]
  BY DEF IInv, TypeOK, Net, SocketAccounting, SocketsInOrder, HostedBy

\* One of the two turns that may call join() does not.
LEMMA NoJoinContract ==
    ASSUME IInv, LinksInOrder, NEW n \in Node, NEW Z, Z = {}, NEW C \in SUBSET {asked[n]},
           Passes(net, net', C, Z, Z, Leave),
           phase[n] = "list", phase'[n] \in {"list", "resp"},
           asked'[n] = NoSock \/ (asked'[n] = asked[n] /\ C = {}),
           \A m \in Node \ {n} : phase'[m] = phase[m] /\ asked'[m] = asked[m],
           UNCHANGED <<booting, todo, awaiting, table, crashed>>
    PROVE  Contracted(n)
  <1> DEFINE s == asked[n]
  <1>1. s \in Socket /\ s # NoSock
    BY NoSockNotSocket DEF IInv, TypeOK
  <1>2. s \in HostedBy(net, n) /\ s[2] = "caller" /\ s \notin Sockets(table[n])
    BY <1>1, AskedEnd
  <1>3. ~booting[n] /\ n \notin crashed
    BY QuietPhases
  <1>4. \A k \in DOMAIN awaiting[n] : IsIn(awaiting[n], awaiting[n][k]) /\ awaiting[n][k] \notin Z \cup C
    BY AwaitedEnd DEF IsIn
  <1>5. LinkStep(n, C, Z, Z, Leave)
    BY <1>2, SameTableLink
  <1>6. NetStep(C, Z, Z, Leave, Z)
    BY MessagesAreMessages, PassesNet DEF IInv
  <1>7. OwnStep(n, C, Z, Z, Z)
    BY <1>2, <1>3 DEF OwnStep
  <1>8. OpenStep(n, C, Z, Z)
    BY <1>4 DEF OpenStep
  <1> QED
    BY <1>2, <1>5, <1>6, <1>7, <1>8, OwnEndContract

\* join(), after the connection that was asked was closed or not.
LEMMA JoinContract ==
    ASSUME IInv, LinksInOrder, NEW n \in Node, NEW a, NEW rescue \in BOOLEAN, NEW w \in Net(Message),
           Join(n, a, rescue, w), NEW Z, Z = {}, NEW C \in SUBSET {asked[n]},
           Passes(net, w, C, Z, Z, Leave),
           phase[n] = "list", phase'[n] \in {"list", "resp"},
           asked'[n] = NoSock \/ (asked'[n] = asked[n] /\ C = {}),
           \A m \in Node \ {n} : phase'[m] = phase[m] /\ asked'[m] = asked[m],
           UNCHANGED <<booting, todo, table, crashed>>
    PROVE  Contracted(n)
  <1> DEFINE s == asked[n]
  <1>1. s \in Socket /\ s # NoSock
    BY NoSockNotSocket DEF IInv, TypeOK
  <1>2. s \in HostedBy(net, n) /\ s[2] = "caller" /\ s \notin Sockets(table[n])
    BY <1>1, AskedEnd
  <1>3. ~booting[n] /\ n \notin crashed
    BY QuietPhases
  <1>4. \A k \in DOMAIN awaiting[n] : IsIn(awaiting[n], awaiting[n][k]) /\ awaiting[n][k] \notin Z \cup C
    BY AwaitedEnd DEF IsIn
  <1>5. LinkStep(n, C, Z, Z, Leave)
    BY <1>2, SameTableLink
  <1>6. CASE net' = w /\ UNCHANGED awaiting
    <2>1. Passes(net, net', C, Z, Z, Leave)
      BY <1>6
    <2> QED
      BY <1>6, <2>1, NoJoinContract
  <1>7. ASSUME NEW c \in Conn, Listening(a), NextConn(w, c),
               net' = Dial(w, c, n, a, [op |-> "CMSG_JOIN", rescue |-> rescue]),
               awaiting' = [awaiting EXCEPT ![n] = Append(@, Caller(c))]
        PROVE  Contracted(n)
    <2> DEFINE req == [op |-> "CMSG_JOIN", rescue |-> rescue]
               new == {c}
    <2>1. TypeOK /\ a \in Node /\ phase[a] \notin {"off", "down"} /\ req \in Message /\ IsFree(w, c)
      BY <1>7, MessagesAreMessages DEF IInv, Listening, NextConn
    <2>2. net' = Dial(w, c, n, a, req) /\ req.op = "CMSG_JOIN"
      BY <1>7
    <2> HIDE DEF req, new
    <2>3. new = {c}
      BY DEF new
    <2>4. NetStep(C, Z, Z, Leave, new) /\ Opened(c, n, a, req)
      <3>1. TypeOK /\ Z = {} /\ w \in Net(Message) /\ Passes(net, w, C, Z, Z, Leave)
        BY <2>1
      <3>2. c \in Conn /\ IsFree(w, c) /\ n \in Node /\ a \in Node /\ req \in Message
        BY <1>7, <2>1
      <3>3. net' = Dial(w, c, n, a, req)
        BY <2>2
      <3> QED
        BY <2>3, <3>1, <3>2, <3>3, DialNet
    <2>5. \A m \in Node \ {n} : awaiting'[m] = awaiting[m]
      BY <1>7 DEF IInv, TypeOK
    <2>6. OwnStep(n, C, Z, Z, new)
      BY <1>2, <1>3, <2>5 DEF OwnStep
    <2>7. \A k \in DOMAIN awaiting'[n] :
             \/ IsIn(awaiting[n], awaiting'[n][k]) /\ awaiting'[n][k] \notin Z \cup C
             \/ awaiting'[n][k] = Caller(c)
      <3>1. /\ awaiting[n] \in Seq(Socket) /\ Caller(c) \in Socket
            /\ awaiting'[n] = Append(awaiting[n], Caller(c))
        BY <1>7, CallerCalleeType DEF IInv, TypeOK
      <3>2. \A k \in DOMAIN awaiting'[n] : \/ k \in DOMAIN awaiting[n] /\ awaiting'[n][k] = awaiting[n][k]
                                           \/ awaiting'[n][k] = Caller(c)
        BY <3>1
      <3> QED
        BY <1>4, <3>2
    <2>8. OpenStep(n, C, Z, new)
      <3>1. /\ \A m \in Packets(Callee(c))' : m.op \in {"CMSG_NEIGHBOURS", "CMSG_JOIN"}
            /\ HasPacket(Callee(c), "CMSG_JOIN")'
        BY <2>2, <2>4, OpenedRequest
      <3>2. /\ net'.inbox[Callee(c)] # << >> /\ net'.inbox[Caller(c)] = << >>
            /\ net'.host[Caller(c)] = n /\ net'.host[Callee(c)] = a
        BY <2>4 DEF Opened
      <3>3. asked'[n] = NoSock \/ (asked'[n] = asked[n] /\ asked[n] \notin C)
        OBVIOUS
      <3> QED
        BY <2>1, <2>3, <2>7, <3>1, <3>2, <3>3 DEF OpenStep
    <2> QED
      BY <1>2, <1>5, <2>4, <2>6, <2>8, OwnEndContract
  <1> QED
    BY <1>6, <1>7 DEF Join

LEMMA DialListedContract ==
    ASSUME IInv, LinksInOrder, NEW n \in Node, DialListed(n)
    PROVE  Contracted(n)
  <1> DEFINE a == Head(dial[n])
             Z == {}
             C == {}
  <1>1. UNCHANGED <<phase, booting, todo, asked, table, crashed>> /\ phase[n] = "list"
    BY DEF DialListed
  <1>2. UNCHANGED <<awaiting, net>> \/ Join(n, a, FALSE, net)
    BY DEF DialListed
  <1>3. EmptyWhenClosed(net) /\ net \in Net(Message)
    BY DEF LinksInOrder, ClosedEndsAreEmpty, EmptyWhenClosed, IInv, TypeOK
  <1> HIDE DEF a, Z, C
  <1>4. Z = {} /\ C = {} /\ C \in SUBSET {asked[n]}
    BY DEF Z, C
  <1>5. Passes(net, net, C, Z, Z, Leave)
    BY <1>3, <1>4, NothingPasses
  <1>6. CASE UNCHANGED <<awaiting, net>>
    <2>1. Passes(net, net', C, Z, Z, Leave)
      BY <1>5, <1>6
    <2> QED
      BY <1>1, <1>4, <1>6, <2>1, NoJoinContract
  <1>7. CASE Join(n, a, FALSE, net)
    BY <1>1, <1>3, <1>4, <1>5, <1>7, JoinContract
  <1> QED
    BY <1>2, <1>6, <1>7

LEMMA DialContactContract ==
    ASSUME IInv, LinksInOrder, NEW n \in Node, DialContact(n)
    PROVE  Contracted(n)
  <1> DEFINE a == query[n].target
             rescue == query[n].got = 0
             C == {asked[n]}
             w == CloseAll(net, C)
             Z == {}
  <1>1. /\ UNCHANGED <<booting, todo, table, crashed>> /\ phase[n] = "list"
        /\ phase' = [phase EXCEPT ![n] = "resp"] /\ asked' = [asked EXCEPT ![n] = NoSock]
    BY DEF DialContact
  <1>2. /\ phase'[n] = "resp" /\ asked'[n] = NoSock
        /\ \A m \in Node \ {n} : phase'[m] = phase[m] /\ asked'[m] = asked[m]
    BY <1>1 DEF IInv, TypeOK
  <1>3. (UNCHANGED awaiting /\ net' = w) \/ Join(n, a, rescue, w)
    BY DEF DialContact
  <1>4. EmptyWhenClosed(net) /\ net \in Net(Message) /\ rescue \in BOOLEAN
    BY DEF LinksInOrder, ClosedEndsAreEmpty, EmptyWhenClosed, IInv, TypeOK
  <1> HIDE DEF a, Z, C, rescue
  <1>5. Z = {} /\ C \in SUBSET {asked[n]}
    BY DEF Z, C
  <1>6. Passes(net, net, Z, Z, Z, Leave)
    BY <1>4, <1>5, NothingPasses
  <1>7. Passes(net, w, C, Z, Z, Leave) /\ w \in Net(Message)
    BY <1>4, <1>5, <1>6, CloseAllPasses, CloseAllType
  <1> HIDE DEF w
  <1>8. CASE UNCHANGED awaiting /\ net' = w
    <2>1. Passes(net, net', C, Z, Z, Leave)
      BY <1>7, <1>8
    <2> QED
      BY <1>1, <1>2, <1>5, <1>8, <2>1, NoJoinContract
  <1>9. CASE Join(n, a, rescue, w)
    BY <1>1, <1>2, <1>4, <1>5, <1>7, <1>9, JoinContract
  <1> QED
    BY <1>3, <1>8, <1>9

\* The answer at the head of the connections waited on is read, or taken as read.
LEMMA JoinAnsweredContract ==
    ASSUME IInv, LinksInOrder, NEW n \in Node, phase[n] = "resp", awaiting[n] # << >>,
           NEW s, s = Head(awaiting[n]), NEW yes \in BOOLEAN, NEW w, JoinAnswered(n, s, yes, w),
           NEW R \in SUBSET {s}, R # {} => net.inbox[s] # << >>,
           NEW Z, Z = {}, NEW C, C = IF yes THEN {} ELSE {s},
           NetStep(C, R, Z, Leave, Z),
           yes => \/ AtEof(net, s)
                  \/ s \in R /\ HasPacket(s, "SMSG_JOIN") /\ Head(net.inbox[s]).join
    PROVE  Contracted(n)
  <1> DEFINE rest == Tail(awaiting[n])
  <1>1. /\ awaiting'[n] = rest /\ \A m \in Node \ {n} : awaiting'[m] = awaiting[m]
        /\ UNCHANGED <<phase, booting, todo, asked, crashed>>
        /\ awaiting[n] \in Seq(Socket)
    BY DEF JoinAnswered, IInv, TypeOK
  <1>2. /\ 1 \in DOMAIN awaiting[n] /\ s = awaiting[n][1]
        /\ \A k \in DOMAIN rest : /\ k + 1 \in DOMAIN awaiting[n] /\ k + 1 # 1
                                  /\ rest[k] = awaiting[n][k + 1]
    BY <1>1
  <1> HIDE DEF rest
  <1>3. /\ s \in HostedBy(net, n) /\ s \in Socket /\ s[2] = "caller"
        /\ s \notin Sockets(table[n]) /\ s # asked[n]
    BY <1>2, AwaitedEnd
  <1>4. \A k \in DOMAIN rest : IsIn(awaiting[n], rest[k]) /\ rest[k] # s
    BY <1>2 DEF IsIn, IInv, SocketAccounting, SocketsInOrder
  <1>5. ~booting[n] /\ n \notin crashed
    BY QuietPhases
  <1>6. /\ \A m \in Node \ {n} : table'[m] = table[m]
        /\ yes => table'[n] = AddNeighbour(table[n], s)
        /\ ~yes => table'[n] = table[n]
    BY DEF JoinAnswered, IInv, TypeOK
  <1>7. Accounted(table[n])
    BY DEF IInv, SocketAccounting, SocketsInOrder
  <1>8. yes => /\ Sockets(table[n]) \subseteq Sockets(table'[n])
               /\ Sockets(table'[n]) \subseteq Sockets(table[n]) \cup {s}
    BY <1>3, <1>6, <1>7, AddNeighbourAccounted
  <1>9. OwnStep(n, C, R, Z, Z)
    BY <1>1, <1>3, <1>5, <1>6 DEF OwnStep
  <1>10. OpenStep(n, C, R, Z)
    BY <1>1, <1>3, <1>4 DEF OpenStep
  <1>11. LinkStep(n, C, R, Z, Leave)
    <2>1. IsIn(awaiting[n], s)
      BY <1>2 DEF IsIn
    <2>2. CASE yes
      BY <1>3, <1>8, <2>1, <2>2 DEF LinkStep
    <2>3. CASE ~yes
      BY <1>3, <1>6, <2>3, SameTableLink
    <2> QED
      BY <2>2, <2>3
  <1> QED
    BY <1>3, <1>9, <1>10, <1>11, OwnEndContract

LEMMA ReadJoinAnswerContract ==
    ASSUME IInv, LinksInOrder, NEW n \in Node, ReadJoinAnswer(n)
    PROVE  Contracted(n)
  <1> DEFINE s == Head(awaiting[n])
             Z == {}
             A == {s}
  <1>1. phase[n] = "resp" /\ awaiting[n] # << >>
    BY DEF ReadJoinAnswer
  <1>2. s \in Socket
    BY <1>1, HeadTailProperties DEF IInv, TypeOK
  <1>3. \/ HasPacket(s, "SMSG_JOIN") /\ JoinAnswered(n, s, Head(net.inbox[s]).join, Receive(net, s))
        \/ Dies(n, net)
        \/ AtEof(net, s) /\ \E yes \in BOOLEAN : JoinAnswered(n, s, yes, net)
    BY DEF ReadJoinAnswer
  <1> HIDE DEF s, Z, A
  <1>4. Z = {} /\ A = {s} /\ s = Head(awaiting[n])
    BY DEF s, Z, A
  <1>5. ASSUME HasPacket(s, "SMSG_JOIN"), JoinAnswered(n, s, Head(net.inbox[s]).join, Receive(net, s))
        PROVE  Contracted(n)
    <2> DEFINE yes == Head(net.inbox[s]).join
    <2>1. net.inbox[s] # << >> /\ Head(net.inbox[s]).op = "SMSG_JOIN"
      BY <1>5 DEF HasPacket
    <2>2. yes \in BOOLEAN
      BY <1>2, <2>1, HeadOfInbox, MessageFields DEF IInv
    <2>3. yes => s \in A /\ HasPacket(s, "SMSG_JOIN") /\ Head(net.inbox[s]).join
      BY <1>4, <1>5
    <2>4. JoinAnswered(n, s, yes, Receive(net, s)) /\ A \in SUBSET {s}
      BY <1>4, <1>5
    <2> HIDE DEF yes
    <2>5. CASE yes
      <3>1. net' = Receive(net, s)
        BY <2>4, <2>5 DEF JoinAnswered
      <3>2. NetStep(Z, A, Z, Leave, Z)
        BY <1>2, <1>4, <2>1, <3>1, ReadNet
      <3>3. Z = IF yes THEN {} ELSE {s}
        BY <1>4, <2>5
      <3> QED
        BY <1>1, <1>4, <2>1, <2>2, <2>3, <2>4, <3>2, <3>3, JoinAnsweredContract
    <2>6. CASE ~yes
      <3>1. net' = CloseAll(Receive(net, s), A)
        BY <1>4, <2>4, <2>6 DEF JoinAnswered
      <3>2. NetStep(A, A, Z, Leave, Z)
        BY <1>2, <1>4, <2>1, <3>1, ReadCloseNet
      <3>3. A = IF yes THEN {} ELSE {s}
        BY <1>4, <2>6
      <3> QED
        BY <1>1, <1>4, <2>1, <2>2, <2>3, <2>4, <3>2, <3>3, JoinAnsweredContract
    <2> QED
      BY <2>5, <2>6
  <1>6. ASSUME AtEof(net, s), NEW yes \in BOOLEAN, JoinAnswered(n, s, yes, net)
        PROVE  Contracted(n)
    <2>1. yes => AtEof(net, s)
      BY <1>6
    <2>2. Z \in SUBSET {s} /\ (Z # {} => net.inbox[s] # << >>)
      BY <1>4
    <2>3. CASE yes
      <3>1. net' = net
        BY <1>6, <2>3 DEF JoinAnswered
      <3>2. NetStep(Z, Z, Z, Leave, Z)
        BY <1>4, <3>1, NetUnchanged DEF IInv
      <3>3. Z = IF yes THEN {} ELSE {s}
        BY <1>4, <2>3
      <3> QED
        BY <1>1, <1>4, <1>6, <2>1, <2>2, <3>2, <3>3, JoinAnsweredContract
    <2>4. CASE ~yes
      <3>1. net' = CloseAll(net, A)
        BY <1>4, <1>6, <2>4 DEF JoinAnswered
      <3>2. NetStep(A, Z, Z, Leave, Z)
        BY <1>4, <3>1, CloseNet
      <3>3. A = IF yes THEN {} ELSE {s}
        BY <1>4, <2>4
      <3> QED
        BY <1>1, <1>4, <1>6, <2>1, <2>2, <3>2, <3>3, JoinAnsweredContract
    <2> QED
      BY <2>3, <2>4
  <1> QED
    BY <1>3, <1>5, <1>6, DiesContract

\* An accepted connection s is served: its request is read and answered by msg, and
\* it becomes a link or is closed.
LEMMA ServedContract ==
    ASSUME IInv, LinksInOrder, NEW n \in Node, phase[n] = "run", NEW s \in Unserved(n),
           UNCHANGED <<phase, booting, todo, asked, awaiting, crashed>>,
           NEW Z, Z = {}, NEW A, A = {s}, NEW C \in SUBSET A, NEW msg,
           NetStep(C, A, A, msg, Z), net.inbox[s] # << >>,
           \A m \in Node \ {n} : table'[m] = table[m],
           \/ /\ HasPacket(s, "CMSG_NEIGHBOURS") /\ msg.op = "SMSG_NEIGHBOURS"
              /\ C = A /\ table'[n] = table[n]
           \/ /\ HasPacket(s, "CMSG_JOIN") /\ msg.op = "SMSG_JOIN" /\ ~msg.join
              /\ C = A /\ table'[n] = table[n]
           \/ /\ HasPacket(s, "CMSG_JOIN") /\ msg.op = "SMSG_JOIN" /\ msg.join
              /\ C = Z /\ Sockets(table[n]) \subseteq Sockets(table'[n])
              /\ Sockets(table'[n]) \subseteq Sockets(table[n]) \cup {s}
              /\ s \in Sockets(table'[n])
    PROVE  Contracted(n)
  <1>1. /\ s \in HostedBy(net, n) /\ s[2] = "callee" /\ s \notin Sockets(table[n])
        /\ s \in Sockets(table'[n]) \cup C
    BY DEF Unserved
  <1>2. ~booting[n] /\ n \notin crashed /\ awaiting[n] = << >>
    BY QuietPhases
  <1>3. OwnStep(n, C, A, A, Z)
    BY <1>1, <1>2 DEF OwnStep
  <1>4. WriteStep(n, C, A, msg)
    BY <1>1 DEF WriteStep, Leave
  <1>5. LinkStep(n, C, A, A, msg)
    BY <1>1 DEF LinkStep
  <1>6. ReadStep(n, C, A)
    BY <1>1 DEF ReadStep
  <1>7. CloseStep(n, C, A, A, msg)
    BY DEF CloseStep
  <1>8. asked[n] = NoSock \/ asked[n] \notin C
    BY <1>1, AskedEnd
  <1>9. OpenStep(n, C, A, Z)
    BY <1>2, <1>8 DEF OpenStep
  <1>10. LinkContract(n, C, A, A, msg, Z)
    BY <1>3, <1>4, <1>5, <1>6, <1>7, <1>9 DEF LinkContract
  <1> QED
    BY <1>10 DEF Contracted

LEMMA AnsweredNet ==
    ASSUME IInv, LinksInOrder, NEW s \in Socket, net.inbox[s] # << >>, NEW msg \in Message,
           NEW Z, Z = {}, NEW A, A = {s}
    PROVE  LET answered == SendAll(Receive(net, s), A, msg)
           IN  /\ net' = answered => NetStep(Z, A, A, msg, Z)
               /\ net' = CloseAll(answered, A) => NetStep(A, A, A, msg, Z)
  <1> DEFINE u == Receive(net, s)
             answered == SendAll(u, A, msg)
             v == CloseAll(answered, A)
  <1>1. EmptyWhenClosed(net) /\ net \in Net(Message)
    BY DEF LinksInOrder, ClosedEndsAreEmpty, EmptyWhenClosed, IInv, TypeOK
  <1>2. Passes(net, u, Z, A, Z, msg) /\ u \in Net(Message)
    BY <1>1, ReceivePasses, ReceiveType
  <1> HIDE DEF u
  <1>3. Passes(net, answered, Z, A, A, msg) /\ answered \in Net(Message)
    BY <1>1, <1>2, SendAllPasses, SendAllType
  <1> HIDE DEF answered
  <1>4. Passes(net, v, A, A, A, msg)
    BY <1>1, <1>3, CloseAllPasses
  <1> HIDE DEF v
  <1>5. ASSUME net' = answered
        PROVE  NetStep(Z, A, A, msg, Z)
    <2>1. Passes(net, net', Z, A, A, msg)
      BY <1>3, <1>5
    <2> QED
      BY <2>1, PassesNet DEF IInv
  <1>6. ASSUME net' = v
        PROVE  NetStep(A, A, A, msg, Z)
    <2>1. Passes(net, net', A, A, A, msg)
      BY <1>4, <1>6
    <2> QED
      BY <2>1, PassesNet DEF IInv
  <1> QED
    BY <1>5, <1>6 DEF u, answered, v

LEMMA ServeContract ==
    ASSUME IInv, LinksInOrder, NEW n \in Node, NEW s \in Socket, Serve(n, s)
    PROVE  Contracted(n)
  <1> DEFINE Z == {}
             A == {s}
  <1>1. /\ phase[n] = "run" /\ s \in Unserved(n)
        /\ UNCHANGED <<phase, booting, todo, asked, awaiting, crashed>>
    BY DEF Serve, joinVars, locals
  <1> HIDE DEF Z, A
  <1>2. Z = {} /\ A = {s}
    BY DEF Z, A
  <1>3. CASE AnswerNeighbours(n, s)
    <2>1. PICK reply \in Message :
             /\ reply.op = "SMSG_NEIGHBOURS"
             /\ net' = CloseAll(SendAll(Receive(net, s), {s}, reply), {s})
      BY <1>3, NeighboursReply DEF IInv
    <2>2. HasPacket(s, "CMSG_NEIGHBOURS") /\ net.inbox[s] # << >> /\ table' = table
      BY <1>3 DEF AnswerNeighbours, HasPacket
    <2>3. net' = CloseAll(SendAll(Receive(net, s), A, reply), A)
      BY <1>2, <2>1
    <2>4. NetStep(A, A, A, reply, Z)
      BY <1>2, <2>2, <2>3, AnsweredNet
    <2> QED
      BY <1>1, <1>2, <2>1, <2>2, <2>4, ServedContract
  <1>4. CASE AnswerJoin(n, s)
    <2>1. PICK yes \in BOOLEAN :
             LET answered == SendAll(Receive(net, s), {s}, [op |-> "SMSG_JOIN", join |-> yes])
             IN  /\ table[n].nb = MaxNeighbours => ~yes
                 /\ net' = IF yes THEN answered ELSE CloseAll(answered, {s})
                 /\ table' = IF yes THEN [table EXCEPT ![n] = AddNeighbour(@, s)] ELSE table
      BY <1>4 DEF AnswerJoin
    <2> DEFINE msg == [op |-> "SMSG_JOIN", join |-> yes]
               answered == SendAll(Receive(net, s), A, msg)
    <2>2. HasPacket(s, "CMSG_JOIN") /\ net.inbox[s] # << >>
      BY <1>4 DEF AnswerJoin, HasPacket
    <2>3. msg \in Message /\ msg.op = "SMSG_JOIN" /\ msg.join = yes
      BY MessagesAreMessages
    <2>4. /\ table[n].nb = MaxNeighbours => ~yes
          /\ yes => net' = answered
          /\ ~yes => net' = CloseAll(answered, A)
          /\ yes => table' = [table EXCEPT ![n] = AddNeighbour(@, s)]
          /\ ~yes => table' = table
      BY <1>2, <2>1
    <2> HIDE DEF msg
    <2>5. /\ net' = answered => NetStep(Z, A, A, msg, Z)
          /\ net' = CloseAll(answered, A) => NetStep(A, A, A, msg, Z)
      BY <1>2, <2>2, <2>3, AnsweredNet
    <2> HIDE DEF answered
    <2>6. CASE yes
      <3>1. /\ table'[n] = AddNeighbour(table[n], s)
            /\ \A m \in Node \ {n} : table'[m] = table[m]
        BY <2>4, <2>6 DEF IInv, TypeOK
      <3>2. Accounted(table[n]) /\ s \notin Sockets(table[n]) /\ table[n].nb # MaxNeighbours
        BY <1>1, <2>4, <2>6 DEF IInv, SocketAccounting, SocketsInOrder, Unserved
      <3>3. /\ Sockets(table[n]) \subseteq Sockets(table'[n])
            /\ Sockets(table'[n]) \subseteq Sockets(table[n]) \cup {s}
            /\ s \in Sockets(table'[n])
        BY <3>1, <3>2, AddNeighbourAccounted, AddNeighbourTakes
      <3>4. NetStep(Z, A, A, msg, Z) /\ Z \in SUBSET A
        BY <1>2, <2>4, <2>5, <2>6
      <3> QED
        BY <1>1, <1>2, <2>2, <2>3, <2>6, <3>1, <3>3, <3>4, ServedContract
    <2>7. CASE ~yes
      <3>1. NetStep(A, A, A, msg, Z) /\ A \in SUBSET A /\ table' = table
        BY <2>4, <2>5, <2>7
      <3> QED
        BY <1>1, <1>2, <2>2, <2>3, <2>7, <3>1, ServedContract
    <2> QED
      BY <2>6, <2>7
  <1> QED
    BY <1>3, <1>4 DEF Serve

\* The departure of the other side of the link in slot i is read, or taken as read.
LEMMA HandleLeaveContract ==
    ASSUME IInv, LinksInOrder, NEW n \in Node, phase[n] = "run", NEW i \in LiveSlots(table[n]),
           NEW s, s = table[n].sock[i], NEW w, HandleLeave(n, i, w),
           NEW Z, Z = {}, NEW A, A = {s}, NEW R \in SUBSET A, R # {} => net.inbox[s] # << >>,
           Announced(s) \/ AtEof(net, s),
           NetStep(A, R, Z, Leave, Z)
    PROVE  Contracted(n)
  <1>1. s \in Sockets(table[n])
    BY DEF Sockets
  <1>2. s \in HostedBy(net, n) /\ Accounted(table[n])
    BY <1>1 DEF IInv, SocketAccounting, SocketsInOrder
  <1>3. ~booting[n] /\ n \notin crashed /\ awaiting[n] = << >>
    BY QuietPhases
  <1>4. /\ UNCHANGED <<booting, asked, awaiting, crashed>>
        /\ \A m \in Node \ {n} : /\ phase'[m] = phase[m] /\ todo'[m] = todo[m]
                                 /\ table'[m] = table[m]
        /\ phase'[n] \in {"run", "ask"}
        /\ table'[n] = DropNeighbour(table[n], i)
    <2>1. /\ UNCHANGED <<booting, asked, awaiting, crashed>>
          /\ table' = [table EXCEPT ![n] = DropNeighbour(table[n], i)]
      BY DEF HandleLeave, locals
    <2>2. \/ UNCHANGED <<phase, todo>>
          \/ /\ phase' = [phase EXCEPT ![n] = "ask"]
             /\ \E new : todo' = [todo EXCEPT ![n] = new]
      BY DEF HandleLeave
    <2> QED
      BY <2>1, <2>2 DEF IInv, TypeOK
  <1>5. Sockets(table'[n]) = Sockets(table[n]) \ {s}
    BY <1>2, <1>4, DropNeighbourAccounted
  <1>6. OwnStep(n, A, R, Z, Z)
    BY <1>2, <1>3, <1>4 DEF OwnStep
  <1>7. WriteStep(n, A, Z, Leave)
    BY DEF WriteStep
  <1>8. LinkStep(n, A, R, Z, Leave)
    BY <1>5 DEF LinkStep
  <1>9. ReadStep(n, A, R)
    BY <1>1 DEF ReadStep, Unserved
  <1>10. CloseStep(n, A, R, Z, Leave)
    BY <1>1 DEF CloseStep
  <1>11. asked[n] = NoSock \/ asked[n] \notin A
    BY <1>1, AskedEnd
  <1>12. OpenStep(n, A, R, Z)
    BY <1>3, <1>4, <1>11 DEF OpenStep
  <1>13. LinkContract(n, A, R, Z, Leave, Z)
    BY <1>6, <1>7, <1>8, <1>9, <1>10, <1>12 DEF LinkContract
  <1> QED
    BY <1>13 DEF Contracted

LEMMA LinkEnd ==
    ASSUME IInv, NEW n \in Node, NEW i \in LiveSlots(table[n])
    PROVE  table[n].sock[i] \in Socket
  BY SocketsType DEF IInv, TypeOK, Sockets

LEMMA ReadLeaveContract ==
    ASSUME IInv, LinksInOrder, NEW n \in Node, NEW i \in Slot, ReadLeave(n, i)
    PROVE  Contracted(n)
  <1> DEFINE s == table[n].sock[i]
             Z == {}
             A == {s}
  <1>1. /\ phase[n] = "run" /\ i \in LiveSlots(table[n])
        /\ HasPacket(s, "CMSG_LEAVE") /\ HandleLeave(n, i, Receive(net, s))
    BY DEF ReadLeave
  <1>2. s \in Socket
    BY <1>1, LinkEnd
  <1>3. net' = CloseAll(Receive(net, s), A)
    BY <1>1 DEF HandleLeave
  <1> HIDE DEF s, Z, A
  <1>4. s = table[n].sock[i] /\ Z = {} /\ A = {s} /\ A \in SUBSET A
    BY DEF s, Z, A
  <1>5. net.inbox[s] # << >> /\ Head(net.inbox[s]).op = "CMSG_LEAVE"
    BY <1>1 DEF HasPacket
  <1>6. Announced(s)
    <2>1. Head(net.inbox[s]) \in Message
      BY <1>2, <1>5, HeadOfInbox DEF IInv
    <2>2. Head(net.inbox[s]) = Leave
      BY <1>5, <2>1 DEF Message, Leave
    <2>3. Head(net.inbox[s]) \in Packets(s)
      BY <1>2, <1>5, HeadIsPacket DEF IInv
    <2> QED
      BY <2>2, <2>3 DEF Announced
  <1>7. NetStep(A, A, Z, Leave, Z)
    BY <1>2, <1>3, <1>4, <1>5, ReadCloseNet
  <1> QED
    BY <1>1, <1>4, <1>5, <1>6, <1>7, HandleLeaveContract

LEMMA EofTakenForLeaveContract ==
    ASSUME IInv, LinksInOrder, NEW n \in Node, NEW i \in Slot, EofTakenForLeave(n, i)
    PROVE  Contracted(n)
  <1> DEFINE s == table[n].sock[i]
             Z == {}
             A == {s}
  <1>1. /\ phase[n] = "run" /\ i \in LiveSlots(table[n])
        /\ AtEof(net, s) /\ HandleLeave(n, i, net)
    BY DEF EofTakenForLeave
  <1>2. net' = CloseAll(net, A)
    BY <1>1 DEF HandleLeave
  <1> HIDE DEF s, Z, A
  <1>3. s = table[n].sock[i] /\ Z = {} /\ A = {s} /\ Z \in SUBSET A
    BY DEF s, Z, A
  <1>4. NetStep(A, Z, Z, Leave, Z)
    BY <1>2, <1>3, CloseNet
  <1> QED
    BY <1>1, <1>3, <1>4, HandleLeaveContract

-----------------------------------------------------------------------------
(* Every reachable state keeps the connections in order.                   *)

LEMMA StepContract ==
    ASSUME IInv, LinksInOrder, Next
    PROVE  \E n \in Node :
              /\ Contracted(n)
              /\ \/ Start(n) \/ ThreadStep(n)
                 \/ \E i \in Slot : EofTakenForLeave(n, i)
                 \/ LeaveRequest(n) \/ Sigint(n) \/ Crash(n)
  <1>1. PICK n \in Node :
           \/ Start(n) \/ ThreadStep(n)
           \/ \E i \in Slot : EofTakenForLeave(n, i)
           \/ LeaveRequest(n) \/ Sigint(n) \/ Crash(n)
    BY DEF Next
  <1>2. ASSUME JoinStep(n)
        PROVE  Contracted(n)
    BY <1>2, AskNeighboursContract, ReadNeighboursContract, DialListedContract,
       DialContactContract, ReadJoinAnswerContract, EndCallContract, EndJoinContract
       DEF JoinStep
  <1>3. ASSUME ThreadStep(n)
        PROVE  Contracted(n)
    BY <1>2, <1>3, ServeContract, ReadLeaveContract, ExitContract DEF ThreadStep
  <1>4. Contracted(n)
    BY <1>1, <1>3, StartContract, EofTakenForLeaveContract, LeaveRequestContract,
       SigintContract, CrashContract
  <1> QED
    BY <1>1, <1>4

LEMMA InitLinks == Init => LinksInOrder
  <1> SUFFICES ASSUME Init
               PROVE  LinksInOrder
    OBVIOUS
  <1>1. /\ net.open = {} /\ \A s \in Socket : net.inbox[s] = << >>
        /\ \A n \in Node : /\ phase[n] = "off" /\ ~booting[n] /\ asked[n] = NoSock
                           /\ awaiting[n] = << >> /\ table[n] = EmptyTable
        /\ crashed = {}
    BY DEF Init, EmptyNet
  <1>2. \A n \in Node : Sockets(table[n]) = {} /\ HostedBy(net, n) = {} /\ Unserved(n) = {}
    BY <1>1, EmptyTableAccounted DEF HostedBy, Unserved
  <1>3. ClosedEndsAreEmpty /\ OnlyTheLivingHost
    BY <1>1, <1>2 DEF ClosedEndsAreEmpty, OnlyTheLivingHost
  <1>4. JoinsInOrder /\ PacketsAreTrue /\ UnservedIsUnanswered
    BY <1>1, <1>2 DEF JoinsInOrder, PacketsAreTrue, UnservedIsUnanswered
  <1>5. AskedIsPending /\ AwaitedIsPending
    BY <1>1 DEF AskedIsPending, AwaitedIsPending
  <1>6. OutgoingLinksAreMutual /\ DeparturesAreAnnounced
    BY <1>2 DEF OutgoingLinksAreMutual, DeparturesAreAnnounced
  <1> QED
    BY <1>3, <1>4, <1>5, <1>6 DEF LinksInOrder

LEMMA StepLinks == IInv /\ IInv' /\ LinksInOrder /\ [Next]_vars => LinksInOrder'
  <1> SUFFICES ASSUME IInv, IInv', LinksInOrder, [Next]_vars
               PROVE  LinksInOrder'
    OBVIOUS
  <1>1. CASE Next
    <2>1. PICK n \in Node : Contracted(n)
      BY <1>1, StepContract
    <2>2. PICK C, R, W, msg, new : LinkContract(n, C, R, W, msg, new)
      BY <2>1 DEF Contracted
    <2> QED
      BY <2>2, ContractStep
  <1>2. CASE UNCHANGED vars
    <2> USE <1>2 DEF vars, joinVars, locals
    <2>1. ClosedEndsAreEmpty' /\ OnlyTheLivingHost'
      BY DEF LinksInOrder, ClosedEndsAreEmpty, OnlyTheLivingHost
    <2>2. JoinsInOrder' /\ PacketsAreTrue'
      BY DEF LinksInOrder, JoinsInOrder, PacketsAreTrue, Packets, Far
    <2>3. UnservedIsUnanswered'
      BY DEF LinksInOrder, UnservedIsUnanswered, Unserved
    <2>4. AskedIsPending'
      BY DEF LinksInOrder, AskedIsPending, Pending, HasPacket, Far, Unserved
    <2>5. ASSUME NEW s, AwaitedInOrder(s)
          PROVE  AwaitedInOrder(s)'
      BY <2>5 DEF AwaitedInOrder, Pending, HasPacket, Refused, ClosedKnowingly, Announced,
                  Packets, Far, Unserved
    <2>6. AwaitedIsPending'
      <3> SUFFICES ASSUME NEW n \in Node, NEW k \in DOMAIN awaiting'[n],
                          NEW s, s = awaiting'[n][k]
                   PROVE  AwaitedInOrder(s)'
        BY DEF AwaitedIsPending, AwaitedInOrder, Pending, HasPacket, Refused, ClosedKnowingly,
               Announced, Packets, Far
      <3>1. AwaitedInOrder(s)
        BY DEF LinksInOrder, AwaitedIsPending
      <3> QED
        BY <2>5, <3>1
    <2>7. OutgoingLinksAreMutual' /\ DeparturesAreAnnounced'
      BY DEF LinksInOrder, OutgoingLinksAreMutual, DeparturesAreAnnounced, Announced, Packets, Far
    <2> QED
      BY <2>1, <2>2, <2>3, <2>4, <2>6, <2>7 DEF LinksInOrder
  <1> QED
    BY <1>1, <1>2

\* Every connection is in one of the stages of its kind at both ends: what the code
\* of join_network_through, handle_join_responses, handle_join_request,
\* compute_and_send_neighbours, handle_leave and leave_network says to each other.
THEOREM LinksStayInOrder == Spec => []LinksInOrder
  <1>1. Init => IInv /\ LinksInOrder
    BY InitIInv, InitLinks
  <1>2. IInv /\ LinksInOrder /\ [Next]_vars => (IInv /\ LinksInOrder)'
    BY StepIInv, StepLinks
  <1> QED
    BY <1>1, <1>2, PTL DEF Spec

\* An SMSG_JOIN that waits to be read is true (handle_join_request answers, then
\* add_neighbour or close; handle_leave and clear_server close what they forget).
THEOREM AnswersStayTrue == Spec => []AnswersAreTrue
  <1>1. IInv /\ LinksInOrder => AnswersAreTrue
    <2> SUFFICES ASSUME IInv, LinksInOrder, NEW s \in net.open, HasPacket(s, "SMSG_JOIN")
                 PROVE  IF Head(net.inbox[s]).join
                        THEN Peer(s) \in net.open => Peer(s) \in Sockets(table[net.host[Peer(s)]])
                        ELSE Peer(s) \notin net.open
      BY DEF AnswersAreTrue
    <2>1. s \in Socket /\ net.inbox[s] # << >> /\ Head(net.inbox[s]).op = "SMSG_JOIN"
      BY DEF HasPacket, IInv, TypeOK, Net
    <2>2. Head(net.inbox[s]) \in Packets(s)
      BY <2>1, HeadIsPacket DEF IInv
    <2> QED
      BY <2>1, <2>2 DEF LinksInOrder, PacketsAreTrue, Far
  <1> QED
    BY <1>1, TypeCorrect, SocketsAccounted, LinksStayInOrder, PTL DEF IInv

\* The peer of an outgoing link, as long as it is open, is a link of its servent.
THEOREM OutgoingLinksStayMutual == Spec => []OutgoingLinksAreMutual
  <1>1. LinksInOrder => OutgoingLinksAreMutual
    BY DEF LinksInOrder
  <1> QED
    BY <1>1, LinksStayInOrder, PTL

\* A link whose far side is gone holds the CMSG_LEAVE that leave_network wrote, or
\* the departure was a crash, or the link was made on a connection that was reset.
THEOREM DeparturesStayAnnounced == Spec => []DeparturesAreAnnounced
  <1>1. LinksInOrder => DeparturesAreAnnounced
    BY DEF LinksInOrder
  <1> QED
    BY <1>1, LinksStayInOrder, PTL

\* What a servent that is blocked in read() reads from.
LEMMA BlockedEnd ==
    ASSUME IInv, NEW n \in Node, Blocked(n)
    PROVE  \E s : /\ ReadsFrom(n) = {s} /\ s \in HostedBy(net, n) /\ s \in Socket
                  /\ net.inbox[s] = << >> /\ Peer(s) \in net.open
                  /\ \/ phase[n] = "neigh" /\ s = asked[n]
                     \/ phase[n] = "resp" /\ IsIn(awaiting[n], s)
  <1>1. PICK s \in ReadsFrom(n) : ~Readable(s)
    BY DEF Blocked
  <1>2. net.inbox[s] = << >> /\ Peer(s) \in net.open
    BY <1>1 DEF Readable, AtEof
  <1>3. CASE phase[n] = "neigh"
    <2>1. s = asked[n] /\ ReadsFrom(n) = {s}
      BY <1>1, <1>3 DEF ReadsFrom
    <2>2. asked[n] # NoSock
      BY <1>3, NoSockNotSocket DEF IInv, TypeOK
    <2> QED
      BY <1>2, <1>3, <2>1, <2>2, AskedEnd
  <1>4. CASE phase[n] # "neigh"
    <2>1. phase[n] = "resp" /\ awaiting[n] # << >> /\ s = Head(awaiting[n]) /\ ReadsFrom(n) = {s}
      BY <1>1, <1>4 DEF ReadsFrom
    <2>2. awaiting[n] \in Seq(Socket)
      BY DEF IInv, TypeOK
    <2>3. 1 \in DOMAIN awaiting[n] /\ s = awaiting[n][1]
      BY <2>1, <2>2
    <2> QED
      BY <1>2, <2>1, <2>3, AwaitedEnd DEF IsIn
  <1> QED
    BY <1>3, <1>4

\* The request of a blocked servent waits at the other end (join_network_through and
\* join write it before the read; handle_awaiting_socket alone reads it).
THEOREM BlockedRequestsStayPending == Spec => []BlockedRequestsArePending
  <1>1. IInv /\ LinksInOrder => BlockedRequestsArePending
    <2> SUFFICES ASSUME IInv, LinksInOrder, NEW n \in Node, Blocked(n), NEW s \in ReadsFrom(n)
                 PROVE  /\ Peer(s) \in Unserved(net.host[Peer(s)])
                        /\ HasPacket(Peer(s), IF phase[n] = "neigh" THEN "CMSG_NEIGHBOURS"
                                              ELSE "CMSG_JOIN")
      BY DEF BlockedRequestsArePending
    <2>1. /\ s \in Socket /\ net.inbox[s] = << >> /\ Peer(s) \in net.open
          /\ \/ phase[n] = "neigh" /\ s = asked[n]
             \/ phase[n] = "resp" /\ IsIn(awaiting[n], s)
      BY BlockedEnd
    <2>2. CASE phase[n] = "neigh" /\ s = asked[n]
      BY <2>1, <2>2, NoSockNotSocket DEF LinksInOrder, AskedIsPending, Pending, Far
    <2>3. CASE phase[n] = "resp" /\ IsIn(awaiting[n], s)
      <3>1. AwaitedInOrder(s)
        BY <2>3 DEF LinksInOrder, AwaitedIsPending, IsIn
      <3>2. Pending(s, "CMSG_JOIN")
        BY <2>1, <3>1 DEF AwaitedInOrder, HasPacket
      <3> QED
        BY <2>3, <3>2 DEF Pending, Far
    <2> QED
      BY <2>1, <2>2, <2>3
  <1> QED
    BY <1>1, TypeCorrect, SocketsAccounted, LinksStayInOrder, PTL DEF IInv

-----------------------------------------------------------------------------
(* A cycle of servents that wait for each other lasts.                     *)

\* Nothing but its end is possible for a servent that is blocked.
LEMMA BlockedOnlyDies ==
    ASSUME IInv, LinksInOrder, NEW n \in Node, Blocked(n), crashed' = crashed
    PROVE  ~ \/ Start(n) \/ ThreadStep(n)
             \/ \E i \in Slot : EofTakenForLeave(n, i)
             \/ LeaveRequest(n) \/ Sigint(n) \/ Crash(n)
  <1>1. PICK s : /\ ReadsFrom(n) = {s} /\ net.inbox[s] = << >> /\ Peer(s) \in net.open
                 /\ phase[n] \in {"neigh", "resp"}
    BY BlockedEnd
  <1>2. ~Readable(s) /\ ~AtEof(net, s) /\ \A op : ~HasPacket(s, op)
    BY <1>1 DEF Readable, AtEof, HasPacket
  <1>3. ~ReadNeighbours(n)
    BY <1>1, <1>2 DEF ReadNeighbours, ReadsFrom
  <1>4. ~ReadJoinAnswer(n) /\ ~EndCall(n)
    BY <1>1, <1>2 DEF ReadJoinAnswer, EndCall, ReadsFrom
  <1>5. ~Crash(n)
    <2>1. n \notin crashed
      BY <1>1, QuietPhases
    <2> QED
      BY <2>1 DEF Crash, Dies
  <1>6. /\ ~Start(n) /\ ~AskNeighbours(n) /\ ~DialListed(n) /\ ~DialContact(n) /\ ~EndJoin(n)
        /\ ~Exit(n) /\ ~LeaveRequest(n) /\ ~Sigint(n)
        /\ \A i \in Slot : ~EofTakenForLeave(n, i) /\ ~ReadLeave(n, i)
        /\ \A t \in Socket : ~Serve(n, t)
    BY <1>1 DEF Start, AskNeighbours, DialListed, DialContact, EndJoin, Exit, LeaveRequest,
                Sigint, EofTakenForLeave, ReadLeave, Serve
  <1> QED
    BY <1>3, <1>4, <1>5, <1>6 DEF ThreadStep, JoinStep

\* A servent outside the cycle does not touch a connection inside.
LEMMA BlockedStays ==
    ASSUME IInv, NEW x \in Node, Contracted(x), NEW S \in SUBSET Node, x \notin S,
           NEW m \in S, Blocked(m), \A s \in ReadsFrom(m) : net.host[Peer(s)] \in S
    PROVE  /\ Blocked(m)'
           /\ \A s \in ReadsFrom(m)' : net'.host[Peer(s)] \in S
  <1>1. PICK s : /\ ReadsFrom(m) = {s} /\ s \in HostedBy(net, m) /\ s \in Socket
                 /\ net.inbox[s] = << >> /\ Peer(s) \in net.open
    BY BlockedEnd
  <1>2. net.host[Peer(s)] \in S
    BY <1>1
  <1>3. PICK C, R, W, msg, new : LinkContract(x, C, R, W, msg, new)
    BY DEF Contracted
  <1>4. /\ C \subseteq HostedBy(net, x) /\ R \subseteq HostedBy(net, x) /\ W \subseteq HostedBy(net, x)
        /\ phase'[m] = phase[m] /\ asked'[m] = asked[m] /\ awaiting'[m] = awaiting[m]
    BY <1>3 DEF LinkContract, OwnStep
  <1>5. s \notin C \cup R /\ Peer(s) \notin C \cup W /\ s \in net.open
    BY <1>1, <1>2, <1>4 DEF HostedBy
  <1>6. net'.inbox[s] = << >> /\ net'.host[Peer(s)] = net.host[Peer(s)] /\ Peer(s) \in net'.open
    BY <1>1, <1>3, <1>5 DEF LinkContract, NetStep
  <1>7. ReadsFrom(m)' = {s}
    BY <1>1, <1>4 DEF ReadsFrom
  <1>8. ~Readable(s)'
    BY <1>6 DEF Readable, AtEof
  <1> QED
    BY <1>2, <1>6, <1>7, <1>8 DEF Blocked

\* There is no timeout around the read() of join_network_through and of
\* handle_join_responses: only the death of one of the processes ends a cycle.
THEOREM HangsStay == Spec => HangsAreForGood
  <1>1. IInv /\ LinksInOrder /\ [Next]_vars
           => [\A n \in Node : Hung(n) /\ crashed' = crashed => Hung(n)']_vars
    <2> SUFFICES ASSUME IInv, LinksInOrder, Next, NEW n \in Node, Hung(n), crashed' = crashed
                 PROVE  Hung(n)'
      OBVIOUS
    <2>1. PICK S \in SUBSET Node :
             /\ n \in S
             /\ \A m \in S : Blocked(m) /\ \A s \in ReadsFrom(m) : net.host[Peer(s)] \in S
      BY DEF Hung
    <2>2. PICK x \in Node :
             /\ Contracted(x)
             /\ \/ Start(x) \/ ThreadStep(x)
                \/ \E i \in Slot : EofTakenForLeave(x, i)
                \/ LeaveRequest(x) \/ Sigint(x) \/ Crash(x)
      BY StepContract
    <2>3. x \notin S
      BY <2>1, <2>2, BlockedOnlyDies
    <2>4. ASSUME NEW m \in S
          PROVE  Blocked(m)' /\ \A s \in ReadsFrom(m)' : net'.host[Peer(s)] \in S
      BY <2>1, <2>2, <2>3, BlockedStays
    <2> QED
      BY <2>1, <2>4 DEF Hung
  <1> QED
    BY <1>1, TypeCorrect, SocketsAccounted, LinksStayInOrder, PTL DEF IInv, Spec, HangsAreForGood
=============================================================================
