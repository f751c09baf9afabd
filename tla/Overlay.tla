------------------------------- MODULE Overlay -------------------------------
(***************************************************************************)
(* How the servents build, use and take apart the overlay: joining the     *)
(* network, answering join and neighbour requests, reacting to departures, *)
(* leaving.  One servent is a single thread that runs join_network() and   *)
(* then loop(); the code it models is src/server/server_join.c,            *)
(* src/server/server_packets.c, src/server/server_util.c and the           *)
(* membership half of src/server.c.                                        *)
(*                                                                         *)
(* A servent that joins, at boot or after a departure, waits in read() for *)
(* the servents it has asked and serves nobody meanwhile.  That is what    *)
(* the phases are about:                                                   *)
(*   "off"      not started                                                *)
(*   "ask"      join_network_through: about to ask the next address        *)
(*   "neigh"    ... waiting in read() for SMSG_NEIGHBOURS                  *)
(*   "list"     ... sending CMSG_JOIN to the addresses of the reply        *)
(*   "resp"     ... reading the SMSG_JOIN answers, waiting in read()       *)
(*   "run"      in loop()                                                  *)
(*   "stop"     loop() has ended, leave_network and clear_server remain    *)
(*   "down"     the process has ended                                      *)
(* join_network_through is recursive; todo[n] is its stack of calls still  *)
(* to be made; asked, query, dial, tried and awaiting are the local        *)
(* variables of its innermost call.                                        *)
(***************************************************************************)
EXTENDS NeighbourTable

CONSTANTS MinNeighbours,    \* MIN_NEIGHBOURS
          JoinMaxAttempts,  \* JOIN_MAX_ATTEMPTS
          Contact,          \* the contact given to each servent on its command
                            \* line, NoNode for "first machine"
          Unreachable,      \* an address nobody listens on
          MaxLeavers,       \* bound: servents that are asked to leave
          MaxCrashed        \* bound: once this many servents have died, none is
                            \* killed from outside any more

Address == Node \cup {Unreachable}

ASSUME OverlayAssumption ==
    /\ MinNeighbours \in Nat
    /\ JoinMaxAttempts \in Nat
    /\ Unreachable \notin Node
    /\ Contact \in [Node -> Node \cup {Unreachable, NoNode}]

Message ==
    [op : {"CMSG_NEIGHBOURS", "CMSG_LEAVE"}]
      \cup [op : {"SMSG_NEIGHBOURS"}, list : Seq(Address)]
      \cup [op : {"CMSG_JOIN"}, rescue : BOOLEAN]
      \cup [op : {"SMSG_JOIN"}, join : BOOLEAN]

NeighboursRequest == [op |-> "CMSG_NEIGHBOURS"]
Leave == [op |-> "CMSG_LEAVE"]

VARIABLES
    phase,     \* where each servent is, see above
    booting,   \* the current call is join_network's own: its -1 ends the servent
    todo,      \* calls of join_network_through still to be made, innermost first
    asked,     \* the connection that was asked for neighbours
    query,     \* the address that was asked, nb_attempts, nb_neighbours of the reply
    dial,      \* addresses of the reply still to be read
    tried,     \* ips[0 .. index - 1]
    awaiting,  \* the sockets a CMSG_JOIN went through
    selfIp,    \* server_t.self_ip: "null", "valid", or "dangling" once freed
    table,     \* server_t.neighbours and nb_neighbours
    net,       \* the connections
    crashed,   \* servents that died without completing an exit
    leavers    \* servents whose user asked them to leave

locals == <<asked, query, dial, tried, awaiting>>
joinVars == <<booting, todo, locals>>
vars == <<phase, joinVars, selfIp, table, net, crashed, leavers>>

Phase == {"off", "ask", "neigh", "list", "resp", "run", "stop", "down"}

Frame == [left : 0 .. JoinMaxAttempts, addrs : Seq(Address)]

Query == [target : Address, left : 0 .. JoinMaxAttempts, got : Nat]
NoQuery == [target |-> Unreachable, left |-> 0, got |-> 0]

Init ==
    /\ phase = [n \in Node |-> "off"]
    /\ booting = [n \in Node |-> FALSE]
    /\ todo = [n \in Node |-> << >>]
    /\ asked = [n \in Node |-> NoSock]
    /\ query = [n \in Node |-> NoQuery]
    /\ dial = [n \in Node |-> << >>]
    /\ tried = [n \in Node |-> << >>]
    /\ awaiting = [n \in Node |-> << >>]
    /\ selfIp = [n \in Node |-> "null"]
    /\ table = [n \in Node |-> EmptyTable]
    /\ net = EmptyNet
    /\ crashed = {}
    /\ leavers = {}

-----------------------------------------------------------------------------
(* What a servent reads from its sockets.                                  *)

HasPacket(s, op) == net.inbox[s] # << >> /\ Head(net.inbox[s]).op = op

Readable(s) == net.inbox[s] # << >> \/ AtEof(net, s)

\* The listening socket exists from before the join until the process ends.
Listening(a) == a \in Node /\ phase[a] \notin {"off", "down"}

\* What getpeername() can report for a socket: the address the connection was
\* opened to, an ephemeral port nobody listens on for an accepted connection,
\* and whatever the buffer held once the connection has been reset.
PeerAddresses(s) ==
    IF s \in net.broken THEN Address
    ELSE IF s[2] = "caller" THEN {net.host[Peer(s)]} ELSE {Unreachable}

\* Accepted connections whose request has not been read.
Unserved(n) == {s \in HostedBy(net, n) : s[2] = "callee" /\ s \notin Sockets(table[n])}

\* Outcomes of strcmp(a, self_ip) == 0; self_ip may have been freed.
ReadsAsSelf(n, a) ==
    CASE selfIp[n] = "null" -> {FALSE}
      [] selfIp[n] = "valid" -> {a = n}
      [] selfIp[n] = "dangling" -> BOOLEAN

\* ensure_absent_ip(a) can report "present", can report "absent".
MayBePresent(n, a) == \E s \in Sockets(table[n]) : a \in PeerAddresses(s)
MayBeAbsent(n, a) == \A s \in Sockets(table[n]) : PeerAddresses(s) # {a}

\* What an uninitialised reply can look like when the asked servent is gone.
StaleLists == {<< >>, <<Unreachable>>}

-----------------------------------------------------------------------------
\* The innermost call returns.
ForgetLocals(n) ==
    /\ asked' = [asked EXCEPT ![n] = NoSock]
    /\ query' = [query EXCEPT ![n] = NoQuery]
    /\ dial' = [dial EXCEPT ![n] = << >>]
    /\ tried' = [tried EXCEPT ![n] = << >>]
    /\ awaiting' = [awaiting EXCEPT ![n] = << >>]

(* The end of a process: the kernel closes whatever it still hosts in w.   *)

Disappear(n, w) ==
    /\ phase' = [phase EXCEPT ![n] = "down"]
    /\ booting' = [booting EXCEPT ![n] = FALSE]
    /\ todo' = [todo EXCEPT ![n] = << >>]
    /\ ForgetLocals(n)
    /\ selfIp' = [selfIp EXCEPT ![n] = "null"]
    /\ table' = [table EXCEPT ![n] = EmptyTable]
    /\ net' = CloseAll(w, HostedBy(w, n))

Dies(n, w) ==
    /\ Disappear(n, w)
    /\ crashed' = crashed \cup {n}
    /\ UNCHANGED leavers

-----------------------------------------------------------------------------
(* Joining.                                                                *)

\* run_server up to join_network.
Start(n) ==
    /\ phase[n] = "off"
    /\ IF Contact[n] = NoNode
       THEN /\ phase' = [phase EXCEPT ![n] = "run"]
            /\ UNCHANGED <<booting, todo>>
       ELSE /\ phase' = [phase EXCEPT ![n] = "ask"]
            /\ booting' = [booting EXCEPT ![n] = TRUE]
            /\ todo' = [todo EXCEPT ![n] =
                           <<[left |-> JoinMaxAttempts, addrs |-> <<Contact[n]>>]>>]
    /\ UNCHANGED <<locals, selfIp, table, net, crashed, leavers>>

\* The call returns -1: join_network's own ends the servent, others are ignored.
AskFails(n, w) ==
    IF booting[n]
    THEN Disappear(n, w) /\ UNCHANGED <<crashed, leavers>>
    ELSE /\ phase' = [phase EXCEPT ![n] = "ask"]
         /\ ForgetLocals(n)
         /\ net' = w
         /\ UNCHANGED <<booting, selfIp, table, crashed, leavers>>

\* Faulty variant: the call whose last address is taken stays on the stack.
PoppedKeepingEmpty(stack) ==
    <<[left |-> Head(stack).left, addrs |-> Tail(Head(stack).addrs)]>> \o Tail(stack)

\* The next turn of the loop over ips and ports, whose last turn ends the call.
Popped(stack) ==
    LET top == Head(stack)
    IN  IF Len(top.addrs) = 1 THEN Tail(stack)
        ELSE <<[left |-> top.left, addrs |-> Tail(top.addrs)]>> \o Tail(stack)

\* join_network_through up to its first read: the next address is asked for its
\* neighbours.  self_ip is deduced, stored and freed.
AskNeighbours(n) ==
    /\ phase[n] = "ask"
    /\ todo[n] # << >>
    /\ LET frame == Head(todo[n])
           a == Head(frame.addrs)
       IN  \/ /\ ~Listening(a)
              /\ AskFails(n, net)
              /\ booting[n] \/ todo' = [todo EXCEPT ![n] = Popped(@)]
           \/ /\ Listening(a)
              /\ \E c \in Conn :
                    /\ NextConn(net, c)
                    /\ net' = Dial(net, c, n, a, NeighboursRequest)
                    /\ asked' = [asked EXCEPT ![n] = Caller(c)]
              /\ query' = [query EXCEPT ![n] = [target |-> a, left |-> frame.left, got |-> 0]]
              /\ phase' = [phase EXCEPT ![n] = "neigh"]
              /\ todo' = [todo EXCEPT ![n] = Popped(@)]
              /\ selfIp' = [selfIp EXCEPT ![n] = IF @ = "null" THEN "dangling" ELSE @]
              /\ UNCHANGED <<booting, dial, tried, awaiting, table, crashed, leavers>>

TakeList(n, list, w) ==
    /\ phase' = [phase EXCEPT ![n] = "list"]
    /\ booting' = [booting EXCEPT ![n] = FALSE]
    /\ query' = [query EXCEPT ![n] = [target |-> @.target, left |-> @.left,
                                      got |-> Len(list)]]
    /\ dial' = [dial EXCEPT ![n] = list]
    /\ net' = w
    /\ UNCHANGED <<todo, asked, tried, awaiting, selfIp, table, crashed, leavers>>

\* The SMSG_NEIGHBOURS read.  At end of file the opcode is not written, and its
\* old value may be the expected one.
ReadNeighbours(n) ==
    /\ phase[n] = "neigh"
    /\ LET s == asked[n]
       IN  \/ /\ HasPacket(s, "SMSG_NEIGHBOURS")
              /\ TakeList(n, Head(net.inbox[s]).list, Receive(net, s))
           \/ /\ Readable(s)
              /\ ~HasPacket(s, "SMSG_NEIGHBOURS")
              /\ AskFails(n, CloseAll(net, {s}))
              /\ booting[n] \/ UNCHANGED todo
           \/ /\ AtEof(net, s)
              /\ \E list \in StaleLists : TakeList(n, list, net)

\* join(), over the network w.
Join(n, a, rescue, w) ==
    \/ /\ MayBePresent(n, a) \/ ~Listening(a)
       /\ net' = w
       /\ UNCHANGED awaiting
    \/ /\ MayBeAbsent(n, a)
       /\ Listening(a)
       /\ \E c \in Conn :
             /\ NextConn(w, c)
             /\ net' = Dial(w, c, n, a, [op |-> "CMSG_JOIN", rescue |-> rescue])
             /\ awaiting' = [awaiting EXCEPT ![n] = Append(@, Caller(c))]

\* One turn of the loop over the addresses of the reply.
DialListed(n) ==
    /\ phase[n] = "list"
    /\ dial[n] # << >>
    /\ dial' = [dial EXCEPT ![n] = Tail(@)]
    /\ LET a == Head(dial[n])
       IN  \/ /\ TRUE \in ReadsAsSelf(n, a)
              /\ UNCHANGED <<tried, awaiting, net>>
           \/ /\ FALSE \in ReadsAsSelf(n, a)
              /\ tried' = [tried EXCEPT ![n] = Append(@, a)]
              /\ Join(n, a, FALSE, net)
    /\ UNCHANGED <<phase, booting, todo, asked, query, selfIp, table, crashed, leavers>>

\* The rest of the call up to handle_join_responses: the connection that was
\* asked is closed, and the asked servent is itself asked to be a neighbour.
DialContact(n) ==
    /\ phase[n] = "list"
    /\ dial[n] = << >>
    /\ phase' = [phase EXCEPT ![n] = "resp"]
    /\ asked' = [asked EXCEPT ![n] = NoSock]
    /\ LET w == CloseAll(net, {asked[n]})
           a == query[n].target
       IN  \/ /\ query[n].got < MaxNeighbours
              /\ tried' = [tried EXCEPT ![n] = Append(@, a)]
              /\ Join(n, a, query[n].got = 0, w)
           \/ /\ query[n].got >= MaxNeighbours
              /\ net' = w
              /\ UNCHANGED <<tried, awaiting>>
    /\ UNCHANGED <<booting, todo, query, dial, selfIp, table, crashed, leavers>>

JoinAnswered(n, s, yes, w) ==
    /\ awaiting' = [awaiting EXCEPT ![n] = Tail(@)]
    /\ table' = IF yes THEN [table EXCEPT ![n] = AddNeighbour(@, s)] ELSE table
    /\ net' = IF yes THEN w ELSE CloseAll(w, {s})
    /\ UNCHANGED <<phase, booting, todo, asked, query, dial, tried, selfIp, crashed, leavers>>

\* One turn of handle_join_responses.  At end of file the opcode and the answer
\* keep their old values: the assertion fails, or an old answer is taken.
ReadJoinAnswer(n) ==
    /\ phase[n] = "resp"
    /\ awaiting[n] # << >>
    /\ LET s == Head(awaiting[n])
       IN  \/ /\ HasPacket(s, "SMSG_JOIN")
              /\ JoinAnswered(n, s, Head(net.inbox[s]).join, Receive(net, s))
           \/ /\ Readable(s)
              /\ ~HasPacket(s, "SMSG_JOIN")
              /\ Dies(n, net)
           \/ /\ AtEof(net, s)
              /\ \E yes \in BOOLEAN : JoinAnswered(n, s, yes, net)

\* Faulty variant: nb_attempts is passed on as it is.
EndCallForever(n) ==
    /\ phase[n] = "resp"
    /\ awaiting[n] = << >>
    /\ phase' = [phase EXCEPT ![n] = "ask"]
    /\ todo' = IF /\ query[n].got > 0 /\ table[n].nb < MinNeighbours /\ tried[n] # << >>
               THEN [todo EXCEPT ![n] = <<[left |-> query[n].left, addrs |-> tried[n]]>> \o @]
               ELSE todo
    /\ ForgetLocals(n)
    /\ UNCHANGED <<booting, selfIp, table, net, crashed, leavers>>

\* The end of join_network_through: more calls if there are too few neighbours.
EndCall(n) ==
    /\ phase[n] = "resp"
    /\ awaiting[n] = << >>
    /\ phase' = [phase EXCEPT ![n] = "ask"]
    /\ todo' = IF /\ query[n].got > 0
                  /\ table[n].nb < MinNeighbours
                  /\ query[n].left > 0
                  /\ tried[n] # << >>
               THEN [todo EXCEPT ![n] = <<[left |-> query[n].left - 1,
                                           addrs |-> tried[n]]>> \o @]
               ELSE todo
    /\ ForgetLocals(n)
    /\ UNCHANGED <<booting, selfIp, table, net, crashed, leavers>>

\* The outermost call returns: into loop(), or back into it.
EndJoin(n) ==
    /\ phase[n] = "ask"
    /\ todo[n] = << >>
    /\ phase' = [phase EXCEPT ![n] = "run"]
    /\ UNCHANGED <<joinVars, selfIp, table, net, crashed, leavers>>

-----------------------------------------------------------------------------
(* Serving, in loop().                                                     *)

\* compute_and_send_neighbours: the addresses of the peers of the live slots,
\* in order, then the connection is closed.
AnswerNeighbours(n, s) ==
    /\ HasPacket(s, "CMSG_NEIGHBOURS")
    /\ \E order \in InOrder(LiveSlots(table[n])) :
       \E shown \in [LiveSlots(table[n]) -> Address] :
          /\ \A i \in LiveSlots(table[n]) :
                LET mine == table[n].sock[i]
                IN  mine \notin net.broken => shown[i] = net.host[Peer(mine)]
          /\ LET reply == [op |-> "SMSG_NEIGHBOURS",
                           list |-> [k \in DOMAIN order |-> shown[order[k]]]]
             IN  net' = CloseAll(SendAll(Receive(net, s), {s}, reply), {s})
    /\ UNCHANGED <<selfIp, table>>

\* Faulty variant: a full table is noticed before the answer is written.
AnswerJoinUnlessFull(n, s) ==
    /\ HasPacket(s, "CMSG_JOIN")
    /\ net' = IF table[n].nb = MaxNeighbours THEN Receive(net, s)
              ELSE SendAll(Receive(net, s), {s}, [op |-> "SMSG_JOIN", join |-> TRUE])
    /\ table' = [table EXCEPT ![n] = AddNeighbour(@, s)]
    /\ UNCHANGED selfIp

\* handle_join_request: refused when the table is full, granted to a rescue,
\* otherwise a coin is flipped.
AnswerJoin(n, s) ==
    /\ HasPacket(s, "CMSG_JOIN")
    /\ \E yes \in BOOLEAN :
          LET answered == SendAll(Receive(net, s), {s}, [op |-> "SMSG_JOIN", join |-> yes])
          IN  /\ table[n].nb = MaxNeighbours => ~yes
              /\ table[n].nb # MaxNeighbours /\ Head(net.inbox[s]).rescue => yes
              /\ net' = IF yes THEN answered ELSE CloseAll(answered, {s})
              /\ table' = IF yes THEN [table EXCEPT ![n] = AddNeighbour(@, s)] ELSE table
    /\ selfIp' = [selfIp EXCEPT ![n] = IF @ = "null" THEN "valid" ELSE @]

\* Faulty variant: as if requests were served during a join as well.
ServeAlways(n, s) ==
    /\ s \in Unserved(n)
    /\ AnswerNeighbours(n, s) \/ AnswerJoin(n, s)
    /\ UNCHANGED <<phase, joinVars, crashed, leavers>>

\* accept() and handle_awaiting_socket.
Serve(n, s) ==
    /\ phase[n] = "run"
    /\ s \in Unserved(n)
    /\ AnswerNeighbours(n, s) \/ AnswerJoin(n, s)
    /\ UNCHANGED <<phase, joinVars, crashed, leavers>>

\* handle_leave for slot i.  The first live slot that shows an address is asked
\* for more neighbours; a connection that was reset may show none.
HandleLeave(n, i, w) ==
    LET t == DropNeighbour(table[n], i)
        MayShowNone(j) == t.sock[j] \in net.broken
    IN  /\ table' = [table EXCEPT ![n] = t]
        /\ net' = CloseAll(w, {table[n].sock[i]})
        /\ \/ /\ t.nb >= MinNeighbours \/ \A j \in LiveSlots(t) : MayShowNone(j)
              /\ UNCHANGED <<phase, todo>>
           \/ /\ t.nb < MinNeighbours
              /\ \E j \in LiveSlots(t) :
                    /\ \A k \in LiveSlots(t) : k < j => MayShowNone(k)
                    /\ \E a \in PeerAddresses(t.sock[j]) :
                          todo' = [todo EXCEPT ![n] =
                                      <<[left |-> JoinMaxAttempts, addrs |-> <<a>>]>>]
              /\ phase' = [phase EXCEPT ![n] = "ask"]
        /\ UNCHANGED <<booting, locals, selfIp, crashed, leavers>>

\* Faulty variant: the result of handle_neighbour is ignored.
ReadLeaveOnly(n, i) ==
    /\ phase[n] = "run"
    /\ i \in LiveSlots(table[n])
    /\ HasPacket(table[n].sock[i], "CMSG_LEAVE")
    /\ net' = Receive(net, table[n].sock[i])
    /\ UNCHANGED <<phase, joinVars, selfIp, table, crashed, leavers>>

\* handle_neighbour reads CMSG_LEAVE.
ReadLeave(n, i) ==
    /\ phase[n] = "run"
    /\ i \in LiveSlots(table[n])
    /\ LET s == table[n].sock[i]
       IN  HasPacket(s, "CMSG_LEAVE") /\ HandleLeave(n, i, Receive(net, s))

\* handle_neighbour at end of file: the opcode is not written, and its old value
\* may be CMSG_LEAVE; with any other old value nothing happens.
EofTakenForLeave(n, i) ==
    /\ phase[n] = "run"
    /\ i \in LiveSlots(table[n])
    /\ AtEof(net, table[n].sock[i])
    /\ HandleLeave(n, i, net)

-----------------------------------------------------------------------------
(* Leaving.                                                                *)

\* Faulty variant: the last entry of the table is forgotten.
BroadcastShort(n) ==
    SendAll(net, {table[n].sock[i] : i \in LiveSlots(table[n]) \ {MaxNeighbours}}, Leave)

\* leave_network: every neighbour is written to.  SIGPIPE is not handled, so a
\* write on a connection that was reset may end the process.
Broadcast(n) == SendAll(net, Sockets(table[n]), Leave)

DiesInBroadcast(n) ==
    \E i \in LiveSlots(table[n]) :
       /\ table[n].sock[i] \in net.broken
       /\ Dies(n, SendAll(net, {table[n].sock[j] : j \in LiveSlots(table[n]) \cap 1 .. i - 1},
                          Leave))

MayLeave(n) == n \in leavers \/ Cardinality(leavers) < MaxLeavers

\* Faulty variant: the departure is announced and the servent stays in its loop.
LeaveRequestStaying(n) ==
    /\ phase[n] = "run"
    /\ MayLeave(n)
    /\ net' = Broadcast(n)
    /\ leavers' = leavers \cup {n}
    /\ UNCHANGED <<phase, joinVars, selfIp, table, crashed>>

\* handle_client reads CMSG_INT_EXIT and announces the departure.
LeaveRequest(n) ==
    /\ phase[n] = "run"
    /\ MayLeave(n)
    /\ \/ /\ phase' = [phase EXCEPT ![n] = "stop"]
          /\ net' = Broadcast(n)
          /\ leavers' = leavers \cup {n}
          /\ UNCHANGED <<joinVars, selfIp, table, crashed>>
       \/ DiesInBroadcast(n)

\* handle_sigint, seen when the loop's condition is next evaluated.
Sigint(n) ==
    /\ phase[n] = "run"
    /\ MayLeave(n)
    /\ phase' = [phase EXCEPT ![n] = "stop"]
    /\ leavers' = leavers \cup {n}
    /\ UNCHANGED <<joinVars, selfIp, table, net, crashed>>

\* run_server after loop(): announced, a second time after CMSG_INT_EXIT, and
\* everything is closed.
Exit(n) ==
    /\ phase[n] = "stop"
    /\ \/ Disappear(n, Broadcast(n)) /\ UNCHANGED <<crashed, leavers>>
       \/ DiesInBroadcast(n)

\* The machine or its servent is killed.
Crash(n) ==
    /\ phase[n] \notin {"off", "down"}
    /\ Cardinality(crashed) < MaxCrashed
    /\ Dies(n, net)

-----------------------------------------------------------------------------
JoinStep(n) == \/ AskNeighbours(n) \/ ReadNeighbours(n) \/ DialListed(n)
               \/ DialContact(n) \/ ReadJoinAnswer(n) \/ EndCall(n) \/ EndJoin(n)

\* What the servent's thread does of its own.
ThreadStep(n) == \/ JoinStep(n)
                 \/ \E s \in Socket : Serve(n, s)
                 \/ \E i \in Slot : ReadLeave(n, i)
                 \/ Exit(n)

Next ==
    \E n \in Node :
       \/ Start(n) \/ ThreadStep(n)
       \/ \E i \in Slot : EofTakenForLeave(n, i)
       \/ LeaveRequest(n) \/ Sigint(n) \/ Crash(n)

Spec == Init /\ [][Next]_vars

\* The thread of a running servent does not stop while there is something for it
\* to do; which of several connections it turns to first is left open, so the loop
\* order of the code is not even needed.  Nothing makes users, crashes and stale
\* opcodes happen.
Fairness == \A n \in Node : WF_vars(ThreadStep(n))

FairSpec == Spec /\ Fairness

-----------------------------------------------------------------------------
TypeOK ==
    /\ phase \in [Node -> Phase]
    /\ booting \in [Node -> BOOLEAN]
    /\ todo \in [Node -> Seq(Frame)]
    /\ \A n \in Node : \A k \in DOMAIN todo[n] : todo[n][k].addrs # << >>
    /\ asked \in [Node -> Socket \cup {NoSock}]
    /\ \A n \in Node : phase[n] \in {"neigh", "list"} => asked[n] \in Socket
    /\ query \in [Node -> Query]
    /\ dial \in [Node -> Seq(Address)]
    /\ tried \in [Node -> Seq(Address)]
    /\ awaiting \in [Node -> Seq(Socket)]
    /\ selfIp \in [Node -> {"null", "valid", "dangling"}]
    /\ table \in [Node -> NeighbourTables]
    /\ net \in Net(Message)
    /\ crashed \in SUBSET Node
    /\ leavers \in SUBSET Node

-----------------------------------------------------------------------------
(* What a servent waits for.                                               *)

Joining(n) == phase[n] \in {"ask", "neigh", "list", "resp"}

\* The socket a blocking read() is on.
ReadsFrom(n) == IF phase[n] = "neigh" THEN {asked[n]}
                ELSE IF phase[n] = "resp" /\ awaiting[n] # << >>
                     THEN {Head(awaiting[n])} ELSE {}

Blocked(n) == \E s \in ReadsFrom(n) : ~Readable(s)

\* n waits for a servent that waits for ... one that waits for itself.
Hung(n) ==
    \E S \in SUBSET Node :
       /\ n \in S
       /\ \A m \in S : Blocked(m) /\ \A s \in ReadsFrom(m) : net.host[Peer(s)] \in S

-----------------------------------------------------------------------------
(* Safety.                                                                 *)

\* The unread packets at an end, the servent at the other end, and whether there
\* is a departure to be read.
Packets(s) == {net.inbox[s][k] : k \in DOMAIN net.inbox[s]}
Far(s) == net.host[Peer(s)]
Announced(s) == Leave \in Packets(s)

\* Every socket a servent has a use for is open, its own, and has one use: an entry
\* of the table, the connection its join asked for neighbours, or one of those its
\* join waits for an answer on.  And nb_neighbours, which add_neighbour and
\* handle_leave keep beside the array, is the number of live entries.
SocketsInOrder(n) ==
    LET linked == Sockets(table[n])
        asks == awaiting[n]
    IN  /\ Accounted(table[n])
        /\ linked \subseteq HostedBy(net, n)
        /\ asked[n] # NoSock =>
              asked[n] \in HostedBy(net, n) \ linked /\ asked[n][2] = "caller"
        /\ \A k \in DOMAIN asks :
              /\ asks[k] \in HostedBy(net, n) \ linked
              /\ asks[k][2] = "caller" /\ asks[k] # asked[n]
        /\ \A k, l \in DOMAIN asks : asks[k] = asks[l] => k = l

SocketAccounting == \A n \in Node : SocketsInOrder(n)

\* An SMSG_JOIN that has not been read yet is true: after a yes the callee has
\* the connection in its table as long as it is open there, after a no it has
\* closed it (the assumption of the comment in handle_join_responses).
AnswersAreTrue ==
    \A s \in net.open : HasPacket(s, "SMSG_JOIN") =>
       IF Head(net.inbox[s]).join
       THEN Peer(s) \in net.open => Peer(s) \in Sockets(table[net.host[Peer(s)]])
       ELSE Peer(s) \notin net.open

\* A servent never holds a link that the other side has forgotten: the peer of
\* an outgoing link, as long as it is open, is in the table of its servent.
OutgoingLinksAreMutual ==
    \A n \in Node : \A s \in Sockets(table[n]) :
       s[2] = "caller" /\ Peer(s) \in net.open
          => Peer(s) \in Sockets(table[net.host[Peer(s)]])

\* The far side of an outgoing link disappears silently only when its servent
\* crashed, or when the link was recorded on a stale answer over a connection that
\* had been reset.  Otherwise CMSG_LEAVE is there to be read, unless the servent is
\* leaving itself; and a CMSG_LEAVE comes only from a servent that has left its loop.
DeparturesAreAnnounced ==
    \A n \in Node : \A s \in Sockets(table[n]) :
       /\ s[2] = "caller" /\ Peer(s) \notin net.open /\ phase[n] # "stop"
             => Announced(s) \/ s \in net.broken \/ Far(s) \in crashed
       /\ Announced(s) => phase[Far(s)] \in {"stop", "down"}

\* No request is lost: the servent that a blocked one waits for holds the other
\* end of the connection, among those it will serve when it is next in loop(),
\* with the request as its first packet.
BlockedRequestsArePending ==
    \A n \in Node : Blocked(n) =>
       \A s \in ReadsFrom(n) :
          /\ Peer(s) \in Unserved(net.host[Peer(s)])
          /\ HasPacket(Peer(s), IF phase[n] = "neigh" THEN "CMSG_NEIGHBOURS" ELSE "CMSG_JOIN")

-----------------------------------------------------------------------------
(* The stages of a connection, as its two ends see them: why the            *)
(* properties above hold.                                                  *)

\* A connection number is given out again with nothing left to read.
ClosedEndsAreEmpty == \A s \in Socket \ net.open : net.inbox[s] = << >>

\* Only a servent that runs has sockets, and what has crashed does not run.
OnlyTheLivingHost ==
    /\ \A n \in Node : phase[n] \in {"off", "down"} => HostedBy(net, n) = {}
    /\ \A n \in crashed : phase[n] = "down"

\* A join waits for answers only before it returns, and the join that fails at
\* boot, which ends the servent without a word, has no neighbours to tell.
JoinsInOrder ==
    \A n \in Node :
       /\ awaiting[n] # << >> => phase[n] \in {"list", "resp"}
       /\ booting[n] => /\ Sockets(table[n]) = {}
                        /\ \/ phase[n] = "neigh"
                           \/ phase[n] = "ask" /\ todo[n] # << >>

\* What can be read at an end says something about the other end: a departure,
\* that its servent has left its loop; a granted join, that it has the link as
\* long as it is open; a refusal or a list of neighbours, that it is closed.
PacketsAreTrue ==
    \A s \in net.open : \A m \in Packets(s) :
       /\ m = Leave => phase[Far(s)] \in {"stop", "down"}
       /\ m.op = "SMSG_JOIN" =>
             IF m.join THEN Peer(s) \in net.open => Peer(s) \in Sockets(table[Far(s)])
             ELSE Peer(s) \notin net.open
       /\ m.op = "SMSG_NEIGHBOURS" => Peer(s) \notin net.open

\* An accepted connection that has not been served holds its request, and nothing
\* has been written on it.
UnservedIsUnanswered ==
    \A n \in Node : \A s \in Unserved(n) :
       net.inbox[s] # << >> /\ net.inbox[Peer(s)] = << >>

\* s carries a request that waits to be served.
Pending(s, op) == Peer(s) \in Unserved(Far(s)) /\ HasPacket(Peer(s), op)

AskedIsPending ==
    \A n \in Node :
       asked[n] # NoSock /\ Peer(asked[n]) \in net.open => Pending(asked[n], "CMSG_NEIGHBOURS")

\* The other end of s was closed, and this was said or can be accounted for.
Refused(s) == HasPacket(s, "SMSG_JOIN") /\ ~Head(net.inbox[s]).join
ClosedKnowingly(s) == Announced(s) \/ s \in net.broken \/ Far(s) \in crashed

AwaitedInOrder(s) ==
    IF Peer(s) \in net.open THEN Pending(s, "CMSG_JOIN") \/ HasPacket(s, "SMSG_JOIN")
    ELSE Refused(s) \/ ClosedKnowingly(s)

AwaitedIsPending == \A n \in Node : \A k \in DOMAIN awaiting[n] : AwaitedInOrder(awaiting[n][k])

\* Every connection is in one of the stages of its kind, at both ends: asked for
\* neighbours, waiting for the answer to a join, or a link.
LinksInOrder ==
    /\ ClosedEndsAreEmpty /\ OnlyTheLivingHost /\ JoinsInOrder /\ PacketsAreTrue
    /\ UnservedIsUnanswered /\ AskedIsPending /\ AwaitedIsPending
    /\ OutgoingLinksAreMutual /\ DeparturesAreAnnounced

-----------------------------------------------------------------------------
(* Action properties.                                                      *)

\* There is no timeout and no retry: a cycle of servents that wait for each other
\* lasts until one of the processes dies.
HangsAreForGood ==
    [][\A n \in Node : Hung(n) /\ crashed' = crashed => Hung(n)']_vars

-----------------------------------------------------------------------------
(* Liveness.                                                               *)

\* A join, at boot or after a departure, ends, unless the servent is caught in a
\* cycle of servents that wait for each other.  Nothing else holds it up.
JoinEndsOrHangs ==
    \A n \in Node : Joining(n) ~> (~Joining(n) \/ Hung(n))

\* A departure that was announced is acted upon: the link leaves the table,
\* unless the servent it was announced to hangs.
LeaveIsHeeded ==
    \A n \in Node : \A i \in Slot :
       (i \in LiveSlots(table[n]) /\ HasPacket(table[n].sock[i], "CMSG_LEAVE"))
          ~> (i \notin LiveSlots(table[n]) \/ Hung(n))
=============================================================================
