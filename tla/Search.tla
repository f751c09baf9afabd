------------------------------- MODULE Search -------------------------------
(***************************************************************************)
(* The search for one file: the requests of the clients, the packets       *)
(* CMSG_ and SMSG_SEARCH_REQUEST between neighbours, the queue             *)
(* pending_requests, and the list of machines a client keeps.  The code is *)
(* the search half of src/server/server_requests.c with its callers in     *)
(* src/server.c, and src/client/client_search.c.                           *)
(*                                                                         *)
(* How links are made is in Overlay.  Here there are links from the start, *)
(* and the servents leave; a servent that kills itself, by a double free   *)
(* or by a write to a connection that was reset, ends the behaviour.       *)
(* Addresses are left out but for one comparison, of self_ip with the      *)
(* address in a request: it may come out either way at a servent that      *)
(* shares its machine with others, or that has freed its self_ip, as every *)
(* servent that joins does.  Which servents have the file does not change. *)
(***************************************************************************)
EXTENDS NeighbourTable, SequencesExt

CONSTANTS Junk,        \* what is not the port of a servent
          Unsure,      \* the servents whose self_ip may equal another's address
          StartNet,    \* the links there are at the start
          StartTable,  \* ... and the tables they are in
          DefaultTtl,  \* DEFAULT_TTL
          MaxSearch,   \* bound: searches
          MaxLeavers   \* bound: departures

\* The entries of the table of n are ends of links to others.
Sound(w, t, n) == \A s \in Sockets(t) : /\ s \in w.open
                                        /\ w.host[s] = n /\ w.host[Peer(s)] # n

ASSUME SearchAssumption ==
    /\ Junk \notin Node
    /\ Unsure \subseteq Node
    /\ DefaultTtl \in Nat
    /\ MaxSearch \in Nat
    /\ StartNet \in Net({})
    /\ StartTable \in [Node -> NeighbourTables]
    /\ \A n \in Node : Accounted(StartTable[n]) /\ Sound(StartNet, StartTable[n], n)
    /\ MaxLeavers \in Nat

VARIABLES
    holders,   \* the servents that have the file
    up,        \* the servents in their loop
    died,      \* those that have killed themselves
    net,       \* the links
    table,     \* server_t.neighbours
    pending,   \* server_t.pending_requests
    client,    \* the SMSG_INT_SEARCH each client has not read yet
    lookup,    \* client_t.machines_by_files: no record, or one list of machines
    searches   \* how often clients have searched

vars == <<holders, up, died, net, table, pending, client, lookup, searches>>

-----------------------------------------------------------------------------
(* Packets.  A servent is named by its port; a list of machines is a list  *)
(* of ports.                                                               *)

Machine == Node \cup {Junk}

SearchPacket(port, ttl, machines) ==
    [type |-> "CMSG_SEARCH_REQUEST", port_source |-> port, ttl |-> ttl,
     machines |-> machines]
AnswerPacket(machines) == [type |-> "SMSG_SEARCH_REQUEST", machines |-> machines]
LeavePacket == [type |-> "CMSG_LEAVE"]

Question == [type : {"CMSG_SEARCH_REQUEST"}, port_source : Node,
             ttl : 0 .. DefaultTtl, machines : {<< >>}]
AnswerWithMachines == [type : {"SMSG_SEARCH_REQUEST"}, machines : BoundedSeq(Machine, 1)]
Packet == {LeavePacket} \cup AnswerWithMachines \cup Question

\* The entries of pending_requests.
LocalRequest == [type |-> "REQUEST_SEARCH_LOCAL"]
RemoteRequest(source_sock, packet) ==
    [type |-> "REQUEST_SEARCH_REMOTE", source_sock |-> source_sock, packet |-> packet]

Request == {LocalRequest}
           \cup [type : {"REQUEST_SEARCH_REMOTE"}, source_sock : Socket \cup {NoSock},
                 packet : Question]

\* received_search_requests, to which nothing is ever pushed.
ReceivedSearchRequests(n) == {}

\* check_unique_request, which takes requests from different ports for the same.
IsUnique(n, request) ==
    \A entry \in ReceivedSearchRequests(n) :
       entry.source_port = request.port_source

-----------------------------------------------------------------------------
Init ==
    /\ holders \in SUBSET Node
    /\ up = Node
    /\ died = {}
    /\ net = StartNet
    /\ table = StartTable
    /\ pending = [n \in Node |-> << >>]
    /\ client = [n \in Node |-> << >>]
    /\ lookup = [n \in Node |-> << >>]
    /\ searches = 0

Runs(n) == died = {} /\ n \in up

\* A servent leaves the network.
Leave(n) ==
    /\ Runs(n)
    /\ Cardinality(Node \ up) < MaxLeavers
    /\ up' = up \ {n}
    /\ net' = CloseAll(SendAll(net, Sockets(table[n]), LeavePacket), HostedBy(net, n))
    /\ table' = [table EXCEPT ![n] = EmptyTable]
    /\ pending' = [pending EXCEPT ![n] = << >>]
    /\ UNCHANGED <<holders, died, client, lookup, searches>>

\* handle_client reads CMSG_INT_SEARCH.
SearchFile(n) ==
    /\ Runs(n)
    /\ searches < MaxSearch
    /\ searches' = searches + 1
    /\ pending' = [pending EXCEPT ![n] = Append(@, LocalRequest)]
    /\ UNCHANGED <<holders, up, died, net, table, client, lookup>>

-----------------------------------------------------------------------------
(* handle_neighbours.                                                      *)

FirstPacket(n, s, type) ==
    /\ Runs(n)
    /\ s \in Sockets(table[n])
    /\ net.inbox[s] # << >>
    /\ Head(net.inbox[s]).type = type

\* handle_remote_search_request.  source_sock is not written: it is whatever the
\* memory holds, perhaps one of the sockets.
ReadsSearch(n, s) ==
    /\ FirstPacket(n, s, "CMSG_SEARCH_REQUEST")
    /\ \E source_sock \in Sockets(table[n]) \cup {NoSock} :
          pending' = [pending EXCEPT ![n] =
                         Append(@, RemoteRequest(source_sock, Head(net.inbox[s])))]
    /\ net' = Receive(net, s)
    /\ UNCHANGED <<holders, up, died, table, client, lookup, searches>>

\* handle_remote_search_answer, and send_search_answer_to_client.  The strings read from
\* the packet are not ended: they may go on with what the memory holds after them.
ReadsAnswer(n, s) ==
    /\ FirstPacket(n, s, "SMSG_SEARCH_REQUEST")
    /\ \E ended \in BOOLEAN :
          client' = [client EXCEPT ![n] = Append(@,
             [k \in DOMAIN Head(net.inbox[s]).machines |->
                IF ended THEN Head(net.inbox[s]).machines[k] ELSE Junk])]
    /\ net' = Receive(net, s)
    /\ UNCHANGED <<holders, up, died, table, pending, lookup, searches>>

\* handle_leave, without its search for new neighbours.
ReadsLeave(n, s) ==
    /\ FirstPacket(n, s, "CMSG_LEAVE")
    /\ net' = CloseAll(Receive(net, s), {s})
    /\ table' = [table EXCEPT ![n] =
                    DropNeighbour(@, CHOOSE i \in LiveSlots(@) : @.sock[i] = s)]
    /\ UNCHANGED <<holders, up, died, pending, client, lookup, searches>>

-----------------------------------------------------------------------------
(* handle_pending_requests.                                                *)

\* Faulty variant: one neighbour is not enough.
ServesIfSeveral(n, type) ==
    /\ Runs(n)
    /\ table[n].nb > 1
    /\ pending[n] # << >>
    /\ Head(pending[n]).type = type

Serves(n, type) ==
    /\ Runs(n)
    /\ table[n].nb # 0
    /\ pending[n] # << >>
    /\ Head(pending[n]).type = type

\* What arrives at t from a sequence of sockets that are each written packet: as many
\* copies as its peer is in the sequence.
Copies(targets, t, packet) ==
    [k \in 1 .. Cardinality({i \in DOMAIN targets : targets[i] = Peer(t) /\ t \in net.open})
        |-> packet]

\* write_to_fd on a sequence of sockets, one after the other.
Write(targets, packet) ==
    [open |-> net.open,
     host |-> net.host,
     inbox |-> [t \in Socket |-> net.inbox[t] \o Copies(targets, t, packet)],
     broken |-> net.broken
                  \cup {s \in ToSet(targets) \ {NoSock} : Peer(s) \notin net.open}]

\* A write on a connection that was reset may end the servent.
Sends(n, targets, packet) ==
    /\ net' = Write(targets, packet)
    /\ \/ died' = died
       \/ \E k \in DOMAIN targets : targets[k] \in net.broken /\ died' = died \cup {n}

\* broadcast_packet: all neighbours, in the order of the table.
Broadcast(n) == {[k \in DOMAIN slots |-> table[n].sock[slots[k]]] :
                    slots \in InOrder(LiveSlots(table[n]))}

\* answer_local_search_request.
AnswerLocal(n) ==
    /\ Serves(n, "REQUEST_SEARCH_LOCAL")
    /\ \/ /\ n \in holders
          /\ client' = [client EXCEPT ![n] = Append(@, <<n>>)]
          /\ UNCHANGED <<net, died>>
       \/ /\ n \notin holders
          /\ \E targets \in Broadcast(n) :
                Sends(n, targets, SearchPacket(n, DefaultTtl, << >>))
          /\ UNCHANGED client
    /\ pending' = [pending EXCEPT ![n] = Tail(@)]
    /\ UNCHANGED <<holders, up, table, lookup, searches>>

\* forward_to_local: the address in the request compares equal to self_ip.  The list of
\* machines is freed twice.
ForwardToLocal(n, request) ==
    /\ client' = [client EXCEPT ![n] = Append(@, request.machines)]
    /\ \/ died' = died
       \/ died' = died \cup {n}
    /\ UNCHANGED net

\* Faulty variants of Reply: requests are sent on; a servent names itself without looking
\* for the file; it forgets itself.
ReplyOnward(n, request) ==
    IF request.ttl = 0 THEN AnswerPacket(request.machines)
    ELSE SearchPacket(request.port_source, request.ttl - 1, request.machines)
ReplyUnseen(n, request) == AnswerPacket(Append(request.machines, n))
ReplyOthers(n, request) == AnswerPacket(request.machines)

\* The packet answer_remote_search_request builds.
Reply(n, request) ==
    LET unique   == IsUnique(n, request)
        machines == request.machines \o (IF unique /\ n \in holders THEN <<n>> ELSE << >>)
    IN  IF unique \/ request.ttl = 0
        THEN AnswerPacket(machines)
        ELSE SearchPacket(request.port_source, request.ttl - 1, machines)

\* The sockets it writes to.  The array holds a socket at the index of its entry in
\* the table, and the first nb_sockets of it are used; what was not written is
\* whatever the memory holds.
Targets(n, source_sock) ==
    LET chosen == {i \in LiveSlots(table[n]) : table[n].sock[i] # source_sock}
    IN  {t \in [1 .. Cardinality(chosen) -> Sockets(table[n]) \cup {NoSock}] :
            \A i \in DOMAIN t : i \in chosen => t[i] = table[n].sock[i]}

\* answer_remote_search_request.
AnswerRemote(n) ==
    /\ Serves(n, "REQUEST_SEARCH_REMOTE")
    /\ LET request == Head(pending[n]).packet
       IN  \/ n \in Unsure /\ ForwardToLocal(n, request)
           \/ /\ \E targets \in Targets(n, Head(pending[n]).source_sock) :
                    Sends(n, targets, Reply(n, request))
              /\ UNCHANGED client
    /\ pending' = [pending EXCEPT ![n] = Tail(@)]
    /\ UNCHANGED <<holders, up, table, lookup, searches>>

-----------------------------------------------------------------------------
(* The client.                                                             *)

\* Faulty variant: what is listed already is not looked for.
ListAgain(machines, answer) == {machines \o answer}

HasFileRecord(n) == lookup[n] # << >>
HasFileMachineRecord(machines, m) == m \in ToSet(machines)

\* What handle_search_answer adds of a further answer: the machines that are not listed,
\* neither before it nor from it.
Unlisted(machines, answer) ==
    {k \in DOMAIN answer : /\ ~HasFileMachineRecord(machines, answer[k])
                           /\ \A l \in 1 .. k - 1 : answer[l] # answer[k]}

\* There is one such list: the new machines come last, in the order of the answer.
List(machines, answer) ==
    {machines \o [k \in DOMAIN order |-> answer[order[k]]] :
        order \in InOrder(Unlisted(machines, answer))}

\* handle_servent, once after each command of the user.  The machines of the first
\* answer are listed without a test.
Command(n) ==
    /\ Runs(n)
    /\ client[n] # << >>
    /\ client' = [client EXCEPT ![n] = Tail(@)]
    /\ \E machines \in IF HasFileRecord(n) THEN List(lookup[n][1], Head(client[n]))
                        ELSE {Head(client[n])} :
          lookup' = [lookup EXCEPT ![n] = <<machines>>]
    /\ UNCHANGED <<holders, up, died, net, table, pending, searches>>

-----------------------------------------------------------------------------
ServerStep(n) ==
    \/ \E s \in Socket : ReadsSearch(n, s) \/ ReadsAnswer(n, s) \/ ReadsLeave(n, s)
    \/ AnswerLocal(n)
    \/ AnswerRemote(n)

Next ==
    \/ \E n \in Node : Leave(n)
    \/ \E n \in Node : SearchFile(n)
    \/ \E n \in Node : Command(n)
    \/ \E n \in Node, s \in Socket : ReadsSearch(n, s) \/ ReadsAnswer(n, s) \/ ReadsLeave(n, s)
    \/ \E n \in Node : AnswerLocal(n)
    \/ \E n \in Node : AnswerRemote(n)

Spec == Init /\ [][Next]_vars

\* The loop of a servent goes on.  Users need not type anything.
FairSpec == Spec /\ \A n \in Node : WF_vars(ServerStep(n))

-----------------------------------------------------------------------------
\* Every variable stays in its set.  As who reads a request answers it, no TTL
\* wraps, no request has a list of machines, and no answer more than one.
TypeOK ==
    /\ holders \subseteq Node /\ up \subseteq Node /\ died \subseteq Node
    /\ net \in Net(Packet)
    /\ table \in [Node -> NeighbourTables] /\ \A n \in Node : Accounted(table[n])
    /\ pending \in [Node -> Seq(Request)]
    /\ client \in [Node -> Seq(BoundedSeq(Machine, 1))]
    /\ lookup \in [Node -> Seq(Seq(Machine))] /\ \A n \in Node : Len(lookup[n]) <= 1
    /\ searches \in 0 .. MaxSearch

\* The packets a servent has not read, and those it has not read or not served.
Unread(n) == UNION {ToSet(net.inbox[s]) : s \in Sockets(table[n])}
Waiting(n) ==
    Unread(n)
    \cup {r.packet : r \in {q \in ToSet(pending[n]) : q.type = "REQUEST_SEARCH_REMOTE"}}
SearchesAt(n) == {p \in Waiting(n) : p.type = "CMSG_SEARCH_REQUEST"}

\* The machines a servent, its packets or its client speak of.
Named(n) == UNION {ToSet(answer) : answer \in ToSet(client[n]) \cup ToSet(lookup[n])}
Spoken == UNION {Named(n) \cup UNION {ToSet(p.machines) : p \in Waiting(n) \ {LeavePacket}} :
                    n \in Node}

\* A machine that any packet, queue or client names has the file, unless its name was
\* spoilt by the string that handle_remote_search_answer does not end: whatever is
\* written to the wrong sockets, and whoever leaves, no client is sent to a servent
\* that never had what it looks for.
NamedMachinesAreHolders == Spoken \subseteq holders \cup {Junk}

\* No servent is asked its own question, in whatever rings the overlay has: what
\* source_sock was added for (request.h:47), although it is never set.
QuestionsNeverComeHome == \A n \in Node : \A p \in SearchesAt(n) : p.port_source # n

\* A machine is once in the list a client shows, however many neighbours sent it and
\* however often the file was searched.
MachinesListedOnce == \A n \in Node : \A k \in DOMAIN lookup[n] : IsInjective(lookup[n][k])

\* A gap below the last neighbour in a table.
Gap(n) == LiveSlots(table[n]) # 1 .. table[n].nb

\* Searches die out: unless a servent is killed, in the end no neighbour has a
\* search to read, and no servent with a neighbour one to serve.
SearchesDieOut ==
    <>[](\/ died # {}
         \/ \A n \in up : /\ \A p \in Unread(n) : p.type = "CMSG_LEAVE"
                          /\ pending[n] = << >> \/ table[n].nb = 0)

\* A neighbour that has the file says so to who asked: if source_sock is by chance no
\* neighbour's (one that is another neighbour's leaves a hole in the array, as a gap
\* in the table does), and if nobody goes away meanwhile.
HoldersAnswer ==
    \A n \in Node \ Unsure, asker \in Node :
       (/\ n \in holders
        /\ \E r \in ToSet(pending[n]), s \in Sockets(table[n]) :
              /\ r.type = "REQUEST_SEARCH_REMOTE" /\ r.packet.port_source = asker
              /\ r.source_sock \notin Sockets(table[n]) /\ net.host[Peer(s)] = asker)
       ~> (Named(asker) \cap {n, Junk} # {} \/ Gap(n) \/ died # {} \/ {n, asker} \ up # {})

-----------------------------------------------------------------------------
(* What the documents say of a search and the code does not do.            *)

LinkedTo(m, n) == \E s \in Sockets(table[m]) : net.host[Peer(s)] = n

\* "client searches a file on the network and will receive a list of machines that
\* have the file" (packets_doc.h:104-105), where every machine that gets the packet
\* decreases its TTL and sends it on (server_requests.c:92-97): a file two links away
\* is found, if nobody goes away.
FoundTwoLinksAway ==
    \A asker, between, holder \in Node :
       (/\ asker \notin holders /\ holder \in holders /\ asker # holder
        /\ LocalRequest \in ToSet(pending[asker])
        /\ LinkedTo(asker, between) /\ LinkedTo(between, holder))
       ~> (holder \in Named(asker) \/ died # {} \/ up # Node)
=============================================================================
