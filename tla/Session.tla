------------------------------- MODULE Session -------------------------------
(***************************************************************************)
(* The two processes of a servent.  main() forks: the parent is the        *)
(* client, which reads the user's commands (src/client.c), the child is    *)
(* the server (src/server.c).  They speak over a loopback connection that  *)
(* begins with a handshake, and end each other: by CMSG_INT_EXIT, by       *)
(* SIGINT, by waitpid().                                                   *)
(*                                                                         *)
(* On the same machine there may be other processes that connect to the    *)
(* same port: the client of a second servent whose server could not have   *)
(* the port, or a servent that wants to join through 127.0.0.1.  The       *)
(* server takes every loopback connection for its client's.                *)
(*                                                                         *)
(* Standard input, which the two processes share, is a terminal that stays *)
(* open, on which the user types ASCII: no byte of a line is an opcode of  *)
(* a client.                                                               *)
(*                                                                         *)
(* The server goes through loop() in turns.  It is                         *)
(*   "boot", "join"     before the loop, SIGINT being fatal                *)
(*   "accept"           at the condition of the loop, or in attempt_accept *)
(*   "shake"            in the read() of handshake()                       *)
(*   "neighbour"        in handle_neighbours                               *)
(*   "client"           in handle_client                                   *)
(*   "serve"            in handle_pending_requests, with requests left     *)
(*   "leave"            after the loop                                     *)
(*   "stuck"            in read() on a socket that has nothing to read:    *)
(*                      SIGINT made poll() return -1, which is not 0       *)
(*   "gone"                                                                *)
(* and a client process                                                    *)
(*   "connect", "shake" before its loop                                    *)
(*   "prompt"           waiting for a line                                 *)
(*   "listen", "quit"   in handle_servent, after a command, after exit     *)
(*   "clear"            in clear_client                                    *)
(*   "wait"             in waitpid()                                       *)
(*   "gone"                                                                *)
(***************************************************************************)
EXTENDS Network

CONSTANTS Server,      \* the server process,
          Own,         \* the client process it was forked from,
          Others,      \* other local processes that connect to it,
          Far,         \* and the neighbour on another machine
          MaxAttempts, \* MAX_SERVER_UP_CHECK
          MaxRequests  \* bound: requests the users type, to all clients together

ASSUME SessionAssumption ==
    /\ Node = {Server, Own, Far} \cup Others
    /\ Server # Own /\ Server # Far /\ Own # Far /\ {Server, Own, Far} \cap Others = {}
    /\ MaxAttempts \in Nat \ {0}
    /\ MaxRequests \in Nat

Client == {Own} \cup Others
\* What a user types: a search or a download, "exit", anything else.  A request becomes a
\* packet for the server, and is answered with one; what searches and downloads come to is
\* in Search and Transfer.
Line == {"request", "exit", "other"}
Packet == {"CMSG_INT_HANDSHAKE", "SMSG_INT_HANDSHAKE", "CMSG_NEIGHBOURS", "CMSG_INT_EXIT",
           "request", "answer", "CMSG_LEAVE"}

VARIABLES
    net,
    client,  \* where each client process is
    conn,    \* its connection to the server
    tries,   \* failed attempts of attempt_connect_to
    input,   \* lines typed and not read yet
    typed,   \* how many requests have been typed
    server,  \* where the server is
    backlog, \* connections not accepted yet
    client_socket, handshake,  \* server_t
    neighbour,  \* the socket to its neighbour: server_t.neighbours
    pending, \* how many requests of the client are in server_t.pending_requests
    away,    \* ... and in other servents
    _loop,
    reads,   \* the socket of the read() a stuck server is in
    ending   \* how the server ended

clientVars == <<client, conn, tries, input, typed>>
queueVars == <<pending, away>>
serverVars == <<server, backlog, client_socket, handshake, neighbour, queueVars, _loop, reads,
                ending>>
vars == <<net, clientVars, serverVars>>

Stdin == NoSock     \* the 0 client_socket starts with

Init ==
    /\ net = EmptyNet
    /\ client = [c \in Client |-> "connect"]
    /\ conn = [c \in Client |-> NoSock]
    /\ tries = [c \in Client |-> 0]
    /\ input = [c \in Client |-> << >>]
    /\ typed = 0
    /\ server = "boot"
    /\ backlog = << >>
    /\ client_socket = Stdin
    /\ handshake = FALSE
    /\ neighbour = NoSock
    /\ pending = 0 /\ away = 0
    /\ _loop = TRUE
    /\ reads = NoSock
    /\ ending = "not yet"

\* poll() has nothing to report of the socket.
IsQuiet(s) == net.inbox[s] = << >> /\ Peer(s) \in net.open

IsListening == server \notin {"boot", "gone"}

-----------------------------------------------------------------------------
(* The ends of processes.                                                  *)

\* The kernel closes what the processes of P have open.
After(network, P) == CloseAll(network, UNION {HostedBy(network, p) : p \in P})

ClientGone(c) ==
    /\ client' = [client EXCEPT ![c] = "gone"]
    /\ conn' = [conn EXCEPT ![c] = NoSock]
    /\ tries' = [tries EXCEPT ![c] = 0]
    /\ input' = [input EXCEPT ![c] = << >>]
    /\ UNCHANGED typed

\* A client process ends: it returned from main(), was killed, or crashed (a line of spaces
\* is enough, strtok() returns NULL).
ClientEnds(c) ==
    /\ client[c] # "gone"
    /\ ClientGone(c)
    /\ net' = After(net, {c})
    /\ UNCHANGED serverVars

ServerGone(how) ==
    /\ server' = "gone"
    /\ ending' = how
    /\ backlog' = << >>
    /\ reads' = NoSock
    /\ pending' = 0 /\ away' = 0
    /\ client_socket' = Stdin
    /\ handshake' = FALSE
    /\ _loop' = TRUE
    /\ UNCHANGED neighbour

\* The server ends without a word.
ServerEnds(how) ==
    /\ ServerGone(how)
    /\ net' = After(net, {Server})
    /\ UNCHANGED clientVars

\* The same, after kill(getppid(), SIGINT).
ServerEndsWithItsClient(how) ==
    /\ ServerGone(how)
    /\ net' = After(net, {Server, Own})
    /\ ClientGone(Own)

\* SIGINT arrives at the server.  Before signal() it is fatal; later it ends the loop, and
\* if it cuts short a poll() the code goes on to read().
SigintEffect ==
    \/ server = "gone" /\ UNCHANGED serverVars
    \/ server \in {"boot", "join"} /\ ServerGone("killed")
    \/ /\ server \notin {"boot", "join", "gone"}
       /\ _loop' = FALSE
       /\ server' \in {server} \cup (IF server = "accept" THEN {"leave"} ELSE {})
       /\ UNCHANGED <<backlog, client_socket, handshake, neighbour, queueVars, reads,
                      ending>>
    \/ \E s \in Socket \cup {Stdin} :
          /\ \/ server = "neighbour" /\ s = neighbour /\ s # NoSock
             \/ server = "client" /\ s = client_socket
          /\ IF s = Stdin THEN input[Own] = << >> ELSE IsQuiet(s)
          /\ _loop' = FALSE
          /\ server' = "stuck"
          /\ reads' = s
          /\ UNCHANGED <<backlog, client_socket, handshake, neighbour, queueVars, ending>>

\* What of the server's does not survive SIGINT.
NetAfterSigint(network) == IF server' = "gone" THEN After(network, {Server}) ELSE network

-----------------------------------------------------------------------------
(* main() and src/client.c.                                                *)

\* handle_argv finds a mistake; the parent's test is followed by kill(server_pid, SIGINT).
ClientArgvFails ==
    /\ client[Own] = "connect" /\ tries[Own] = 0
    /\ ClientGone(Own)
    /\ SigintEffect
    /\ net' = NetAfterSigint(net)

\* The first packet: that of handshake(), or that of a servent that joins.
Greetings(c) == IF c = Own THEN {"CMSG_INT_HANDSHAKE"}
                ELSE {"CMSG_INT_HANDSHAKE", "CMSG_NEIGHBOURS"}

\* connect_to succeeds, and handshake() writes its packet.
Connects(c) ==
    /\ client[c] = "connect"
    /\ IsListening
    /\ \E k \in Conn, greeting \in Greetings(c) :
          /\ NextConn(net, k)
          /\ net' = Dial(net, k, c, Server, greeting)
          /\ conn' = [conn EXCEPT ![c] = Caller(k)]
          /\ backlog' = Append(backlog, Callee(k))
    /\ client' = [client EXCEPT ![c] = "shake"]
    /\ tries' = [tries EXCEPT ![c] = 0]
    /\ UNCHANGED <<input, typed, server, client_socket, handshake, neighbour, queueVars,
                   _loop, reads, ending>>

\* It fails, which attempt_connect_to bears with for a while.  run_client then returns
\* EXIT_FAILURE, which is not the -1 main() looks for: it goes on to waitpid().
CannotConnect(c) ==
    /\ client[c] = "connect"
    /\ ~IsListening
    /\ tries' = [tries EXCEPT ![c] = @ + 1]
    /\ IF tries'[c] = MaxAttempts THEN client' = [client EXCEPT ![c] = "wait"]
                                  ELSE UNCHANGED client
    /\ UNCHANGED <<net, conn, input, typed, serverVars>>

\* handshake() reads the server's answer.
Shaken(c) ==
    /\ client[c] = "shake"
    /\ net.inbox[conn[c]] # << >>
    /\ net' = Receive(net, conn[c])
    /\ client' = [client EXCEPT ![c] = "prompt"]
    /\ UNCHANGED <<conn, tries, input, typed, serverVars>>

\* There is no answer, and handshake() returns -1: the client stops its server.  The server
\* of another process is not this one.
NotShaken(c) ==
    /\ client[c] = "shake"
    /\ AtEof(net, conn[c])
    /\ ClientGone(c)
    /\ IF c = Own THEN SigintEffect ELSE UNCHANGED serverVars
    /\ net' = NetAfterSigint(After(net, {c}))

\* A user types a line, at any time, the next one when it has been read.  Nobody else reads
\* what the users of other clients type, so theirs can as well be typed at the prompt.
Types(c, line) ==
    /\ client[c] \notin {"quit", "clear", "wait", "gone"}
    /\ c # Own => client[c] = "prompt"
    /\ input[c] = << >>
    /\ line = "request" => typed < MaxRequests
    /\ typed' = IF line = "request" THEN typed + 1 ELSE typed
    /\ input' = [input EXCEPT ![c] = Append(@, line)]
    /\ UNCHANGED <<net, client, conn, tries, serverVars>>

\* write_to_fd; SIGPIPE ends a client that writes a second time after its server has gone.
DiesWriting(c) ==
    /\ conn[c] \in net.broken
    /\ ClientGone(c)
    /\ net' = After(net, {c})

\* One turn of loop(): read_command and handle_command.  An empty line is not followed by
\* handle_servent.
Commands(c) ==
    /\ client[c] = "prompt"
    /\ input[c] # << >>
    /\ \/ /\ \/ /\ Head(input[c]) = "request"
                /\ net' = SendAll(net, {conn[c]}, "request")
                /\ client' = [client EXCEPT ![c] = "listen"]
             \/ /\ Head(input[c]) = "exit"
                /\ client' = [client EXCEPT ![c] = "quit"]
                /\ UNCHANGED net
             \/ /\ Head(input[c]) = "other"
                /\ \E next \in {"prompt", "listen"} : client' = [client EXCEPT ![c] = next]
                /\ UNCHANGED net
          /\ input' = [input EXCEPT ![c] = Tail(@)]
          /\ UNCHANGED <<conn, tries, typed>>
       \/ Head(input[c]) = "request" /\ DiesWriting(c)
    /\ UNCHANGED serverVars

AfterListening(c) == IF client[c] = "quit" THEN "clear" ELSE "prompt"

\* handle_servent reads at most one answer, whatever the command was.  An end of file is
\* not noticed.
Listens(c) ==
    /\ client[c] \in {"listen", "quit"}
    /\ client' = [client EXCEPT ![c] = AfterListening(c)]
    /\ net' = IF net.inbox[conn[c]] = << >> THEN net ELSE Receive(net, conn[c])
    /\ UNCHANGED <<conn, tries, input, typed, serverVars>>

\* Faulty variant: close() without the exit packet.
ClearsSilently(c) ==
    /\ client[c] = "clear"
    /\ client' = [client EXCEPT ![c] = "wait"]
    /\ net' = After(net, {c})
    /\ UNCHANGED <<conn, tries, input, typed, serverVars>>

\* clear_client: the exit packet, then close().
Clears(c) ==
    /\ client[c] = "clear"
    /\ \/ /\ client' = [client EXCEPT ![c] = "wait"]
          /\ net' = After(SendAll(net, {conn[c]}, "CMSG_INT_EXIT"), {c})
          /\ UNCHANGED <<conn, tries, input, typed>>
       \/ DiesWriting(c)
    /\ UNCHANGED serverVars

\* waitpid() returns.  The server of another client ended when it could not have the port.
Waits(c) ==
    /\ client[c] = "wait"
    /\ c = Own => server = "gone"
    /\ ClientGone(c)
    /\ UNCHANGED <<net, serverVars>>

-----------------------------------------------------------------------------
(* The beginning of the server.                                            *)

\* handle_argv finds a mistake.
ServerArgvFails == server = "boot" /\ ServerEndsWithItsClient("bad arguments")

Listen ==
    /\ server = "boot"
    /\ server' \in {"join", "accept"}   \* the first machine does not join
    /\ UNCHANGED <<net, clientVars, backlog, client_socket, handshake, neighbour, queueVars,
                   _loop, reads, ending>>

\* There is no socket to listen on, or no neighbour: exit().
StartFails == server \in {"boot", "join"} /\ ServerEnds("not started")

\* join_network has got a neighbour.
Join ==
    /\ server = "join"
    /\ server' = "accept"
    /\ \E k \in Conn :
          /\ NextConn(net, k)
          /\ net' = Receive(Dial(net, k, Server, Far, "CMSG_NEIGHBOURS"), Callee(k))
          /\ neighbour' = Caller(k)
    /\ UNCHANGED <<clientVars, backlog, client_socket, handshake, queueVars, _loop, reads,
                   ending>>

-----------------------------------------------------------------------------
(* A turn of loop().                                                       *)

Goes(next) == /\ server' = next
              /\ reads' = NoSock
              /\ UNCHANGED ending

\* handle_neighbours is next, if there is a neighbour to handle.
GoesToNeighbours == Goes(IF neighbour = NoSock THEN "client" ELSE "neighbour")

\* The rest of the turn: requests are served if there is a neighbour; while (_loop == 1).
EndsTurn(requests, goOn) ==
    /\ Goes(IF neighbour # NoSock /\ requests > 0 THEN "serve"
            ELSE IF goOn THEN "accept" ELSE "leave")
    /\ pending' = requests
    /\ _loop' = goOn

\* Faulty variant: the socket of the client is set before the test.
AcceptSettingSocket ==
    /\ server = "accept"
    /\ \/ backlog = << >> /\ GoesToNeighbours /\ UNCHANGED <<backlog, client_socket>>
       \/ /\ backlog # << >>
          /\ backlog' = Tail(backlog)
          /\ client_socket' = Head(backlog)
          /\ IF handshake THEN GoesToNeighbours ELSE Goes("shake")
    /\ UNCHANGED <<net, clientVars, handshake, neighbour, queueVars, _loop>>

\* attempt_accept and handle_accept_result.  Once the handshake is done a loopback
\* connection is accepted and left alone, HANDSHAKE_ALREADY_SHAKED.
Accept ==
    /\ server = "accept"
    /\ \/ backlog = << >> /\ GoesToNeighbours /\ UNCHANGED <<backlog, client_socket>>
       \/ /\ backlog # << >>
          /\ backlog' = Tail(backlog)
          /\ IF handshake
             THEN GoesToNeighbours /\ UNCHANGED client_socket
             ELSE Goes("shake") /\ client_socket' = Head(backlog)
    /\ UNCHANGED <<net, clientVars, handshake, neighbour, queueVars, _loop>>

\* Faulty variant: the answer is forgotten.
ShakeOkUnanswered ==
    /\ server = "shake"
    /\ net.inbox[client_socket] # << >>
    /\ Head(net.inbox[client_socket]) = "CMSG_INT_HANDSHAKE"
    /\ net' = Receive(net, client_socket)
    /\ handshake' = TRUE
    /\ GoesToNeighbours
    /\ UNCHANGED <<clientVars, backlog, client_socket, neighbour, queueVars, _loop>>

\* The read() of handshake() returns CMSG_INT_HANDSHAKE, or nothing and the opcode happens
\* to be that one.
ShakeOk ==
    /\ server = "shake"
    /\ \/ /\ net.inbox[client_socket] # << >>
          /\ Head(net.inbox[client_socket]) = "CMSG_INT_HANDSHAKE"
          /\ net' = SendAll(Receive(net, client_socket), {client_socket}, "SMSG_INT_HANDSHAKE")
       \/ /\ AtEof(net, client_socket)
          /\ net' = SendAll(net, {client_socket}, "SMSG_INT_HANDSHAKE")
    /\ handshake' = TRUE
    /\ GoesToNeighbours
    /\ UNCHANGED <<clientVars, backlog, client_socket, neighbour, queueVars, _loop>>

\* HANDSHAKE_BAD_OPCODE.
ShakeBad ==
    /\ server = "shake"
    /\ \/ /\ net.inbox[client_socket] # << >>
          /\ Head(net.inbox[client_socket]) # "CMSG_INT_HANDSHAKE"
       \/ AtEof(net, client_socket)
    /\ ServerEndsWithItsClient("bad opcode")

\* An answer from the network goes to the client; SIGPIPE as for the client.
TellsClient(network) ==
    \/ /\ net' = SendAll(network, {client_socket}, "answer")
       /\ Goes("client")
       /\ away' = away - 1
       /\ UNCHANGED <<backlog, client_socket, handshake, neighbour, pending, _loop, clientVars>>
    \/ client_socket \in network.broken /\ ServerEnds("SIGPIPE")

\* The server is in the handler of this socket, in poll() or already in read().
IsAt(handler, s) == server = handler \/ (server = "stuck" /\ reads = s)

\* handle_neighbours.  At the end of file the opcode is any, CMSG_LEAVE too.
ReadNeighbour ==
    /\ neighbour # NoSock
    /\ IsAt("neighbour", neighbour)
    /\ \/ /\ net.inbox[neighbour] # << >>
          /\ Head(net.inbox[neighbour]) = "answer"
          /\ TellsClient(Receive(net, neighbour))
       \/ /\ \/ net.inbox[neighbour] # << >> /\ Head(net.inbox[neighbour]) = "CMSG_LEAVE"
             \/ AtEof(net, neighbour)
          /\ net' = CloseAll(net, {neighbour})
          /\ neighbour' = NoSock
          /\ Goes("client")
          /\ UNCHANGED <<clientVars, backlog, client_socket, handshake, queueVars, _loop>>
       \/ /\ AtEof(net, neighbour)
          /\ Goes("client")
          /\ UNCHANGED <<net, clientVars, backlog, client_socket, handshake, neighbour,
                         queueVars, _loop>>

SkipNeighbour ==
    /\ server = "neighbour"
    /\ IsQuiet(neighbour)
    /\ Goes("client")
    /\ UNCHANGED <<net, clientVars, backlog, client_socket, handshake, neighbour, queueVars,
                   _loop>>

\* A byte of the user's next line is read as an opcode, which it is not.  The line is
\* spoilt, or it was the last byte of it.
StealsInput ==
    /\ input[Own] # << >>
    /\ \/ input' = [input EXCEPT ![Own] = Tail(@)]
       \/ input' = [input EXCEPT ![Own] = <<"other">> \o Tail(@)]
    /\ UNCHANGED <<net, client, conn, tries, typed>>

\* Faulty variant: the result of handle_client is dropped, as that of handle_neighbours is.
HeedsExitDropped(network) ==
    /\ net' = IF neighbour = NoSock THEN network
              ELSE SendAll(network, {neighbour}, "CMSG_LEAVE")
    /\ EndsTurn(pending, _loop)
    /\ UNCHANGED <<clientVars, backlog, client_socket, handshake, neighbour, away>>

\* CMSG_INT_EXIT: leave_network, and the loop is to end after this turn.
HeedsExit(network) ==
    \/ /\ net' = IF neighbour = NoSock THEN network
                 ELSE SendAll(network, {neighbour}, "CMSG_LEAVE")
       /\ EndsTurn(pending, FALSE)
       /\ UNCHANGED <<clientVars, backlog, client_socket, handshake, neighbour, away>>
    \/ neighbour \in network.broken /\ ServerEnds("SIGPIPE")

HeedsRequest(network) ==
    /\ net' = network
    /\ EndsTurn(pending + 1, _loop)
    /\ UNCHANGED <<clientVars, backlog, client_socket, handshake, neighbour, away>>

\* handle_client, after poll() has not returned 0.  At the end of file the opcode is any.
ReadClient ==
    /\ IsAt("client", client_socket)
    /\ \/ /\ client_socket = Stdin
          /\ StealsInput
          /\ EndsTurn(pending, _loop)
          /\ UNCHANGED <<backlog, client_socket, handshake, neighbour, away>>
       \/ /\ client_socket # Stdin /\ net.inbox[client_socket] # << >>
          /\ LET rest == Receive(net, client_socket)
             IN  \/ Head(net.inbox[client_socket]) = "request" /\ HeedsRequest(rest)
                 \/ Head(net.inbox[client_socket]) = "CMSG_INT_EXIT" /\ HeedsExit(rest)
       \/ /\ client_socket # Stdin /\ AtEof(net, client_socket)
          /\ \/ HeedsExit(net)
             \/ pending + away < MaxRequests /\ HeedsRequest(net)
             \/ /\ EndsTurn(pending, _loop)
                /\ UNCHANGED <<net, clientVars, backlog, client_socket, handshake, neighbour, away>>

SkipClient ==
    /\ server = "client"
    /\ IF client_socket = Stdin THEN input[Own] = << >> ELSE IsQuiet(client_socket)
    /\ EndsTurn(pending, _loop)
    /\ UNCHANGED <<net, clientVars, backlog, client_socket, handshake, neighbour, away>>

\* Faulty variant: the request is not taken from the list.
ServeKeeping ==
    /\ server = "serve"
    /\ \/ net' = SendAll(net, {client_socket}, "answer") /\ UNCHANGED away
       \/ net' = SendAll(net, {neighbour}, "request") /\ away' = away + 1
    /\ EndsTurn(pending, _loop)
    /\ UNCHANGED <<clientVars, backlog, client_socket, handshake, neighbour>>

\* handle_pending_requests: a request is answered at once, or goes to the neighbour.
Serve ==
    /\ server = "serve"
    /\ \/ net' = SendAll(net, {client_socket}, "answer") /\ UNCHANGED away
       \/ net' = SendAll(net, {neighbour}, "request") /\ away' = away + 1
    /\ EndsTurn(pending - 1, _loop)
    /\ UNCHANGED <<clientVars, backlog, client_socket, handshake, neighbour>>

ServeDies ==
    /\ server = "serve"
    /\ {client_socket, neighbour} \cap net.broken # {}
    /\ ServerEnds("SIGPIPE")

\* Faulty variant: clear_server without leave_network.
LeaveSilently ==
    /\ server = "leave"
    /\ ServerEnds("in order")

\* After the loop: leave_network and clear_server.
Leave ==
    /\ server = "leave"
    /\ \/ /\ net' = After(IF neighbour = NoSock THEN net
                          ELSE SendAll(net, {neighbour}, "CMSG_LEAVE"), {Server})
          /\ ServerGone("in order")
          /\ UNCHANGED clientVars
       \/ neighbour \in net.broken /\ ServerEnds("SIGPIPE")

-----------------------------------------------------------------------------
(* What happens to them.                                                   *)

\* kill(), or a part of the system that is not modelled here, ends the server.
Sigint ==
    /\ server # "gone"
    /\ SigintEffect
    /\ net' = NetAfterSigint(net)
    /\ UNCHANGED clientVars

\* Ctrl-C reaches both processes; the client does not handle it.
CtrlC ==
    /\ client[Own] # "gone"
    /\ ClientGone(Own)
    /\ SigintEffect
    /\ net' = NetAfterSigint(After(net, {Own}))

\* The neighbour answers a question, ...
FarAnswers(s) ==
    /\ net.inbox[s] # << >> /\ Head(net.inbox[s]) = "request"
    /\ net' = SendAll(Receive(net, s), {s}, "answer")
    /\ UNCHANGED <<clientVars, serverVars>>

\* ... leaves, or is killed.
FarEnds(s) ==
    /\ net' \in {After(net, {Far}), After(SendAll(net, {s}, "CMSG_LEAVE"), {Far})}
    /\ UNCHANGED <<clientVars, serverVars>>

-----------------------------------------------------------------------------
ClientStep(c) == \/ Connects(c) \/ CannotConnect(c) \/ Shaken(c) \/ NotShaken(c)
                 \/ Commands(c) \/ Listens(c) \/ Clears(c) \/ Waits(c)

Turn == \/ Accept \/ ShakeOk \/ ShakeBad \/ ReadNeighbour \/ SkipNeighbour
        \/ ReadClient \/ SkipClient \/ Serve \/ ServeDies \/ Leave

Start == Listen \/ Join \/ StartFails

Next ==
    \/ \E c \in Client : ClientStep(c) \/ ClientEnds(c)
    \/ \E c \in Client, line \in Line \ {"other"} : Types(c, line)
    \/ Start \/ Turn
    \/ ClientArgvFails \/ ServerArgvFails \/ Sigint \/ CtrlC
    \/ \E s \in HostedBy(net, Far) : FarAnswers(s) \/ FarEnds(s)

Spec == Init /\ [][Next]_vars

\* The processes run.  Users need not type, joins need not end, and nothing makes signals
\* and deaths happen.
Fairness == WF_vars(Turn) /\ \A c \in Client : WF_vars(ClientStep(c))

FairSpec == Spec /\ Fairness

-----------------------------------------------------------------------------
ServerAt == {"boot", "join", "accept", "shake", "neighbour", "client", "serve", "leave", "stuck", "gone"}
ClientAt == {"connect", "shake", "prompt", "listen", "quit", "clear", "wait", "gone"}
Ending == {"not yet", "bad arguments", "not started", "killed", "bad opcode", "SIGPIPE",
           "in order"}

TypeOK ==
    /\ net \in [open : SUBSET Socket, host : [Socket -> Node \cup {NoNode}],
                inbox : [Socket -> Seq(Packet)], broken : SUBSET Socket]
    /\ client \in [Client -> ClientAt]
    /\ conn \in [Client -> Socket \cup {NoSock}]
    /\ tries \in [Client -> 0 .. MaxAttempts]
    /\ input \in [Client -> Seq(Line)]
    /\ typed \in 0 .. MaxRequests
    /\ server \in ServerAt
    /\ \A k \in DOMAIN backlog : backlog[k] \in HostedBy(net, Server)
    /\ client_socket \in Socket \cup {Stdin}
    /\ handshake \in BOOLEAN
    /\ neighbour \in Socket \cup {NoSock}
    /\ server # "gone" => {client_socket, neighbour} \subseteq HostedBy(net, Server) \cup {NoSock}
    /\ pending \in 0 .. 2 * MaxRequests /\ away \in 0 .. 2 * MaxRequests
    /\ _loop \in BOOLEAN
    /\ reads \in Socket \cup {NoSock}
    /\ ending \in Ending
    /\ ending = "not yet" <=> server # "gone"

-----------------------------------------------------------------------------
\* A client that got its handshake and the server mean each other by it.
AgreeOnSession ==
    \A c \in Client :
       client[c] \in {"prompt", "listen", "quit", "clear"} /\ server # "gone"
          => handshake /\ client_socket = Peer(conn[c])

\* Whatever ends a servent that has a neighbour, the neighbour is told, unless SIGPIPE or
\* the handshake of a stranger ends it.
EndsAreAnnounced ==
    server = "gone" /\ neighbour # NoSock /\ Peer(neighbour) \in net.open
       => \/ \E k \in DOMAIN net.inbox[Peer(neighbour)] :
                net.inbox[Peer(neighbour)][k] = "CMSG_LEAVE"
          \/ ending \in {"SIGPIPE", "bad opcode"}

\* How many packets p wait to be read at s.
Waiting(s, p) == Cardinality({k \in DOMAIN net.inbox[s] : net.inbox[s][k] = p})

\* Requests that are typed and that their client has not read; only Own's user and the user
\* of the client that has the session can type.
IsTyped(c) == input[c] # << >> /\ Head(input[c]) = "request"
Unread == (IF IsTyped(Own) THEN 1 ELSE 0) + (IF \E c \in Others : IsTyped(c) THEN 1 ELSE 0)

\* A request is in one place at a time: what comes back over the link has gone out over it
\* and is still expected, and the server has no request that was not typed.  When its
\* client has closed, the opcode it did not read may make up others.
RequestsAreCounted ==
    server # "gone" =>
       /\ neighbour # NoSock =>
             Waiting(neighbour, "answer") + Waiting(Peer(neighbour), "request") <= away
       /\ LET sent == IF client_socket = Stdin THEN 0 ELSE Waiting(client_socket, "request")
          IN  \/ pending + away + sent + Unread <= typed
              \/ client_socket # Stdin /\ AtEof(net, client_socket)

\* A server that is to end does, unless it is in a read() that never returns.
AskedToEnd ==
    \/ ~_loop
    \/ /\ client_socket # Stdin
       /\ \E k \in DOMAIN net.inbox[client_socket] : net.inbox[client_socket][k] = "CMSG_INT_EXIT"
StopsAreHeeded == AskedToEnd ~> (server = "gone" \/ [](server = "stuck"))

\* A handshake is answered or fails, unless the server is occupied for ever or has taken
\* another process for its client.
PassedOver(c) == handshake /\ client_socket # Peer(conn[c])
HandshakesEnd ==
    \A c \in Client :
       client[c] = "shake" ~> (client[c] # "shake" \/ [](server \in {"join", "stuck"} \/ PassedOver(c)))

\* A client that waits for its server to end does not wait for ever, unless the server is
\* stuck, or the client never reached it.
WaitsEnd ==
    client[Own] = "wait" ~> (client[Own] = "gone" \/ [](server = "stuck" \/ conn[Own] = NoSock))
=============================================================================
