---------------------------- MODULE SessionProofs ----------------------------
(***************************************************************************)
(* Proofs about Session, for any other local processes, connections and    *)
(* requests.                                                               *)
(***************************************************************************)
EXTENDS Session, SequenceTheorems, FunctionTheorems, FiniteSetTheorems, TLAPS

-----------------------------------------------------------------------------
(* The invariant.                                                          *)

\* Where a client has a connection, and where it has a session.
TalkAt == {"shake", "prompt", "listen", "quit", "clear"}
SessionAt == TalkAt \ {"shake"}

\* Ends that are closed have nothing to read.
Shape(w) ==
    /\ w.open \subseteq Socket
    /\ w.host \in [Socket -> Node \cup {NoNode}]
    /\ w.inbox \in [Socket -> Seq(Packet)]
    /\ \A s \in Socket \ w.open : w.inbox[s] = << >>

\* A client that talks has an open connection to the server.
Reaches(w, c, s) ==
    /\ s \in w.open /\ s \in Socket /\ s[2] = "caller"
    /\ w.host[s] = c /\ w.host[Peer(s)] = Server
ClientsReach == \A c \in Client : client[c] \in TalkAt => Reaches(net, c, conn[c])

\* The server has a socket for its client from the handshake on.
ServerSockets ==
    /\ backlog \in Seq(Socket)
    /\ client_socket \in Socket \cup {Stdin}
    /\ server = "shake" => client_socket # Stdin
    /\ server # "shake" /\ ~handshake => client_socket = Stdin

\* Only the client that the server takes for its own has something to read.
OthersHearNothing ==
    \A c \in Client :
       server # "gone" /\ client[c] \in TalkAt /\ net.inbox[conn[c]] # << >>
          => handshake /\ client_socket = Peer(conn[c])

SessionInv ==
    /\ client \in [Client -> ClientAt] /\ conn \in [Client -> Socket \cup {NoSock}]
    /\ ClientsReach /\ ServerSockets /\ OthersHearNothing /\ AgreeOnSession

\* The link to the neighbour, which outlives its server.
NeighbourIsFar ==
    neighbour # NoSock =>
       /\ neighbour \in Socket /\ neighbour[2] = "caller"
       /\ {neighbour, Peer(neighbour)} \cap net.open # {} => net.host[Peer(neighbour)] = Far
       /\ server # "gone" => neighbour \in HostedBy(net, Server)

NeighbourInv ==
    /\ NeighbourIsFar
    /\ server \in {"boot", "join"} => neighbour = NoSock
    /\ EndsAreAnnounced

IInv == Shape(net) /\ SessionInv /\ NeighbourInv

\* A departure is announced at the end s.
Hears(w, s) == \E k \in DOMAIN w.inbox[s] : w.inbox[s][k] = "CMSG_LEAVE"

-----------------------------------------------------------------------------
(* Connections.                                                            *)

LEMMA PeerOf ==
    ASSUME NEW s \in Socket
    PROVE  /\ Peer(s) \in Socket /\ Peer(s) # s /\ Peer(Peer(s)) = s
           /\ s[2] = "caller" <=> Peer(s)[2] # "caller"
           /\ Peer(s)[1] = s[1] /\ s[1] \in Conn
           /\ s = Caller(s[1]) \/ s = Callee(s[1])
BY DEF Caller, Callee, Socket, Side, Peer

LEMMA EndsOf ==
    ASSUME NEW k \in Conn
    PROVE  /\ Caller(k) \in Socket /\ Callee(k) \in Socket /\ Caller(k) # Callee(k)
           /\ Peer(Caller(k)) = Callee(k) /\ Peer(Callee(k)) = Caller(k)
           /\ Caller(k)[1] = k /\ Callee(k)[1] = k
           /\ Caller(k)[2] = "caller" /\ Callee(k)[2] # "caller"
BY DEF Caller, Callee, Socket, Side, Peer

LEMMA NobodysSocket == NoSock \notin Socket /\ \A s \in Socket : Peer(s) # NoSock
BY DEF NoSock, Socket, Side, Conn, Peer, Caller, Callee

LEMMA Processes == /\ Server \notin Client /\ Far \notin Client /\ Server # Far
                   /\ Own \in Client /\ Client \subseteq Node /\ Server \in Node /\ Far \in Node
BY SessionAssumption DEF Client

\* What an end hears is heard of until it is read.
LEMMA HearsAppend ==
    ASSUME NEW q \in Seq(Packet), NEW x \in Packet
    PROVE  /\ Append(q, x) \in Seq(Packet) /\ Append(q, x) # << >>
           /\ (\E k \in DOMAIN q : q[k] = "CMSG_LEAVE") \/ x = "CMSG_LEAVE"
                 => \E k \in DOMAIN Append(q, x) : Append(q, x)[k] = "CMSG_LEAVE"
<1> DEFINE longer == Append(q, x)
<1>1. /\ longer \in Seq(Packet) /\ Len(longer) = Len(q) + 1 /\ Len(q) \in Nat
      /\ \A k \in 1 .. Len(q) : longer[k] = q[k]
      /\ longer[Len(q) + 1] = x
    OBVIOUS
<1>2. DOMAIN longer = 1 .. Len(q) + 1 /\ DOMAIN q = 1 .. Len(q)
    BY <1>1, LenProperties
<1>3. longer # << >>
    BY <1>1
<1> HIDE DEF longer
<1>4. \A k \in DOMAIN q : k \in DOMAIN longer /\ longer[k] = q[k]
    BY <1>1, <1>2
<1>5. Len(q) + 1 \in DOMAIN longer
    BY <1>1, <1>2
<1> QED
    BY <1>1, <1>3, <1>4, <1>5 DEF longer

LEMMA HearsTail ==
    ASSUME NEW q \in Seq(Packet), q # << >>
    PROVE  /\ Tail(q) \in Seq(Packet)
           /\ (\E k \in DOMAIN q : q[k] = "CMSG_LEAVE") /\ Head(q) # "CMSG_LEAVE"
                 => \E k \in DOMAIN Tail(q) : Tail(q)[k] = "CMSG_LEAVE"
<1>1. /\ Len(q) \in Nat \ {0} /\ Head(q) = q[1] /\ DOMAIN q = 1 .. Len(q)
      /\ Tail(q) \in Seq(Packet) /\ Len(Tail(q)) = Len(q) - 1
      /\ \A k \in 1 .. Len(q) - 1 : Tail(q)[k] = q[k + 1]
    BY HeadTailProperties, LenProperties, EmptySeq
<1>2. DOMAIN Tail(q) = 1 .. Len(q) - 1
    BY <1>1, LenProperties
<1>3. ASSUME NEW k \in DOMAIN q, q[k] = "CMSG_LEAVE", Head(q) # "CMSG_LEAVE"
      PROVE  \E l \in DOMAIN Tail(q) : Tail(q)[l] = "CMSG_LEAVE"
  <2>1. k \in 2 .. Len(q)
      BY <1>1, <1>3
  <2>2. k - 1 \in 1 .. Len(q) - 1 /\ Tail(q)[k - 1] = q[k]
      BY <1>1, <2>1
  <2> QED
      BY <1>2, <1>3, <2>2
<1> QED
    BY <1>1, <1>3

LEMMA ReceiveOp ==
    ASSUME NEW w, Shape(w), NEW s \in Socket, w.inbox[s] # << >>
    PROVE  /\ Shape(Receive(w, s))
           /\ Receive(w, s).open = w.open /\ Receive(w, s).host = w.host
           /\ \A t \in Socket : /\ Receive(w, s).inbox[t] # << >> => w.inbox[t] # << >>
                                /\ Hears(w, t) /\ (t = s => Head(w.inbox[s]) # "CMSG_LEAVE")
                                     => Hears(Receive(w, s), t)
<1> DEFINE v == Receive(w, s)
<1>1. v.open = w.open /\ v.host = w.host /\ v.inbox = [w.inbox EXCEPT ![s] = Tail(@)]
    BY DEF Receive
<1>2. w.inbox[s] \in Seq(Packet) /\ w.inbox \in [Socket -> Seq(Packet)] /\ s \in w.open
    BY DEF Shape
<1>3. Tail(w.inbox[s]) \in Seq(Packet)
    BY <1>2, HearsTail
<1> HIDE DEF v
<1>4. /\ v.inbox \in [Socket -> Seq(Packet)]
      /\ \A t \in Socket : v.inbox[t] = IF t = s THEN Tail(w.inbox[s]) ELSE w.inbox[t]
    BY <1>1, <1>2, <1>3
<1>5. Shape(v)
    BY <1>1, <1>2, <1>4 DEF Shape
<1>6. \A t \in Socket : v.inbox[t] # << >> => w.inbox[t] # << >>
    BY <1>4
<1>7. \A t \in Socket : Hears(w, t) /\ (t = s => Head(w.inbox[s]) # "CMSG_LEAVE") => Hears(v, t)
  <2> SUFFICES ASSUME NEW t \in Socket, Hears(w, t), t = s => Head(w.inbox[s]) # "CMSG_LEAVE"
               PROVE  Hears(v, t)
      OBVIOUS
  <2>1. CASE t = s
    <3> DEFINE q == w.inbox[s]
    <3>1. v.inbox[t] = Tail(q) /\ q \in Seq(Packet) /\ q # << >> /\ Head(q) # "CMSG_LEAVE"
        BY <1>2, <1>4, <2>1
    <3>2. \E k \in DOMAIN q : q[k] = "CMSG_LEAVE"
        BY <2>1 DEF Hears
    <3> HIDE DEF q
    <3>3. \E k \in DOMAIN Tail(q) : Tail(q)[k] = "CMSG_LEAVE"
        BY <3>1, <3>2, HearsTail
    <3> QED
        BY <3>1, <3>3 DEF Hears
  <2>2. CASE t # s
      BY <1>4, <2>2 DEF Hears
  <2> QED
      BY <2>1, <2>2
<1> QED
    BY <1>1, <1>5, <1>6, <1>7 DEF v

LEMMA SendAllOp ==
    ASSUME NEW w, Shape(w), NEW S, NEW msg \in Packet
    PROVE  /\ Shape(SendAll(w, S, msg))
           /\ SendAll(w, S, msg).open = w.open /\ SendAll(w, S, msg).host = w.host
           /\ \A t \in Socket :
                 /\ SendAll(w, S, msg).inbox[t] # << >> => w.inbox[t] # << >> \/ Peer(t) \in S
                 /\ Hears(w, t) => Hears(SendAll(w, S, msg), t)
                 /\ msg = "CMSG_LEAVE" /\ t \in w.open /\ Peer(t) \in S
                      => Hears(SendAll(w, S, msg), t)
<1> DEFINE v == SendAll(w, S, msg)
<1>1. v.open = w.open /\ v.host = w.host
    BY DEF SendAll
<1>2. /\ \A t \in Socket : v.inbox[t] = IF t \in w.open /\ Peer(t) \in S
                                        THEN Append(w.inbox[t], msg) ELSE w.inbox[t]
      /\ v.inbox = [t \in Socket |-> v.inbox[t]]
    BY DEF SendAll
<1>3. \A t \in Socket : w.inbox[t] \in Seq(Packet)
    BY DEF Shape
<1> HIDE DEF v
<1>4. \A t \in Socket : v.inbox[t] \in Seq(Packet)
    BY <1>2, <1>3, HearsAppend
<1>5. v.inbox \in [Socket -> Seq(Packet)]
    BY <1>2, <1>4
<1>6. Shape(v)
    BY <1>1, <1>2, <1>5 DEF Shape
<1>7. \A t \in Socket : v.inbox[t] # << >> => w.inbox[t] # << >> \/ Peer(t) \in S
    BY <1>2
<1>8. \A t \in Socket : /\ Hears(w, t) => Hears(v, t)
                        /\ msg = "CMSG_LEAVE" /\ t \in w.open /\ Peer(t) \in S => Hears(v, t)
  <2> TAKE t \in Socket
  <2>1. CASE t \in w.open /\ Peer(t) \in S
    <3> DEFINE q == w.inbox[t]
    <3>1. v.inbox[t] = Append(q, msg) /\ q \in Seq(Packet)
        BY <1>2, <1>3, <2>1
    <3>2. Hears(w, t) <=> \E k \in DOMAIN q : q[k] = "CMSG_LEAVE"
        BY DEF Hears
    <3> HIDE DEF q
    <3>3. Hears(w, t) \/ msg = "CMSG_LEAVE"
             => \E k \in DOMAIN Append(q, msg) : Append(q, msg)[k] = "CMSG_LEAVE"
        BY <3>1, <3>2, HearsAppend
    <3> QED
        BY <3>1, <3>3 DEF Hears
  <2>2. CASE ~(t \in w.open /\ Peer(t) \in S)
      BY <1>2, <2>2 DEF Hears
  <2> QED
      BY <2>1, <2>2
<1> QED
    BY <1>1, <1>6, <1>7, <1>8 DEF v

LEMMA CloseAllOp ==
    ASSUME NEW w, Shape(w), NEW S
    PROVE  /\ Shape(CloseAll(w, S))
           /\ CloseAll(w, S).open = w.open \ S
           /\ \A t \in w.open \ S : /\ CloseAll(w, S).host[t] = w.host[t]
                                    /\ CloseAll(w, S).host[Peer(t)] = w.host[Peer(t)]
           /\ \A t \in Socket : /\ CloseAll(w, S).inbox[t] # << >> => w.inbox[t] # << >>
                                /\ t \notin S => CloseAll(w, S).inbox[t] = w.inbox[t]
<1> DEFINE v == CloseAll(w, S)
<1>1. v.open = w.open \ S
    BY DEF CloseAll
<1>2. /\ \A t \in Socket : v.inbox[t] = IF t \in S THEN << >> ELSE w.inbox[t]
      /\ v.inbox = [t \in Socket |-> v.inbox[t]]
    BY DEF CloseAll
<1>3. /\ \A t \in Socket : v.host[t] = IF {t, Peer(t)} \cap (w.open \ S) = {} THEN NoNode ELSE w.host[t]
      /\ v.host = [t \in Socket |-> v.host[t]]
    BY DEF CloseAll
<1> HIDE DEF v
<1>4. v.inbox \in [Socket -> Seq(Packet)]
  <2>1. << >> \in Seq(Packet)
      OBVIOUS
  <2>2. \A t \in Socket : v.inbox[t] \in Seq(Packet)
      BY <1>2, <2>1 DEF Shape
  <2> QED
      BY <1>2, <2>2
<1>5. v.host \in [Socket -> Node \cup {NoNode}]
  <2>1. \A t \in Socket : v.host[t] \in Node \cup {NoNode}
      BY <1>3 DEF Shape
  <2> QED
      BY <1>3, <2>1
<1>6. Shape(v)
    BY <1>1, <1>2, <1>4, <1>5 DEF Shape
<1>7. \A t \in w.open \ S : v.host[t] = w.host[t] /\ v.host[Peer(t)] = w.host[Peer(t)]
  <2> TAKE t \in w.open \ S
  <2>1. t \in Socket /\ Peer(t) \in Socket /\ Peer(Peer(t)) = t
      BY PeerOf DEF Shape
  <2> QED
      BY <1>3, <2>1
<1> QED
    BY <1>1, <1>2, <1>6, <1>7 DEF v

LEMMA DialOp ==
    ASSUME NEW w, Shape(w), NEW k \in Conn, IsFree(w, k), NEW from \in Node, NEW to \in Node,
           NEW msg \in Packet
    PROVE  /\ Shape(Dial(w, k, from, to, msg))
           /\ Dial(w, k, from, to, msg).open = w.open \cup {Caller(k), Callee(k)}
           /\ Dial(w, k, from, to, msg).host[Caller(k)] = from
           /\ Dial(w, k, from, to, msg).host[Callee(k)] = to
           /\ \A t \in w.open : /\ t # Caller(k) /\ t # Callee(k)
                                /\ Dial(w, k, from, to, msg).host[t] = w.host[t]
                                /\ Dial(w, k, from, to, msg).host[Peer(t)] = w.host[Peer(t)]
           /\ Dial(w, k, from, to, msg).inbox[Caller(k)] = << >>
           /\ Dial(w, k, from, to, msg).inbox[Callee(k)] = <<msg>>
           /\ \A t \in Socket \ {Callee(k)} : Dial(w, k, from, to, msg).inbox[t] = w.inbox[t]
<1> DEFINE v == Dial(w, k, from, to, msg)
<1>1. /\ v.open = w.open \cup {Caller(k), Callee(k)}
      /\ v.host = [w.host EXCEPT ![Caller(k)] = from, ![Callee(k)] = to]
      /\ v.inbox = [w.inbox EXCEPT ![Callee(k)] = <<msg>>]
    BY DEF Dial
<1>2. /\ Caller(k) \in Socket /\ Callee(k) \in Socket /\ Caller(k) # Callee(k)
      /\ Caller(k) \notin w.open /\ Callee(k) \notin w.open
      /\ Peer(Caller(k)) = Callee(k) /\ Peer(Callee(k)) = Caller(k)
    BY EndsOf DEF IsFree
<1>3. /\ <<msg>> \in Seq(Packet)
      /\ w.host \in [Socket -> Node \cup {NoNode}] /\ w.inbox \in [Socket -> Seq(Packet)]
    BY DEF Shape
<1> HIDE DEF v
<1>4. /\ v.host \in [Socket -> Node \cup {NoNode}]
      /\ \A t \in Socket : v.host[t] = IF t = Caller(k) THEN from ELSE IF t = Callee(k) THEN to
                                       ELSE w.host[t]
  <2> DEFINE one == [w.host EXCEPT ![Caller(k)] = from]
  <2>1. /\ one \in [Socket -> Node \cup {NoNode}]
        /\ \A t \in Socket : one[t] = IF t = Caller(k) THEN from ELSE w.host[t]
      BY <1>2, <1>3
  <2>2. v.host = [one EXCEPT ![Callee(k)] = to]
      BY <1>1
  <2> HIDE DEF one
  <2> QED
      BY <1>2, <2>1, <2>2
<1>5. /\ v.inbox \in [Socket -> Seq(Packet)]
      /\ \A t \in Socket : v.inbox[t] = IF t = Callee(k) THEN <<msg>> ELSE w.inbox[t]
    BY <1>1, <1>2, <1>3
<1>6. Shape(v)
    BY <1>1, <1>2, <1>4, <1>5 DEF Shape
<1>7. \A t \in w.open : t # Caller(k) /\ t # Callee(k)
                        /\ v.host[t] = w.host[t] /\ v.host[Peer(t)] = w.host[Peer(t)]
  <2> TAKE t \in w.open
  <2>1. t \in Socket /\ Peer(t) \in Socket /\ Peer(Peer(t)) = t
      BY PeerOf DEF Shape
  <2>2. t # Caller(k) /\ t # Callee(k) /\ Peer(t) # Caller(k) /\ Peer(t) # Callee(k)
      BY <1>2, <2>1
  <2> QED
      BY <1>4, <2>1, <2>2
<1>8. v.inbox[Caller(k)] = << >>
    BY <1>2, <1>5 DEF Shape
<1> QED
    BY <1>1, <1>2, <1>4, <1>5, <1>6, <1>7, <1>8 DEF v

-----------------------------------------------------------------------------
(* How the network goes from one state to the next.                        *)

\* The ends of C are closed, those of R read, and those of S write.
Evolves(w, v, C, R, S) ==
    /\ Shape(v)
    /\ w.open \ C \subseteq v.open
    /\ \A t \in w.open \cap v.open :
          /\ v.host[t] = w.host[t] /\ v.host[Peer(t)] = w.host[Peer(t)]
          /\ v.inbox[t] # << >> => w.inbox[t] # << >> \/ Peer(t) \in S
          /\ Hears(w, t) /\ t \notin R => Hears(v, t)

\* The ends the processes of P have open.
Of(w, P) == UNION {HostedBy(w, p) : p \in P}

LEMMA Stays ==
    ASSUME NEW w, Shape(w)
    PROVE  Evolves(w, w, {}, {}, {})
BY DEF Evolves

LEMMA Compose ==
    ASSUME NEW w, NEW v, NEW x, NEW C, NEW D, NEW Q, NEW R, NEW S, NEW T,
           Evolves(w, v, C, Q, S), Evolves(v, x, D, R, T), x.open \subseteq v.open
    PROVE  Evolves(w, x, C \cup D, Q \cup R, S \cup T)
BY DEF Evolves

LEMMA Widen ==
    ASSUME NEW w, NEW v, NEW C, NEW D, NEW R, NEW S, Evolves(w, v, C, R, S), C \subseteq D
    PROVE  Evolves(w, v, D, R, S)
BY DEF Evolves

LEMMA ReceiveEvolves ==
    ASSUME NEW w, Shape(w), NEW s \in Socket, w.inbox[s] # << >>
    PROVE  /\ Receive(w, s).open = w.open /\ Receive(w, s).host = w.host
           /\ Evolves(w, Receive(w, s), {}, {s}, {})
           /\ Head(w.inbox[s]) # "CMSG_LEAVE" => Evolves(w, Receive(w, s), {}, {}, {})
<1> DEFINE v == Receive(w, s)
<1>1. Shape(v) /\ v.open = w.open /\ v.host = w.host
    BY ReceiveOp
<1>2. \A t \in Socket : v.inbox[t] # << >> => w.inbox[t] # << >>
    BY ReceiveOp
<1>3. \A t \in Socket : Hears(w, t) /\ (t = s => Head(w.inbox[s]) # "CMSG_LEAVE") => Hears(v, t)
    BY ReceiveOp
<1>4. w.open \subseteq Socket
    BY DEF Shape
<1> HIDE DEF v
<1>5. Evolves(w, v, {}, {s}, {})
    BY <1>1, <1>2, <1>3, <1>4 DEF Evolves
<1>6. ASSUME Head(w.inbox[s]) # "CMSG_LEAVE"
      PROVE  Evolves(w, v, {}, {}, {})
    BY <1>1, <1>2, <1>3, <1>4, <1>6 DEF Evolves
<1> QED
    BY <1>1, <1>5, <1>6 DEF v

LEMMA SendAllEvolves ==
    ASSUME NEW w, Shape(w), NEW S, NEW msg \in Packet
    PROVE  /\ SendAll(w, S, msg).open = w.open /\ SendAll(w, S, msg).host = w.host
           /\ Evolves(w, SendAll(w, S, msg), {}, {}, S)
           /\ \A t \in w.open : msg = "CMSG_LEAVE" /\ Peer(t) \in S => Hears(SendAll(w, S, msg), t)
BY SendAllOp DEF Evolves, Shape

LEMMA CloseAllEvolves ==
    ASSUME NEW w, Shape(w), NEW S
    PROVE  CloseAll(w, S).open \subseteq w.open /\ Evolves(w, CloseAll(w, S), S, {}, {})
BY CloseAllOp DEF Evolves, Shape, Hears

LEMMA AfterEvolves ==
    ASSUME NEW w, Shape(w), NEW P
    PROVE  /\ After(w, P).open = w.open \ Of(w, P)
           /\ Evolves(w, After(w, P), Of(w, P), {}, {})
BY CloseAllOp, CloseAllEvolves DEF After, Of

LEMMA DialEvolves ==
    ASSUME NEW w, Shape(w), NEW k \in Conn, IsFree(w, k), NEW from \in Node, NEW to \in Node,
           NEW msg \in Packet
    PROVE  Evolves(w, Dial(w, k, from, to, msg), {}, {}, {})
<1> DEFINE v == Dial(w, k, from, to, msg)
<1>1. \A t \in w.open : t \in Socket \ {Callee(k)} /\ v.inbox[t] = w.inbox[t]
    BY DialOp DEF Shape
<1> QED
    BY <1>1, DialOp DEF Evolves, Hears

-----------------------------------------------------------------------------
(* How the session and the link to the neighbour go on.                    *)

\* What the server's steps leave of the session.
ServerKeeps ==
    /\ server' # "gone" => server # "gone" /\ (handshake => handshake' /\ client_socket' = client_socket)
    /\ ServerSockets'

\* A client begins to wait for the handshake, or it goes on with the connection it has.
Begins(c) == client'[c] = "shake" /\ Reaches(net', c, conn'[c]) /\ net'.inbox[conn'[c]] = << >>
GoesOn(c, C, S) ==
    /\ client[c] \in TalkAt /\ conn'[c] = conn[c] /\ conn[c] \notin C
    /\ client'[c] \in SessionAt => client[c] \in SessionAt \/ net.inbox[conn[c]] # << >>
    /\ Peer(conn[c]) \in S => server' = "gone" \/ (handshake' /\ client_socket' = Peer(conn[c]))

LEMMA SessionStep ==
    ASSUME Shape(net), SessionInv, NEW C, NEW R, NEW S, Evolves(net, net', C, R, S), ServerKeeps,
           client' \in [Client -> ClientAt], conn' \in [Client -> Socket \cup {NoSock}],
           \A c \in Client : client'[c] \in TalkAt => Begins(c) \/ GoesOn(c, C, S)
    PROVE  SessionInv'
<1>1. ASSUME NEW c \in Client, client'[c] \in TalkAt, GoesOn(c, C, S)
      PROVE  /\ Reaches(net', c, conn'[c])
             /\ net'.inbox[conn'[c]] # << >> /\ server' # "gone"
                   => handshake' /\ client_socket' = Peer(conn'[c])
             /\ client'[c] \in SessionAt /\ server' # "gone"
                   => handshake' /\ client_socket' = Peer(conn'[c])
  <2>1. Reaches(net, c, conn[c]) /\ conn'[c] = conn[c] /\ conn[c] \notin C
      BY <1>1 DEF SessionInv, ClientsReach, GoesOn
  <2>2. Reaches(net', c, conn'[c])
      BY <2>1 DEF Reaches, Evolves
  <2>3. server' # "gone" /\ net.inbox[conn[c]] # << >>
           => handshake' /\ client_socket' = Peer(conn'[c])
      BY <1>1, <2>1 DEF SessionInv, OthersHearNothing, ServerKeeps, GoesOn
  <2>4. server' # "gone" /\ client[c] \in SessionAt
           => handshake' /\ client_socket' = Peer(conn'[c])
      BY <2>1 DEF SessionInv, AgreeOnSession, ServerKeeps, SessionAt, TalkAt
  <2>5. net'.inbox[conn'[c]] # << >> => net.inbox[conn[c]] # << >> \/ Peer(conn[c]) \in S
      BY <2>1, <2>2 DEF Reaches, Evolves
  <2> QED
      BY <1>1, <2>1, <2>2, <2>3, <2>4, <2>5 DEF GoesOn
<1>2. ClientsReach'
    BY <1>1 DEF ClientsReach, Begins
<1>3. OthersHearNothing'
    BY <1>1 DEF OthersHearNothing, Begins
<1>4. AgreeOnSession'
    BY <1>1 DEF AgreeOnSession, Begins, SessionAt, TalkAt
<1> QED
    BY <1>2, <1>3, <1>4 DEF SessionInv, ServerKeeps

\* What a step must tell the neighbour.
NeighbourKeeps(C, R) ==
    /\ neighbour' = neighbour
    /\ server' \in {"boot", "join"} => server \in {"boot", "join"}
    /\ server' # "gone" => server # "gone" /\ neighbour \notin C
    /\ server' = "gone" => net'.open \subseteq net.open
    /\ server = "gone" => ending' = ending /\ (neighbour # NoSock => Peer(neighbour) \notin R)
    /\ server' = "gone" /\ server # "gone" =>
          \/ neighbour = NoSock
          \/ ending' \in {"SIGPIPE", "bad opcode"}
          \/ Peer(neighbour) \in net'.open => Hears(net', Peer(neighbour))

LEMMA NeighbourStep ==
    ASSUME Shape(net), NeighbourInv, NEW C, NEW R, NEW S, Evolves(net, net', C, R, S),
           NeighbourKeeps(C, R)
    PROVE  NeighbourInv'
<1>1. CASE neighbour = NoSock
    BY <1>1 DEF NeighbourInv, NeighbourKeeps, NeighbourIsFar, EndsAreAnnounced
<1>2. CASE neighbour # NoSock
  <2>1. neighbour \in Socket /\ neighbour[2] = "caller" /\ neighbour' = neighbour
      BY <1>2 DEF NeighbourInv, NeighbourIsFar, NeighbourKeeps
  <2> DEFINE far == Peer(neighbour)
  <2>2. far \in Socket /\ Peer(far) = neighbour
      BY <2>1, PeerOf
  <2>3. CASE server' # "gone"
    <3>1. server # "gone" /\ neighbour \in net.open /\ net.host[neighbour] = Server
          /\ neighbour \notin C
        BY <1>2, <2>3 DEF NeighbourInv, NeighbourIsFar, NeighbourKeeps, HostedBy
    <3>2. /\ neighbour \in net'.open /\ net'.host[neighbour] = Server
          /\ net'.host[far] = net.host[far]
        BY <3>1 DEF Evolves
    <3>3. net.host[far] = Far
        BY <1>2, <3>1 DEF NeighbourInv, NeighbourIsFar
    <3>4. NeighbourIsFar'
        BY <2>1, <3>2, <3>3 DEF NeighbourIsFar, HostedBy
    <3> QED
        BY <1>2, <2>1, <2>3, <3>4 DEF NeighbourInv, NeighbourKeeps, EndsAreAnnounced
  <2>4. CASE server' = "gone"
    <3>1. net'.open \subseteq net.open
        BY <2>4 DEF NeighbourKeeps
    <3>2. {neighbour, far} \cap net.open # {} => net.host[far] = Far
        BY <1>2 DEF NeighbourInv, NeighbourIsFar
    <3>3. \A t \in {neighbour, far} \cap net'.open :
             t \in net.open /\ net'.host[t] = net.host[t] /\ net'.host[Peer(t)] = net.host[Peer(t)]
        BY <3>1 DEF Evolves
    <3>4. {neighbour, far} \cap net'.open # {} => net'.host[far] = Far
        BY <2>2, <3>2, <3>3
    <3>5. NeighbourIsFar'
        BY <2>1, <2>4, <3>4 DEF NeighbourIsFar
    <3>6. ASSUME far \in net'.open
          PROVE  Hears(net', far) \/ ending' \in {"SIGPIPE", "bad opcode"}
      <4>1. CASE server = "gone"
        <5>1. Hears(net, far) \/ ending \in {"SIGPIPE", "bad opcode"}
            BY <1>2, <3>1, <3>6, <4>1 DEF NeighbourInv, EndsAreAnnounced, Hears
        <5>2. ending' = ending /\ far \notin R
            BY <1>2, <4>1 DEF NeighbourKeeps
        <5>3. Hears(net, far) => Hears(net', far)
            BY <3>1, <3>6, <5>2 DEF Evolves
        <5> QED
            BY <5>1, <5>2, <5>3
      <4>2. CASE server # "gone"
          BY <1>2, <2>4, <3>6, <4>2 DEF NeighbourKeeps
      <4> QED
          BY <4>1, <4>2
    <3>7. EndsAreAnnounced'
        BY <2>1, <3>6 DEF EndsAreAnnounced, Hears
    <3> QED
        BY <2>4, <3>5, <3>7 DEF NeighbourInv
  <2> QED
      BY <2>3, <2>4
<1> QED
    BY <1>1, <1>2

LEMMA StepInv ==
    ASSUME IInv, NEW C, NEW R, NEW S, Evolves(net, net', C, R, S), ServerKeeps,
           NeighbourKeeps(C, R),
           client' \in [Client -> ClientAt], conn' \in [Client -> Socket \cup {NoSock}],
           \A c \in Client : client'[c] \in TalkAt => Begins(c) \/ GoesOn(c, C, S)
    PROVE  IInv'
<1>1. Shape(net) /\ SessionInv /\ NeighbourInv
    BY DEF IInv
<1>2. Shape(net')
    BY DEF Evolves
<1>3. SessionInv'
    BY <1>1, SessionStep
<1>4. NeighbourInv'
    BY <1>1, NeighbourStep
<1> QED
    BY <1>2, <1>3, <1>4 DEF IInv

\* The ends of the clients that talk, and those of the others.
LEMMA TheirEnds ==
    ASSUME IInv, NEW c \in Client, client[c] \in TalkAt
    PROVE  /\ Reaches(net, c, conn[c]) /\ Peer(conn[c]) # conn[c] /\ Peer(conn[c]) # NoSock
           /\ \A P : c \notin P => conn[c] \notin Of(net, P)
           /\ \A d \in Client : client[d] \in TalkAt => Peer(conn[c]) # conn[d]
           /\ Peer(conn[c]) # neighbour
           /\ server # "gone" => conn[c] # neighbour
           /\ neighbour # NoSock => Peer(neighbour) # conn[c]
           /\ Peer(conn[c]) \notin HostedBy(net, Far)
<1>1. \A d \in Client : client[d] \in TalkAt => Reaches(net, d, conn[d])
    BY DEF IInv, SessionInv, ClientsReach
<1>2. Reaches(net, c, conn[c]) /\ Peer(conn[c]) # conn[c] /\ Peer(conn[c]) # NoSock
      /\ Peer(conn[c])[2] # "caller"
    BY <1>1, PeerOf, NobodysSocket DEF Reaches
<1>3. \A P : c \notin P => conn[c] \notin Of(net, P)
    BY <1>2 DEF Reaches, Of, HostedBy
<1>4. \A d \in Client : client[d] \in TalkAt => Peer(conn[c]) # conn[d]
    BY <1>1, <1>2 DEF Reaches
<1>5. neighbour # NoSock => neighbour \in Socket /\ neighbour[2] = "caller"
    BY DEF IInv, NeighbourInv, NeighbourIsFar
<1>6. Peer(conn[c]) # neighbour
    BY <1>2, <1>5
<1>7. neighbour # NoSock => Peer(neighbour) # conn[c]
    BY <1>2, <1>5, PeerOf DEF Reaches
<1>8. server # "gone" => conn[c] # neighbour
  <2>1. CASE neighbour = NoSock
      BY <1>2, <2>1, NobodysSocket DEF Reaches
  <2>2. CASE neighbour # NoSock
      BY <1>2, <2>2, Processes DEF Reaches, IInv, NeighbourInv, NeighbourIsFar, HostedBy
  <2> QED
      BY <2>1, <2>2
<1>9. Peer(conn[c]) \notin HostedBy(net, Far)
    BY <1>2, Processes DEF Reaches, HostedBy
<1> QED
    BY <1>2, <1>3, <1>4, <1>6, <1>7, <1>8, <1>9

-----------------------------------------------------------------------------
(* Steps in which processes end.                                           *)

\* What SIGINT, and the ends of the server without a word, leave of its state.
Interrupted ==
    /\ ServerKeeps
    /\ neighbour' = neighbour
    /\ server' \in {"boot", "join"} => server \in {"boot", "join"}
    /\ server = "gone" => server' = "gone" /\ ending' = ending
    /\ server' = "gone" /\ server # "gone" =>
          neighbour = NoSock \/ ending' \in {"SIGPIPE", "bad opcode"}

LEMMA InterruptedIdle ==
    ASSUME IInv, UNCHANGED serverVars
    PROVE  Interrupted
BY DEF IInv, SessionInv, ServerSockets, serverVars, Interrupted, ServerKeeps

LEMMA InterruptedGone ==
    ASSUME IInv, NEW how, server # "gone", ServerGone(how),
           server \in {"boot", "join"} \/ how \in {"SIGPIPE", "bad opcode"}
    PROVE  Interrupted /\ server' = "gone"
<1>1. /\ backlog' = << >> /\ client_socket' = Stdin /\ server' = "gone"
      /\ neighbour' = neighbour /\ ending' = how
    BY DEF ServerGone
<1>2. << >> \in Seq(Socket)
    BY EmptySeq
<1>3. ServerKeeps
    BY <1>1, <1>2 DEF ServerSockets, ServerKeeps
<1> QED
    BY <1>1, <1>3 DEF IInv, NeighbourInv, Interrupted

LEMMA InterruptedSigint ==
    ASSUME IInv, SigintEffect
    PROVE  Interrupted
<1>1. CASE server = "gone" /\ UNCHANGED serverVars
    BY <1>1, InterruptedIdle
<1>2. CASE server \in {"boot", "join"} /\ ServerGone("killed")
    BY <1>2, InterruptedGone
<1>3. CASE /\ server \notin {"boot", "join", "gone"}
           /\ server' \in {server, "leave"} /\ (server # "accept" => server' = server)
           /\ UNCHANGED <<backlog, client_socket, handshake, neighbour, ending>>
    BY <1>3 DEF IInv, SessionInv, ServerSockets, Interrupted, ServerKeeps
<1>4. CASE /\ server \in {"neighbour", "client"}
           /\ server' = "stuck"
           /\ UNCHANGED <<backlog, client_socket, handshake, neighbour, ending>>
    BY <1>4 DEF IInv, SessionInv, ServerSockets, Interrupted, ServerKeeps
<1> QED
    BY <1>1, <1>2, <1>3, <1>4 DEF SigintEffect

\* The processes of P end, and the server if it is one of Q.
LEMMA EndsInv ==
    ASSUME IInv, Interrupted, NEW P \in SUBSET Client, NEW Q \in SUBSET {Server},
           Q # {} => server' = "gone",
           Evolves(net, net', Of(net, P \cup Q), {}, {}), net'.open \subseteq net.open,
           client' \in [Client -> ClientAt], conn' \in [Client -> Socket \cup {NoSock}],
           \A c \in Client : client'[c] \in TalkAt =>
              c \notin P /\ client'[c] = client[c] /\ conn'[c] = conn[c]
    PROVE  IInv'
<1> DEFINE C == Of(net, P \cup Q)
<1> HIDE DEF C
<1>1. \A c \in Client : client'[c] \in TalkAt => GoesOn(c, C, {})
  <2> SUFFICES ASSUME NEW c \in Client, client'[c] \in TalkAt
               PROVE  GoesOn(c, C, {})
      OBVIOUS
  <2>1. c \notin P \cup Q /\ client'[c] = client[c] /\ conn'[c] = conn[c]
      BY Processes
  <2>2. conn[c] \notin C
      BY <2>1, TheirEnds DEF C
  <2> QED
      BY <2>1, <2>2 DEF GoesOn
<1>2. server' # "gone" => server # "gone" /\ neighbour \notin C
  <2>1. server' # "gone" => server # "gone" /\ Q = {}
      BY DEF Interrupted
  <2>2. server # "gone" /\ neighbour # NoSock => neighbour \in net.open /\ net.host[neighbour] = Server
      BY DEF IInv, NeighbourInv, NeighbourIsFar, HostedBy
  <2>3. \A t \in C : t \in net.open /\ \E n \in P \cup Q : net.host[t] = n
      BY DEF C, Of, HostedBy
  <2>4. NoSock \notin net.open
      BY NobodysSocket DEF IInv, Shape
  <2>5. ASSUME server' # "gone", neighbour \in C
        PROVE  FALSE
    <3>1. neighbour # NoSock /\ net.host[neighbour] = Server
        BY <2>1, <2>2, <2>3, <2>4, <2>5
    <3>2. Server \in P
        BY <2>1, <2>3, <2>5, <3>1
    <3> QED
        BY <3>2, Processes
  <2> QED
      BY <2>1, <2>5
<1>3. NeighbourKeeps(C, {})
    BY <1>2 DEF NeighbourKeeps, Interrupted
<1>4. ServerKeeps /\ Evolves(net, net', C, {}, {})
    BY DEF Interrupted, C
<1> QED
    BY <1>1, <1>3, <1>4, StepInv

LEMMA AfterTwo ==
    ASSUME NEW w, Shape(w), NEW P, NEW Q
    PROVE  /\ After(After(w, P), Q).open \subseteq w.open
           /\ Evolves(w, After(After(w, P), Q), Of(w, P \cup Q), {}, {})
<1> DEFINE v == After(w, P)
           x == After(v, Q)
<1>1. v.open = w.open \ Of(w, P) /\ Evolves(w, v, Of(w, P), {}, {})
    BY AfterEvolves
<1>2. Shape(v)
    BY <1>1 DEF Evolves
<1> HIDE DEF v
<1>3. x.open = v.open \ Of(v, Q) /\ Evolves(v, x, Of(v, Q), {}, {})
    BY <1>2, AfterEvolves
<1> HIDE DEF x
<1>4. Evolves(w, x, Of(w, P) \cup Of(v, Q), {}, {})
    BY <1>1, <1>3, Compose
<1>5. Of(v, Q) \subseteq Of(w, P \cup Q) /\ Of(w, P) \subseteq Of(w, P \cup Q)
    BY <1>1 DEF Of, HostedBy, Evolves
<1>6. Evolves(w, x, Of(w, P \cup Q), {}, {})
    BY <1>4, <1>5, Widen
<1> QED
    BY <1>1, <1>3, <1>6 DEF v, x

LEMMA OthersGoOn ==
    ASSUME IInv, NEW c \in Client, ClientGone(c)
    PROVE  /\ client' \in [Client -> ClientAt] /\ conn' \in [Client -> Socket \cup {NoSock}]
           /\ \A d \in Client : client'[d] \in TalkAt =>
                 d \notin {c} /\ client'[d] = client[d] /\ conn'[d] = conn[d]
<1>1. "gone" \in ClientAt /\ "gone" \notin TalkAt
    BY DEF ClientAt, TalkAt
<1> QED
    BY <1>1 DEF ClientGone, IInv, SessionInv

LEMMA ClientsUnchanged ==
    ASSUME IInv, UNCHANGED clientVars
    PROVE  /\ client' \in [Client -> ClientAt] /\ conn' \in [Client -> Socket \cup {NoSock}]
           /\ \A d \in Client : client'[d] = client[d] /\ conn'[d] = conn[d]
BY DEF clientVars, IInv, SessionInv

LEMMA NoProcess ==
    ASSUME NEW w, Shape(w)
    PROVE  Of(w, {}) = {} /\ Evolves(w, w, Of(w, {} \cup {}), {}, {})
BY Stays DEF Of

LEMMA ClientEndsInv ==
    ASSUME IInv, NEW c \in Client, ClientGone(c), net' = After(net, {c}), UNCHANGED serverVars
    PROVE  IInv'
<1>1. Interrupted
    BY InterruptedIdle
<1>2. net'.open \subseteq net.open /\ Evolves(net, net', Of(net, {c} \cup {}), {}, {})
    BY AfterEvolves DEF IInv
<1> QED
    BY <1>1, <1>2, EndsInv, OthersGoOn

LEMMA ServerEndsInv ==
    ASSUME IInv, NEW how, server # "gone",
           server \in {"boot", "join"} \/ how \in {"SIGPIPE", "bad opcode"},
           ServerEnds(how) \/ ServerEndsWithItsClient(how)
    PROVE  IInv'
<1>1. Interrupted /\ server' = "gone"
    BY InterruptedGone DEF ServerEnds, ServerEndsWithItsClient
<1>2. CASE ServerEnds(how)
  <2>1. net'.open \subseteq net.open /\ Evolves(net, net', Of(net, {} \cup {Server}), {}, {})
      BY <1>2, AfterEvolves DEF IInv, ServerEnds
  <2>2. /\ client' \in [Client -> ClientAt] /\ conn' \in [Client -> Socket \cup {NoSock}]
        /\ \A c \in Client : client'[c] \in TalkAt =>
              c \notin {} /\ client'[c] = client[c] /\ conn'[c] = conn[c]
      BY <1>2, ClientsUnchanged DEF ServerEnds
  <2>3. {} \in SUBSET Client /\ {Server} \in SUBSET {Server} /\ {Server} # {}
      OBVIOUS
  <2> QED
      BY <1>1, <2>1, <2>2, <2>3, EndsInv
<1>3. CASE ServerEndsWithItsClient(how)
  <2>1. net' = After(net, {Own} \cup {Server}) /\ ClientGone(Own)
      BY <1>3 DEF ServerEndsWithItsClient
  <2>2. net'.open \subseteq net.open /\ Evolves(net, net', Of(net, {Own} \cup {Server}), {}, {})
      BY <2>1, AfterEvolves DEF IInv
  <2>3. /\ client' \in [Client -> ClientAt] /\ conn' \in [Client -> Socket \cup {NoSock}]
        /\ \A c \in Client : client'[c] \in TalkAt =>
              c \notin {Own} /\ client'[c] = client[c] /\ conn'[c] = conn[c]
      BY <2>1, OthersGoOn, Processes
  <2>4. {Own} \in SUBSET Client /\ {Server} \in SUBSET {Server} /\ {Server} # {}
      BY Processes
  <2> QED
      BY <1>1, <2>2, <2>3, <2>4, EndsInv
<1> QED
    BY <1>2, <1>3

\* A client process, or none, ends, and SIGINT may end the server.
LEMMA SigintInv ==
    ASSUME IInv, Interrupted, NEW P \in SUBSET Client,
           net' = NetAfterSigint(After(net, P)) \/ (P = {} /\ net' = NetAfterSigint(net)),
           client' \in [Client -> ClientAt], conn' \in [Client -> Socket \cup {NoSock}],
           \A c \in Client : client'[c] \in TalkAt =>
              c \notin P /\ client'[c] = client[c] /\ conn'[c] = conn[c]
    PROVE  IInv'
<1>1. Shape(net)
    BY DEF IInv
<1>2. CASE server' = "gone"
  <2>1. ASSUME net' = NetAfterSigint(After(net, P))
        PROVE  net'.open \subseteq net.open /\ Evolves(net, net', Of(net, P \cup {Server}), {}, {})
    <3>1. net' = After(After(net, P), {Server})
        BY <1>2, <2>1 DEF NetAfterSigint
    <3> QED
        BY <1>1, <3>1, AfterTwo
  <2>2. ASSUME P = {}, net' = NetAfterSigint(net)
        PROVE  net'.open \subseteq net.open /\ Evolves(net, net', Of(net, P \cup {Server}), {}, {})
    <3>1. net' = After(net, {Server}) /\ P \cup {Server} = {Server}
        BY <1>2, <2>2 DEF NetAfterSigint
    <3>2. /\ After(net, {Server}).open = net.open \ Of(net, {Server})
          /\ Evolves(net, After(net, {Server}), Of(net, {Server}), {}, {})
        BY <1>1, AfterEvolves
    <3> QED
        BY <3>1, <3>2
  <2>3. net'.open \subseteq net.open /\ Evolves(net, net', Of(net, P \cup {Server}), {}, {})
      BY <2>1, <2>2
  <2>4. {Server} \in SUBSET {Server} /\ ({Server} # {} => server' = "gone")
      BY <1>2
  <2> QED
      BY <2>3, <2>4, EndsInv
<1>3. CASE server' # "gone"
  <2>1. net'.open \subseteq net.open /\ Evolves(net, net', Of(net, P \cup {}), {}, {})
      BY <1>1, <1>3, AfterEvolves, NoProcess DEF NetAfterSigint
  <2> QED
      BY <2>1, EndsInv
<1> QED
    BY <1>2, <1>3

LEMMA ClientArgvFailsInv == IInv /\ ClientArgvFails => IInv'
<1> SUFFICES ASSUME IInv, ClientArgvFails
             PROVE  IInv'
    OBVIOUS
<1>1. Interrupted
    BY InterruptedSigint DEF ClientArgvFails
<1>2. ClientGone(Own) /\ Own \in Client /\ net' = NetAfterSigint(net)
    BY Processes DEF ClientArgvFails
<1>3. /\ client' \in [Client -> ClientAt] /\ conn' \in [Client -> Socket \cup {NoSock}]
      /\ \A c \in Client : client'[c] \in TalkAt =>
            c \notin {} /\ client'[c] = client[c] /\ conn'[c] = conn[c]
    BY <1>2, OthersGoOn
<1>4. {} \in SUBSET Client
    OBVIOUS
<1> QED
    BY <1>1, <1>2, <1>3, <1>4, SigintInv

LEMMA NotShakenInv == ASSUME IInv, NEW c \in Client, NotShaken(c) PROVE IInv'
<1>1. Interrupted
    BY InterruptedIdle, InterruptedSigint DEF NotShaken
<1> QED
    BY <1>1, OthersGoOn, SigintInv DEF NotShaken

LEMMA CtrlCInv == IInv /\ CtrlC => IInv'
<1> SUFFICES ASSUME IInv, CtrlC
             PROVE  IInv'
    OBVIOUS
<1>1. Interrupted
    BY InterruptedSigint DEF CtrlC
<1>2. ClientGone(Own) /\ Own \in Client /\ net' = NetAfterSigint(After(net, {Own}))
    BY Processes DEF CtrlC
<1> QED
    BY <1>1, <1>2, OthersGoOn, SigintInv

LEMMA SigintActionInv == IInv /\ Sigint => IInv'
<1> SUFFICES ASSUME IInv, Sigint
             PROVE  IInv'
    OBVIOUS
<1>1. Interrupted /\ net' = NetAfterSigint(net)
    BY InterruptedSigint DEF Sigint
<1>2. /\ client' \in [Client -> ClientAt] /\ conn' \in [Client -> Socket \cup {NoSock}]
      /\ \A c \in Client : client'[c] \in TalkAt =>
            c \notin {} /\ client'[c] = client[c] /\ conn'[c] = conn[c]
    BY ClientsUnchanged DEF Sigint
<1>3. {} \in SUBSET Client
    OBVIOUS
<1> QED
    BY <1>1, <1>2, <1>3, SigintInv

LEMMA StartFailsInv == IInv /\ (StartFails \/ ServerArgvFails \/ ShakeBad \/ ServeDies) => IInv'
BY ServerEndsInv DEF StartFails, ServerArgvFails, ShakeBad, ServeDies

-----------------------------------------------------------------------------
(* The steps of clients.                                                   *)

\* A step of a client that ends no process.
LEMMA ClientInv ==
    ASSUME IInv, NEW c \in Client, NEW C, NEW R, NEW S, Evolves(net, net', C, R, S),
           C \subseteq Of(net, {c}), client[c] \in TalkAt \/ (R = {} /\ S = {}),
           R \subseteq {conn[c]}, S \subseteq {conn[c]},
           server = "gone" => net'.open \subseteq net.open, ServerKeeps,
           UNCHANGED <<server, client_socket, handshake, neighbour, ending>>,
           client' \in [Client -> ClientAt], conn' \in [Client -> Socket \cup {NoSock}],
           \A d \in Client \ {c} : client'[d] = client[d] /\ conn'[d] = conn[d],
           client'[c] \in TalkAt =>
              \/ Begins(c)
              \/ /\ client[c] \in TalkAt /\ conn'[c] = conn[c] /\ C = {}
                 /\ client'[c] \in SessionAt => client[c] \in SessionAt \/ net.inbox[conn[c]] # << >>
    PROVE  IInv'
<1>2. NeighbourKeeps(C, R)
  <2>1. server # "gone" => neighbour \notin C
    <3>1. server # "gone" /\ neighbour # NoSock => neighbour \in net.open /\ net.host[neighbour] = Server
        BY DEF IInv, NeighbourInv, NeighbourIsFar, HostedBy
    <3>2. NoSock \notin net.open
        BY NobodysSocket DEF IInv, Shape
    <3> QED
        BY <3>1, <3>2, Processes DEF Of, HostedBy
  <2>2. neighbour # NoSock => Peer(neighbour) \notin R
      BY TheirEnds
  <2> QED
      BY <2>1, <2>2 DEF NeighbourKeeps
<1>3. ASSUME NEW d \in Client, client'[d] \in TalkAt
      PROVE  Begins(d) \/ GoesOn(d, C, S)
  <2>1. CASE d # c
    <3>1. client[d] \in TalkAt /\ client'[d] = client[d] /\ conn'[d] = conn[d]
        BY <1>3, <2>1
    <3>2. conn[d] \notin C /\ Peer(conn[d]) \notin S
        BY <2>1, <3>1, TheirEnds
    <3> QED
        BY <3>1, <3>2 DEF GoesOn
  <2>2. CASE d = c
    <3>1. client[c] \in TalkAt => Peer(conn[c]) \notin S
        BY TheirEnds
    <3> QED
        BY <1>3, <2>2, <3>1 DEF GoesOn
  <2> QED
      BY <2>1, <2>2
<1> QED
    BY <1>2, <1>3, StepInv

LEMMA ConnectsInv == ASSUME IInv, NEW c \in Client, Connects(c) PROVE IInv'
<1>1. PICK k \in Conn, greeting \in Greetings(c) :
         NextConn(net, k) /\ net' = Dial(net, k, c, Server, greeting)
         /\ conn' = [conn EXCEPT ![c] = Caller(k)] /\ backlog' = Append(backlog, Callee(k))
    BY DEF Connects
<1>2. /\ client' = [client EXCEPT ![c] = "shake"] /\ client[c] = "connect" /\ server # "gone"
      /\ UNCHANGED <<server, client_socket, handshake, neighbour, ending>>
    BY DEF Connects, IsListening
<1>3. Shape(net) /\ IsFree(net, k) /\ greeting \in Packet /\ c \in Node /\ Server \in Node
    BY <1>1, Processes DEF IInv, NextConn, Greetings, Packet
<1>4. Evolves(net, net', {}, {}, {})
    BY <1>1, <1>3, DialEvolves
<1>5. Caller(k) \in Socket /\ Callee(k) \in Socket /\ Caller(k)[2] = "caller" /\ Peer(Caller(k)) = Callee(k)
    BY EndsOf
<1>6. /\ client' \in [Client -> ClientAt] /\ conn' \in [Client -> Socket \cup {NoSock}]
      /\ client'[c] = "shake" /\ conn'[c] = Caller(k)
      /\ \A d \in Client \ {c} : client'[d] = client[d] /\ conn'[d] = conn[d]
    BY <1>1, <1>2, <1>5 DEF IInv, SessionInv, ClientAt
<1>7. /\ net'.open = net.open \cup {Caller(k), Callee(k)} /\ net'.inbox[Caller(k)] = << >>
      /\ net'.host[Caller(k)] = c /\ net'.host[Callee(k)] = Server
    BY <1>1, <1>3, DialOp
<1>8. Begins(c)
    BY <1>5, <1>6, <1>7 DEF Begins, Reaches
<1>9. {} \subseteq Of(net, {c}) /\ {} \subseteq {conn[c]}
    OBVIOUS
<1>10. server = "gone" => net'.open \subseteq net.open
    BY <1>2
<1>11. UNCHANGED <<server, client_socket, handshake, neighbour, ending>>
    BY <1>2
<1>12. ServerKeeps
  <2>1. backlog' \in Seq(Socket)
      BY <1>1, <1>5 DEF IInv, SessionInv, ServerSockets
  <2> QED
      BY <1>2, <2>1 DEF ServerKeeps, IInv, SessionInv, ServerSockets
<1>13. ASSUME NEW Z, Z = {}
       PROVE  IInv'
  <2>1. Evolves(net, net', Z, Z, Z) /\ Z \subseteq Of(net, {c}) /\ Z \subseteq {conn[c]}
      BY <1>4, <1>13
  <2> QED
      BY <1>6, <1>8, <1>10, <1>11, <1>12, <1>13, <2>1, ClientInv
<1> QED
    BY <1>13

\* A step of a client that moves on, without a change of its connection.
LEMMA MovesInv ==
    ASSUME IInv, NEW c \in Client, NEW next \in ClientAt, NEW R, NEW S,
           Evolves(net, net', {}, R, S), net'.open \subseteq net.open,
           client[c] \in TalkAt \/ (R = {} /\ S = {}), R \subseteq {conn[c]}, S \subseteq {conn[c]},
           client' = [client EXCEPT ![c] = next], UNCHANGED conn, UNCHANGED serverVars,
           next \in TalkAt => client[c] \in TalkAt,
           next \in SessionAt => client[c] \in SessionAt \/ net.inbox[conn[c]] # << >>
    PROVE  IInv'
<1>1. /\ client' \in [Client -> ClientAt] /\ conn' \in [Client -> Socket \cup {NoSock}]
      /\ client'[c] = next /\ conn'[c] = conn[c]
      /\ \A d \in Client \ {c} : client'[d] = client[d] /\ conn'[d] = conn[d]
    BY DEF IInv, SessionInv
<1>2. UNCHANGED <<server, client_socket, handshake, neighbour, ending>> /\ ServerKeeps
    BY InterruptedIdle DEF serverVars, Interrupted
<1>3. client'[c] \in TalkAt =>
         /\ client[c] \in TalkAt /\ conn'[c] = conn[c]
         /\ client'[c] \in SessionAt => client[c] \in SessionAt \/ net.inbox[conn[c]] # << >>
    BY <1>1
<1>4. server = "gone" => net'.open \subseteq net.open
    OBVIOUS
<1>5. ASSUME NEW Z, Z = {}
      PROVE  IInv'
  <2>1. Evolves(net, net', Z, R, S) /\ Z \subseteq Of(net, {c})
      BY <1>5
  <2> QED
      BY <1>1, <1>2, <1>3, <1>4, <1>5, <2>1, ClientInv
<1> QED
    BY <1>5

LEMMA QuietMoves ==
    ASSUME IInv, NEW c \in Client, NEW next \in ClientAt, net' = net,
           client' = [client EXCEPT ![c] = next], UNCHANGED conn, UNCHANGED serverVars,
           next \in TalkAt => client[c] \in TalkAt,
           next \in SessionAt => client[c] \in SessionAt
    PROVE  IInv'
<1>1. Evolves(net, net', {}, {}, {}) /\ net'.open \subseteq net.open
    BY Stays DEF IInv
<1>2. ASSUME NEW Z, Z = {}
      PROVE  IInv'
  <2>1. Evolves(net, net', {}, Z, Z) /\ Z \subseteq {conn[c]}
      BY <1>1, <1>2
  <2> QED
      BY <1>1, <1>2, <2>1, MovesInv
<1> QED
    BY <1>2

\* It reads, or writes.
LEMMA ReadingMoves ==
    ASSUME IInv, NEW c \in Client, NEW next \in ClientAt, client[c] \in TalkAt,
           net.inbox[conn[c]] # << >>, net' = Receive(net, conn[c]),
           client' = [client EXCEPT ![c] = next], UNCHANGED conn, UNCHANGED serverVars
    PROVE  IInv'
<1>1. conn[c] \in Socket /\ Shape(net)
    BY TheirEnds DEF Reaches, IInv
<1>2. Evolves(net, net', {}, {conn[c]}, {}) /\ net'.open \subseteq net.open
    BY <1>1, ReceiveEvolves
<1>3. ASSUME NEW Z, Z = {}
      PROVE  IInv'
  <2>1. Evolves(net, net', {}, {conn[c]}, Z) /\ Z \subseteq {conn[c]}
      BY <1>2, <1>3
  <2> QED
      BY <1>2, <2>1, MovesInv DEF SessionAt
<1> QED
    BY <1>3

LEMMA WritingMoves ==
    ASSUME IInv, NEW c \in Client, NEW next \in ClientAt, client[c] \in SessionAt,
           NEW msg \in Packet, net' = SendAll(net, {conn[c]}, msg),
           client' = [client EXCEPT ![c] = next], UNCHANGED conn, UNCHANGED serverVars
    PROVE  IInv'
<1>1. Evolves(net, net', {}, {}, {conn[c]}) /\ net'.open \subseteq net.open
    BY SendAllEvolves DEF IInv
<1>2. client[c] \in TalkAt
    BY DEF SessionAt
<1>3. ASSUME NEW Z, Z = {}
      PROVE  IInv'
  <2>1. Evolves(net, net', {}, Z, {conn[c]}) /\ Z \subseteq {conn[c]}
      BY <1>1, <1>3
  <2> QED
      BY <1>1, <1>2, <2>1, MovesInv
<1> QED
    BY <1>3

\* Nothing changes of what the invariant is about.
LEMMA NothingMoves ==
    ASSUME IInv, UNCHANGED <<net, client, conn, server, backlog, client_socket, handshake,
                             neighbour, ending>>
    PROVE  IInv'
BY DEF IInv, SessionInv, ClientsReach, ServerSockets, OthersHearNothing, AgreeOnSession,
       NeighbourInv, NeighbourIsFar, EndsAreAnnounced, HostedBy

LEMMA CannotConnectInv == ASSUME IInv, NEW c \in Client, CannotConnect(c) PROVE IInv'
<1>1. CASE client' = client
    BY <1>1, NothingMoves DEF CannotConnect, serverVars
<1>2. CASE client' = [client EXCEPT ![c] = "wait"]
  <2>1. "wait" \in ClientAt /\ "wait" \notin TalkAt /\ "wait" \notin SessionAt
      BY DEF ClientAt, TalkAt, SessionAt
  <2> QED
      BY <1>2, <2>1, QuietMoves DEF CannotConnect
<1> QED
    BY <1>1, <1>2 DEF CannotConnect

LEMMA ShakenInv == ASSUME IInv, NEW c \in Client, Shaken(c) PROVE IInv'
<1>1. "prompt" \in ClientAt /\ client[c] \in TalkAt
    BY DEF Shaken, ClientAt, TalkAt
<1> QED
    BY <1>1, ReadingMoves DEF Shaken

LEMMA TypesInv == ASSUME IInv, NEW c \in Client, NEW line, Types(c, line) PROVE IInv'
BY NothingMoves DEF Types, serverVars

LEMMA CommandsInv == ASSUME IInv, NEW c \in Client, Commands(c) PROVE IInv'
<1>1. /\ "request" \in Packet /\ {"listen", "prompt", "quit"} \subseteq ClientAt
      /\ {"listen", "prompt", "quit"} \subseteq SessionAt /\ SessionAt \subseteq TalkAt
      /\ client[c] \in SessionAt
    BY DEF Commands, Packet, ClientAt, SessionAt, TalkAt
<1>2. CASE /\ net' = SendAll(net, {conn[c]}, "request")
           /\ client' = [client EXCEPT ![c] = "listen"]
           /\ UNCHANGED conn /\ UNCHANGED serverVars
    BY <1>1, <1>2, WritingMoves
<1>3. CASE /\ net' = net
           /\ \E next \in {"quit", "prompt", "listen"} : client' = [client EXCEPT ![c] = next]
           /\ UNCHANGED conn /\ UNCHANGED serverVars
    BY <1>1, <1>3, QuietMoves
<1>4. CASE DiesWriting(c) /\ UNCHANGED serverVars
    BY <1>4, ClientEndsInv DEF DiesWriting
<1> QED
    BY <1>2, <1>3, <1>4 DEF Commands

LEMMA ListensInv == ASSUME IInv, NEW c \in Client, Listens(c) PROVE IInv'
<1>1. PICK next : /\ next \in {"clear", "prompt"}
                  /\ client' = [client EXCEPT ![c] = next]
    BY DEF Listens, AfterListening
<1>2. next \in ClientAt /\ next \in SessionAt /\ SessionAt \subseteq TalkAt /\ client[c] \in SessionAt
    BY <1>1 DEF Listens, ClientAt, SessionAt, TalkAt
<1>3. CASE net' = net
    BY <1>1, <1>2, <1>3, QuietMoves DEF Listens
<1>4. CASE net.inbox[conn[c]] # << >> /\ net' = Receive(net, conn[c])
    BY <1>1, <1>2, <1>4, ReadingMoves DEF Listens
<1> QED
    BY <1>3, <1>4 DEF Listens

LEMMA ClearsInv == ASSUME IInv, NEW c \in Client, Clears(c) PROVE IInv'
<1>1. CASE DiesWriting(c) /\ UNCHANGED serverVars
    BY <1>1, ClientEndsInv DEF DiesWriting
<1>2. CASE /\ client' = [client EXCEPT ![c] = "wait"]
           /\ net' = After(SendAll(net, {conn[c]}, "CMSG_INT_EXIT"), {c})
           /\ UNCHANGED conn /\ UNCHANGED serverVars
  <2> DEFINE v == SendAll(net, {conn[c]}, "CMSG_INT_EXIT")
  <2>1. Shape(net) /\ "CMSG_INT_EXIT" \in Packet
      BY DEF IInv, Packet
  <2>2. v.open = net.open /\ v.host = net.host /\ Evolves(net, v, {}, {}, {conn[c]})
      BY <2>1, SendAllEvolves
  <2>3. Shape(v) /\ net' = After(v, {c})
      BY <1>2, <2>2 DEF Evolves
  <2> HIDE DEF v
  <2>4. net'.open \subseteq v.open /\ Evolves(v, net', Of(v, {c}), {}, {}) /\ Of(v, {c}) = Of(net, {c})
    <3>1. net'.open = v.open \ Of(v, {c}) /\ Evolves(v, net', Of(v, {c}), {}, {})
        BY <2>3, AfterEvolves
    <3>2. Of(v, {c}) = Of(net, {c})
        BY <2>2 DEF Of, HostedBy
    <3> QED
        BY <3>1, <3>2
  <2>5. Evolves(net, net', {} \cup Of(net, {c}), {} \cup {}, {conn[c]} \cup {})
      BY <2>2, <2>4, Compose
  <2>6. /\ client' \in [Client -> ClientAt] /\ conn' \in [Client -> Socket \cup {NoSock}]
        /\ client'[c] \notin TalkAt /\ client[c] \in TalkAt
        /\ \A d \in Client \ {c} : client'[d] = client[d] /\ conn'[d] = conn[d]
      BY <1>2 DEF Clears, IInv, SessionInv, ClientAt, TalkAt
  <2>7. UNCHANGED <<server, client_socket, handshake, neighbour, ending>> /\ ServerKeeps
      BY <1>2, InterruptedIdle DEF serverVars, Interrupted
  <2>8. net'.open \subseteq net.open
      BY <2>2, <2>4
  <2>9. ASSUME NEW Z, Z = {}
        PROVE  IInv'
    <3>1. Evolves(net, net', Of(net, {c}), Z, {conn[c]}) /\ Z \subseteq {conn[c]}
        BY <2>5, <2>9
    <3> QED
        BY <2>6, <2>7, <2>8, <3>1, ClientInv
  <2> QED
      BY <2>9
<1> QED
    BY <1>1, <1>2 DEF Clears

LEMMA WaitsInv == ASSUME IInv, NEW c \in Client, Waits(c) PROVE IInv'
<1>1. Interrupted /\ net' = net
    BY InterruptedIdle DEF Waits
<1>2. net'.open \subseteq net.open /\ Evolves(net, net', Of(net, {} \cup {}), {}, {})
    BY <1>1, NoProcess DEF IInv
<1>3. /\ client' \in [Client -> ClientAt] /\ conn' \in [Client -> Socket \cup {NoSock}]
      /\ \A d \in Client : client'[d] \in TalkAt => client'[d] = client[d] /\ conn'[d] = conn[d]
    BY OthersGoOn DEF Waits
<1>4. ASSUME NEW P, P = {}
      PROVE  IInv'
  <2>1. /\ P \in SUBSET Client /\ P \in SUBSET {Server}
        /\ Evolves(net, net', Of(net, P \cup P), {}, {})
      BY <1>2, <1>4
  <2> QED
      BY <1>1, <1>2, <1>3, <1>4, <2>1, EndsInv
<1> QED
    BY <1>4

-----------------------------------------------------------------------------
(* The steps of the server.                                                *)

\* A step in which the server goes on, and has read from R and written on S.
LEMMA TurnInv ==
    ASSUME IInv, NEW R, NEW S, Evolves(net, net', {}, R, S), ServerKeeps,
           server # "gone", server' # "gone",
           server' \in {"boot", "join"} => server \in {"boot", "join"},
           UNCHANGED <<client, conn, neighbour>>,
           S \subseteq {client_socket, neighbour},
           client_socket \in S =>
              client_socket = Stdin \/ (handshake' /\ client_socket' = client_socket)
    PROVE  IInv'
<1>1. NeighbourKeeps({}, R)
    BY DEF NeighbourKeeps
<1>2. /\ client' \in [Client -> ClientAt] /\ conn' \in [Client -> Socket \cup {NoSock}]
      /\ \A c \in Client : client'[c] = client[c] /\ conn'[c] = conn[c]
    BY DEF IInv, SessionInv
<1>3. ASSUME NEW c \in Client, client'[c] \in TalkAt
      PROVE  GoesOn(c, {}, S)
  <2>1. client[c] \in TalkAt
      BY <1>2, <1>3
  <2>2. Peer(conn[c]) # NoSock /\ Peer(conn[c]) # neighbour
      BY <2>1, TheirEnds
  <2>3. Peer(conn[c]) \in S => handshake' /\ client_socket' = Peer(conn[c])
      BY <2>2 DEF Stdin
  <2> QED
      BY <1>2, <1>3, <2>1, <2>3 DEF GoesOn
<1> QED
    BY <1>1, <1>2, <1>3, StepInv

\* What it has to do with its client's socket is settled.
Settled == server \notin {"shake", "gone", "boot", "join"} /\ server' \notin {"shake", "gone", "boot", "join"}
           /\ UNCHANGED <<client, conn, neighbour, backlog, client_socket, handshake>>

LEMMA SettledInv ==
    ASSUME IInv, NEW R, NEW S, Evolves(net, net', {}, R, S), Settled,
           S \subseteq {client_socket, neighbour}
    PROVE  IInv'
<1>1. ServerSockets
    BY DEF IInv, SessionInv
<1>2. ServerKeeps
    BY <1>1 DEF ServerKeeps, ServerSockets, Settled
<1>3. client_socket = Stdin \/ (handshake' /\ client_socket' = client_socket)
    BY <1>1 DEF ServerSockets, Settled
<1> QED
    BY <1>2, <1>3, TurnInv DEF Settled

LEMMA QuietTurn ==
    ASSUME IInv, net' = net, Settled
    PROVE  IInv'
<1>1. ASSUME NEW Z, Z = {}
      PROVE  IInv'
  <2>1. Evolves(net, net', {}, Z, Z) /\ Z \subseteq {client_socket, neighbour}
      BY <1>1, Stays DEF IInv
  <2> QED
      BY <2>1, SettledInv
<1> QED
    BY <1>1

\* It reads from r, unless there is nothing to read, and writes on s.
Reads(w, v, r) == v = w \/ (r \in Socket /\ w.inbox[r] # << >> /\ v = Receive(w, r))

LEMMA ReadsEvolves ==
    ASSUME NEW w, NEW v, NEW r, Shape(w), Reads(w, v, r)
    PROVE  v.open = w.open /\ Evolves(w, v, {}, {r}, {})
BY Stays, ReceiveEvolves DEF Reads, Evolves

LEMMA ReadsThenWrites ==
    ASSUME NEW w, NEW v, NEW r, NEW s, NEW msg \in Packet, Shape(w), Reads(w, v, r)
    PROVE  Evolves(w, SendAll(v, {s}, msg), {}, {r}, {s})
<1>1. v.open = w.open /\ Evolves(w, v, {}, {r}, {}) /\ Shape(v)
    BY ReadsEvolves DEF Evolves
<1> DEFINE x == SendAll(v, {s}, msg)
<1>2. x.open = v.open /\ Evolves(v, x, {}, {}, {s})
    BY <1>1, SendAllEvolves
<1> HIDE DEF x
<1>3. Evolves(w, x, {} \cup {}, {r} \cup {}, {} \cup {s})
    BY <1>1, <1>2, Compose
<1>4. {} \cup {} = {} /\ {r} \cup {} = {r} /\ {} \cup {s} = {s}
    OBVIOUS
<1> QED
    BY <1>3, <1>4 DEF x

LEMMA ReadingTurn ==
    ASSUME IInv, NEW r, Reads(net, net', r), Settled
    PROVE  IInv'
<1>1. Evolves(net, net', {}, {r}, {})
    BY ReadsEvolves DEF IInv
<1>2. ASSUME NEW Z, Z = {}
      PROVE  IInv'
  <2>1. Evolves(net, net', {}, {r}, Z) /\ Z \subseteq {client_socket, neighbour}
      BY <1>1, <1>2
  <2> QED
      BY <2>1, SettledInv
<1> QED
    BY <1>2

LEMMA WritingTurn ==
    ASSUME IInv, NEW v, NEW r, NEW s \in {client_socket, neighbour}, NEW msg \in Packet,
           Reads(net, v, r), net' = SendAll(v, {s}, msg), Settled
    PROVE  IInv'
<1>1. Evolves(net, net', {}, {r}, {s}) /\ {s} \subseteq {client_socket, neighbour}
    BY ReadsThenWrites DEF IInv
<1> QED
    BY <1>1, SettledInv

\* It does not touch the network.
LEMMA ServerMoves ==
    ASSUME IInv, net' = net, ServerKeeps, server # "gone", server' # "gone",
           server' \in {"boot", "join"} => server \in {"boot", "join"},
           UNCHANGED <<client, conn, neighbour>>
    PROVE  IInv'
<1>1. ASSUME NEW Z, Z = {}
      PROVE  IInv'
  <2>1. Evolves(net, net', {}, Z, Z) /\ Z \subseteq {client_socket, neighbour}
        /\ (client_socket \in Z => client_socket = Stdin)
      BY <1>1, Stays DEF IInv
  <2> QED
      BY <2>1, TurnInv
<1> QED
    BY <1>1

LEMMA ListenInv == IInv /\ Listen => IInv'
<1> SUFFICES ASSUME IInv, Listen
             PROVE  IInv'
    OBVIOUS
<1>1. ServerKeeps
    BY DEF Listen, IInv, SessionInv, ServerSockets, ServerKeeps
<1> QED
    BY <1>1, ServerMoves DEF Listen, clientVars

LEMMA AcceptInv == IInv /\ Accept => IInv'
<1> SUFFICES ASSUME IInv, Accept
             PROVE  IInv'
    OBVIOUS
<1>1. ServerSockets
    BY DEF IInv, SessionInv
<1>2. /\ server' \in {"client", "neighbour", "shake"}
      /\ server' = "shake" => backlog # << >> /\ client_socket' = Head(backlog) /\ ~handshake
      /\ server' # "shake" => client_socket' = client_socket
      /\ backlog' = backlog \/ (backlog # << >> /\ backlog' = Tail(backlog))
      /\ handshake' = handshake /\ server = "accept"
    BY DEF Accept, GoesToNeighbours, Goes
<1>3. /\ backlog' \in Seq(Socket)
      /\ backlog # << >> => Head(backlog) \in Socket
    BY <1>1, <1>2, HeadTailProperties DEF ServerSockets
<1>4. ServerKeeps
    BY <1>1, <1>2, <1>3, NobodysSocket DEF ServerSockets, ServerKeeps, Stdin
<1> QED
    BY <1>2, <1>4, ServerMoves DEF Accept, clientVars

LEMMA ShakeOkInv == IInv /\ ShakeOk => IInv'
<1> SUFFICES ASSUME IInv, ShakeOk
             PROVE  IInv'
    OBVIOUS
<1>1. ServerSockets /\ server = "shake"
    BY DEF IInv, SessionInv, ShakeOk
<1>2. client_socket \in Socket
    BY <1>1 DEF ServerSockets
<1>3. PICK v : Reads(net, v, client_socket)
               /\ net' = SendAll(v, {client_socket}, "SMSG_INT_HANDSHAKE")
    BY <1>2 DEF ShakeOk, Reads
<1>4. Evolves(net, net', {}, {client_socket}, {client_socket})
    BY <1>3, ReadsThenWrites DEF IInv, Packet
<1>5. /\ server' \in {"client", "neighbour"} /\ handshake'
      /\ UNCHANGED <<client, conn, neighbour, backlog, client_socket>>
    BY DEF ShakeOk, GoesToNeighbours, Goes, clientVars
<1>6. ServerKeeps
    BY <1>1, <1>5 DEF ServerSockets, ServerKeeps
<1> QED
    BY <1>1, <1>4, <1>5, <1>6, TurnInv

LEMMA SkipNeighbourInv == IInv /\ SkipNeighbour => IInv'
<1> SUFFICES ASSUME IInv, SkipNeighbour
             PROVE  IInv'
    OBVIOUS
<1>1. Settled
    BY DEF SkipNeighbour, Goes, Settled, clientVars
<1> QED
    BY <1>1, QuietTurn DEF SkipNeighbour

LEMMA ReadNeighbourInv == IInv /\ ReadNeighbour => IInv'
<1> SUFFICES ASSUME IInv, ReadNeighbour
             PROVE  IInv'
    OBVIOUS
<1>1. neighbour \in Socket /\ server \in {"neighbour", "stuck"} /\ neighbour # NoSock
    BY DEF IInv, NeighbourInv, NeighbourIsFar, ReadNeighbour, IsAt
<1>2. CASE /\ net.inbox[neighbour] # << >>
           /\ TellsClient(Receive(net, neighbour))
  <2>1. CASE ServerEnds("SIGPIPE")
      BY <1>1, <2>1, ServerEndsInv
  <2>2. CASE /\ net' = SendAll(Receive(net, neighbour), {client_socket}, "answer")
             /\ Goes("client")
             /\ UNCHANGED <<backlog, client_socket, handshake, neighbour, pending, _loop, clientVars>>
    <3>1. Settled
        BY <1>1, <2>2 DEF Goes, Settled, clientVars
    <3>2. Reads(net, Receive(net, neighbour), neighbour) /\ "answer" \in Packet
        BY <1>1, <1>2 DEF Reads, Packet
    <3> QED
        BY <2>2, <3>1, <3>2, WritingTurn
  <2> QED
      BY <1>2, <2>1, <2>2 DEF TellsClient
<1>3. CASE /\ net' = CloseAll(net, {neighbour})
           /\ neighbour' = NoSock
           /\ Goes("client")
           /\ UNCHANGED <<clientVars, backlog, client_socket, handshake, queueVars, _loop>>
  <2>1. Evolves(net, net', {neighbour}, {}, {})
      BY <1>3, CloseAllEvolves DEF IInv
  <2>2. ServerKeeps
      BY <1>1, <1>3 DEF IInv, SessionInv, ServerSockets, ServerKeeps, Goes
  <2>3. /\ client' \in [Client -> ClientAt] /\ conn' \in [Client -> Socket \cup {NoSock}]
        /\ \A c \in Client : client'[c] = client[c] /\ conn'[c] = conn[c]
      BY <1>3, ClientsUnchanged
  <2>4. \A c \in Client : client'[c] \in TalkAt => GoesOn(c, {neighbour}, {})
      BY <1>1, <2>3, TheirEnds DEF GoesOn
  <2>5. SessionInv'
      BY <2>1, <2>2, <2>3, <2>4, SessionStep DEF IInv
  <2>6. NeighbourInv'
      BY <1>3 DEF Goes, NeighbourInv, NeighbourIsFar, EndsAreAnnounced
  <2> QED
      BY <2>1, <2>5, <2>6 DEF IInv, Evolves
<1>4. CASE /\ Goes("client")
           /\ UNCHANGED <<net, clientVars, backlog, client_socket, handshake, neighbour>>
  <2>1. Settled
      BY <1>1, <1>4 DEF Goes, Settled, clientVars
  <2> QED
      BY <1>4, <2>1, QuietTurn
<1> QED
    BY <1>2, <1>3, <1>4 DEF ReadNeighbour

LEMMA EndsTurnSettles ==
    ASSUME server \in {"client", "stuck", "serve"}, NEW requests, NEW goOn, EndsTurn(requests, goOn),
           UNCHANGED <<client, conn, neighbour, backlog, client_socket, handshake>>
    PROVE  Settled
BY DEF EndsTurn, Goes, Settled

LEMMA HeedsInv ==
    ASSUME IInv, server \in {"client", "stuck"}, NEW v, Reads(net, v, client_socket),
           HeedsExit(v) \/ HeedsRequest(v)
    PROVE  IInv'
<1>1. CASE HeedsRequest(v)
  <2>1. Settled
      BY <1>1, EndsTurnSettles DEF HeedsRequest, clientVars
  <2> QED
      BY <1>1, <2>1, ReadingTurn DEF HeedsRequest
<1>2. CASE ServerEnds("SIGPIPE")
    BY <1>2, ServerEndsInv
<1>3. CASE /\ net' = IF neighbour = NoSock THEN v ELSE SendAll(v, {neighbour}, "CMSG_LEAVE")
           /\ EndsTurn(pending, FALSE)
           /\ UNCHANGED <<clientVars, backlog, client_socket, handshake, neighbour, away>>
  <2>1. Settled
      BY <1>3, EndsTurnSettles DEF clientVars
  <2>2. CASE neighbour = NoSock
      BY <1>3, <2>1, <2>2, ReadingTurn
  <2>3. CASE neighbour # NoSock
      BY <1>3, <2>1, <2>3, WritingTurn DEF Packet
  <2> QED
      BY <2>2, <2>3
<1> QED
    BY <1>1, <1>2, <1>3 DEF HeedsExit

LEMMA ReadClientInv == IInv /\ ReadClient => IInv'
<1> SUFFICES ASSUME IInv, ReadClient
             PROVE  IInv'
    OBVIOUS
<1>1. server \in {"client", "stuck"}
    BY DEF ReadClient, IsAt
<1>2. CASE /\ StealsInput
           /\ EndsTurn(pending, _loop)
           /\ UNCHANGED <<backlog, client_socket, handshake, neighbour, away>>
  <2>1. Settled
      BY <1>1, <1>2, EndsTurnSettles DEF StealsInput
  <2> QED
      BY <1>2, <2>1, QuietTurn DEF StealsInput
<1>3. CASE client_socket # Stdin /\ net.inbox[client_socket] # << >>
           /\ (HeedsRequest(Receive(net, client_socket)) \/ HeedsExit(Receive(net, client_socket)))
  <2>1. client_socket \in Socket
      BY <1>3 DEF IInv, SessionInv, ServerSockets
  <2>2. Reads(net, Receive(net, client_socket), client_socket)
      BY <1>3, <2>1 DEF Reads
  <2> QED
      BY <1>1, <1>3, <2>2, HeedsInv
<1>4. CASE HeedsExit(net) \/ HeedsRequest(net)
  <2>1. Reads(net, net, client_socket)
      BY DEF Reads
  <2> QED
      BY <1>1, <1>4, <2>1, HeedsInv
<1>5. CASE /\ EndsTurn(pending, _loop)
           /\ UNCHANGED <<net, clientVars, backlog, client_socket, handshake, neighbour, away>>
  <2>1. Settled
      BY <1>1, <1>5, EndsTurnSettles DEF clientVars
  <2> QED
      BY <1>5, <2>1, QuietTurn
<1> QED
    BY <1>2, <1>3, <1>4, <1>5 DEF ReadClient

LEMMA SkipClientInv == IInv /\ SkipClient => IInv'
<1> SUFFICES ASSUME IInv, SkipClient
             PROVE  IInv'
    OBVIOUS
<1>1. Settled
    BY EndsTurnSettles DEF SkipClient, clientVars
<1> QED
    BY <1>1, QuietTurn DEF SkipClient

LEMMA ServeInv == IInv /\ Serve => IInv'
<1> SUFFICES ASSUME IInv, Serve
             PROVE  IInv'
    OBVIOUS
<1>1. Settled
    BY EndsTurnSettles DEF Serve, clientVars
<1>2. Reads(net, net, NoSock)
    BY DEF Reads
<1>3. CASE net' = SendAll(net, {client_socket}, "answer")
    BY <1>1, <1>2, <1>3, WritingTurn DEF Packet
<1>4. CASE net' = SendAll(net, {neighbour}, "request")
    BY <1>1, <1>2, <1>4, WritingTurn DEF Packet
<1> QED
    BY <1>3, <1>4 DEF Serve

LEMMA JoinInv == IInv /\ Join => IInv'
<1> SUFFICES ASSUME IInv, Join
             PROVE  IInv'
    OBVIOUS
<1>1. PICK k \in Conn :
         /\ NextConn(net, k) /\ neighbour' = Caller(k)
         /\ net' = Receive(Dial(net, k, Server, Far, "CMSG_NEIGHBOURS"), Callee(k))
    BY DEF Join
<1> DEFINE v == Dial(net, k, Server, Far, "CMSG_NEIGHBOURS")
<1>2. Shape(net) /\ IsFree(net, k) /\ "CMSG_NEIGHBOURS" \in Packet /\ Server \in Node /\ Far \in Node
    BY <1>1, Processes DEF IInv, NextConn, Packet
<1>3. Shape(v) /\ Evolves(net, v, {}, {}, {})
    BY <1>2, DialOp, DialEvolves
<1>4. /\ v.open = net.open \cup {Caller(k), Callee(k)}
      /\ v.host[Caller(k)] = Server /\ v.host[Callee(k)] = Far
      /\ v.inbox[Callee(k)] = <<"CMSG_NEIGHBOURS">>
    BY <1>2, DialOp
<1>5. /\ Caller(k) \in Socket /\ Callee(k) \in Socket /\ Caller(k)[2] = "caller"
      /\ Peer(Caller(k)) = Callee(k)
    BY EndsOf
<1>6. net' = Receive(v, Callee(k))
    BY <1>1
<1> HIDE DEF v
<1>7. v.inbox[Callee(k)] # << >>
    BY <1>4
<1>8. /\ net'.open = v.open /\ net'.host = v.host
      /\ Evolves(v, net', {}, {Callee(k)}, {})
    BY <1>3, <1>5, <1>6, <1>7, ReceiveEvolves
<1>9. Evolves(net, net', {} \cup {}, {} \cup {Callee(k)}, {} \cup {})
    BY <1>3, <1>8, Compose
<1>10. Evolves(net, net', {}, {Callee(k)}, {})
    BY <1>9
<1>11. server = "join" /\ server' = "accept"
       /\ UNCHANGED <<client, conn, backlog, client_socket, handshake>>
    BY DEF Join, clientVars
<1>12. ServerKeeps
    BY <1>11 DEF IInv, SessionInv, ServerSockets, ServerKeeps
<1>13. /\ client' \in [Client -> ClientAt] /\ conn' \in [Client -> Socket \cup {NoSock}]
       /\ \A c \in Client : client'[c] \in TalkAt => GoesOn(c, {}, {})
    BY <1>11 DEF IInv, SessionInv, GoesOn
<1>14. SessionInv'
    BY <1>2, <1>10, <1>12, <1>13, SessionStep DEF IInv
<1>15. NeighbourInv'
    BY <1>1, <1>4, <1>5, <1>8, <1>11 DEF NeighbourInv, NeighbourIsFar, EndsAreAnnounced, HostedBy
<1> QED
    BY <1>10, <1>14, <1>15 DEF IInv, Evolves

LEMMA LeaveInv == IInv /\ Leave => IInv'
<1> SUFFICES ASSUME IInv, Leave
             PROVE  IInv'
    OBVIOUS
<1>1. server # "gone" /\ Shape(net)
    BY DEF Leave, IInv
<1>2. CASE ServerEnds("SIGPIPE")
    BY <1>1, <1>2, ServerEndsInv
<1>3. CASE /\ net' = After(IF neighbour = NoSock THEN net
                           ELSE SendAll(net, {neighbour}, "CMSG_LEAVE"), {Server})
           /\ ServerGone("in order")
           /\ UNCHANGED clientVars
  <2>1. /\ server' = "gone" /\ neighbour' = neighbour
        /\ client_socket' = Stdin /\ backlog' = << >>
      BY <1>3 DEF ServerGone
  <2>2. << >> \in Seq(Socket)
      BY EmptySeq
  <2>3. ServerKeeps
      BY <2>1, <2>2 DEF ServerSockets, ServerKeeps
  <2>4. PICK v : /\ net' = After(v, {Server}) /\ v.open = net.open /\ v.host = net.host
                 /\ Evolves(net, v, {}, {}, {neighbour})
                 /\ neighbour # NoSock /\ Peer(neighbour) \in v.open => Hears(v, Peer(neighbour))
    <3>1. CASE neighbour = NoSock
      <4>1. Evolves(net, net, {}, {}, {neighbour})
          BY <1>1, Stays DEF Evolves
      <4> QED
          BY <1>3, <3>1, <4>1
    <3>2. CASE neighbour # NoSock
      <4> DEFINE x == SendAll(net, {neighbour}, "CMSG_LEAVE")
      <4>1. /\ x.open = net.open /\ x.host = net.host /\ Evolves(net, x, {}, {}, {neighbour})
            /\ \A t \in net.open : Peer(t) \in {neighbour} => Hears(x, t)
          BY <1>1, SendAllEvolves DEF Packet
      <4>2. neighbour \in Socket
          BY <3>2 DEF IInv, NeighbourInv, NeighbourIsFar
      <4>3. Peer(Peer(neighbour)) = neighbour
          BY <4>2, PeerOf
      <4>4. net' = After(x, {Server})
          BY <1>3, <3>2
      <4> HIDE DEF x
      <4> QED
          BY <4>1, <4>3, <4>4
    <3> QED
        BY <3>1, <3>2
  <2>5. Of(v, {Server}) = Of(net, {Server})
      BY <2>4 DEF Of, HostedBy
  <2>6. /\ net'.open = v.open \ Of(v, {Server})
        /\ Evolves(v, net', Of(v, {Server}), {}, {})
      BY <2>4, AfterEvolves DEF Evolves
  <2>7. Evolves(net, net', {} \cup Of(net, {Server}), {} \cup {}, {neighbour} \cup {})
      BY <2>4, <2>5, <2>6, Compose
  <2>8. Evolves(net, net', Of(net, {Server}), {}, {neighbour})
      BY <2>7
  <2>9. neighbour # NoSock /\ Peer(neighbour) \in net'.open => Hears(net', Peer(neighbour))
      BY <2>4, <2>6 DEF Evolves
  <2>10. net'.open \subseteq net.open
      BY <2>4, <2>6
  <2>11. NeighbourKeeps(Of(net, {Server}), {})
      BY <1>1, <2>1, <2>9, <2>10 DEF NeighbourKeeps
  <2>12. /\ client' \in [Client -> ClientAt] /\ conn' \in [Client -> Socket \cup {NoSock}]
         /\ \A c \in Client : client'[c] = client[c] /\ conn'[c] = conn[c]
      BY <1>3, ClientsUnchanged
  <2>13. \A c \in Client : client'[c] \in TalkAt => GoesOn(c, Of(net, {Server}), {neighbour})
    <3> TAKE c \in Client
    <3>1. c \notin {Server}
        BY Processes
    <3> QED
        BY <2>1, <2>12, <3>1, TheirEnds DEF GoesOn
  <2> QED
      BY <2>3, <2>8, <2>11, <2>12, <2>13, StepInv
<1> QED
    BY <1>2, <1>3 DEF Leave

\* A step of the neighbour.
LEMMA FarInv ==
    ASSUME IInv, UNCHANGED clientVars, UNCHANGED serverVars, NEW C, NEW S,
           Evolves(net, net', C, {}, S), net'.open \subseteq net.open,
           C \subseteq Of(net, {Far}), S \subseteq HostedBy(net, Far)
    PROVE  IInv'
<1>1. ServerKeeps /\ UNCHANGED <<server, neighbour, ending>>
    BY InterruptedIdle DEF Interrupted, serverVars
<1>2. server # "gone" => neighbour \notin C
  <2>1. server # "gone" /\ neighbour # NoSock => neighbour \in net.open /\ net.host[neighbour] = Server
      BY DEF IInv, NeighbourInv, NeighbourIsFar, HostedBy
  <2>2. NoSock \notin net.open
      BY NobodysSocket DEF IInv, Shape
  <2> QED
      BY <2>1, <2>2, Processes DEF Of, HostedBy
<1>3. NeighbourKeeps(C, {})
    BY <1>1, <1>2 DEF NeighbourKeeps
<1>4. /\ client' \in [Client -> ClientAt] /\ conn' \in [Client -> Socket \cup {NoSock}]
      /\ \A c \in Client : client'[c] = client[c] /\ conn'[c] = conn[c]
    BY ClientsUnchanged
<1>5. \A c \in Client : client'[c] \in TalkAt => GoesOn(c, C, S)
  <2> TAKE c \in Client
  <2>1. c \notin {Far}
      BY Processes
  <2> QED
      BY <1>4, <2>1, TheirEnds DEF GoesOn
<1> QED
    BY <1>1, <1>3, <1>4, <1>5, StepInv

LEMMA FarAnswersInv == ASSUME IInv, NEW s \in HostedBy(net, Far), FarAnswers(s) PROVE IInv'
<1> DEFINE v == Receive(net, s)
<1>1. s \in Socket /\ net.inbox[s] # << >> /\ Head(net.inbox[s]) # "CMSG_LEAVE" /\ Shape(net)
    BY DEF IInv, HostedBy, Shape, FarAnswers
<1>2. v.open = net.open /\ Evolves(net, v, {}, {}, {}) /\ Shape(v)
    BY <1>1, ReceiveEvolves DEF Evolves
<1>3. net' = SendAll(v, {s}, "answer") /\ "answer" \in Packet
    BY DEF FarAnswers, Packet
<1> HIDE DEF v
<1>4. net'.open = v.open /\ Evolves(v, net', {}, {}, {s})
    BY <1>2, <1>3, SendAllEvolves
<1>5. Evolves(net, net', {} \cup {}, {} \cup {}, {} \cup {s})
    BY <1>2, <1>4, Compose
<1>6. Evolves(net, net', {}, {}, {s}) /\ {} \subseteq Of(net, {Far}) /\ {s} \subseteq HostedBy(net, Far)
    BY <1>5
<1>7. net'.open \subseteq net.open /\ UNCHANGED clientVars /\ UNCHANGED serverVars
    BY <1>2, <1>4 DEF FarAnswers
<1> QED
    BY <1>6, <1>7, FarInv

LEMMA FarEndsInv == ASSUME IInv, NEW s \in HostedBy(net, Far), FarEnds(s) PROVE IInv'
<1>1. Shape(net) /\ UNCHANGED clientVars /\ UNCHANGED serverVars
    BY DEF IInv, FarEnds
<1>2. PICK v : /\ net' = After(v, {Far}) /\ v.open = net.open /\ v.host = net.host
               /\ Evolves(net, v, {}, {}, {s})
  <2>1. CASE net' = After(net, {Far})
    <3>1. Evolves(net, net, {}, {}, {s})
        BY <1>1, Stays DEF Evolves
    <3> QED
        BY <2>1, <3>1
  <2>2. CASE net' = After(SendAll(net, {s}, "CMSG_LEAVE"), {Far})
      BY <1>1, <2>2, SendAllEvolves DEF Packet
  <2> QED
      BY <2>1, <2>2 DEF FarEnds
<1>3. Of(v, {Far}) = Of(net, {Far})
    BY <1>2 DEF Of, HostedBy
<1>4. /\ net'.open = v.open \ Of(v, {Far})
      /\ Evolves(v, net', Of(v, {Far}), {}, {})
    BY <1>2, AfterEvolves DEF Evolves
<1>5. Evolves(net, net', {} \cup Of(net, {Far}), {} \cup {}, {s} \cup {})
    BY <1>2, <1>3, <1>4, Compose
<1>6. Evolves(net, net', Of(net, {Far}), {}, {s}) /\ {s} \subseteq HostedBy(net, Far)
      /\ net'.open \subseteq net.open
    BY <1>2, <1>4, <1>5
<1> QED
    BY <1>1, <1>6, FarInv

-----------------------------------------------------------------------------
(* The theorems.                                                           *)

LEMMA InitInv == Init => IInv
<1> SUFFICES ASSUME Init
             PROVE  IInv
    OBVIOUS
<1>1. << >> \in Seq(Socket) /\ << >> \in Seq(Packet)
    BY EmptySeq
<1>2. Shape(net)
    BY <1>1 DEF Init, EmptyNet, Shape
<1>3. /\ client \in [Client -> ClientAt] /\ conn \in [Client -> Socket \cup {NoSock}]
      /\ \A c \in Client : client[c] \notin TalkAt
    BY DEF Init, ClientAt, TalkAt
<1>4. ServerSockets
    BY <1>1 DEF Init, ServerSockets
<1>5. SessionInv
    BY <1>3, <1>4 DEF SessionInv, ClientsReach, OthersHearNothing, AgreeOnSession, TalkAt
<1>6. NeighbourInv
    BY DEF Init, NeighbourInv, NeighbourIsFar, EndsAreAnnounced
<1> QED
    BY <1>2, <1>5, <1>6 DEF IInv

LEMMA NextInv == IInv /\ [Next]_vars => IInv'
<1> SUFFICES ASSUME IInv, [Next]_vars
             PROVE  IInv'
    OBVIOUS
<1>1. CASE UNCHANGED vars
    BY <1>1, NothingMoves DEF vars, clientVars, serverVars
<1>2. ASSUME NEW c \in Client, ClientStep(c)
      PROVE  IInv'
    BY <1>2, ConnectsInv, CannotConnectInv, ShakenInv, NotShakenInv, CommandsInv, ListensInv,
       ClearsInv, WaitsInv DEF ClientStep
<1>3. ASSUME NEW c \in Client, ClientEnds(c)
      PROVE  IInv'
    BY <1>3, ClientEndsInv DEF ClientEnds
<1>4. CASE Turn
    BY <1>4, AcceptInv, ShakeOkInv, StartFailsInv, ReadNeighbourInv, SkipNeighbourInv,
       ReadClientInv, SkipClientInv, ServeInv, LeaveInv DEF Turn
<1>5. CASE Start
    BY <1>5, ListenInv, JoinInv, StartFailsInv DEF Start
<1>6. CASE ClientArgvFails \/ ServerArgvFails \/ Sigint \/ CtrlC
    BY <1>6, ClientArgvFailsInv, StartFailsInv, SigintActionInv, CtrlCInv
<1>7. ASSUME NEW s \in HostedBy(net, Far), FarAnswers(s) \/ FarEnds(s)
      PROVE  IInv'
    BY <1>7, FarAnswersInv, FarEndsInv
<1>8. ASSUME NEW c \in Client, NEW line, Types(c, line)
      PROVE  IInv'
    BY <1>8, TypesInv
<1> QED
    BY <1>1, <1>2, <1>3, <1>4, <1>5, <1>6, <1>7, <1>8 DEF Next

\* The invariant holds, however many other processes connect to the server and however many
\* requests their users type.
THEOREM IInvHolds == Spec => []IInv
<1>1. Init => IInv
    BY InitInv
<1>2. IInv /\ [Next]_vars => IInv'
    BY NextInv
<1> QED
    BY <1>1, <1>2, PTL DEF Spec

\* A client process that got its handshake and a server that still runs mean each other by it
\* (handshake() of src/client.c and handle_accept_result of src/server.c), whatever other
\* local processes connect and whichever processes end.
THEOREM SessionIsMutual == Spec => []AgreeOnSession
<1>1. IInv => AgreeOnSession
    BY DEF IInv, SessionInv
<1> QED
    BY <1>1, IInvHolds, PTL

\* A neighbour that outlives the server has been told of its end by leave_network, unless
\* SIGPIPE or the handshake of a stranger ended it.
THEOREM DeathsAreAnnounced == Spec => []EndsAreAnnounced
<1>1. IInv => EndsAreAnnounced
    BY DEF IInv, NeighbourInv
<1> QED
    BY <1>1, IInvHolds, PTL

-----------------------------------------------------------------------------
(* Types, and the ledger of requests.                                      *)

\* How often the packet p is in the inbox q.
Places(q, p) == {k \in DOMAIN q : q[k] = p}
Count(q, p) == Cardinality(Places(q, p))

LEMMA CountType ==
    ASSUME NEW q \in Seq(Packet), NEW p
    PROVE  IsFiniteSet(Places(q, p)) /\ Count(q, p) \in Nat
<1>1. Len(q) \in Nat /\ DOMAIN q = 1 .. Len(q)
    BY LenProperties
<1>2. IsFiniteSet(1 .. Len(q)) /\ Places(q, p) \in SUBSET (1 .. Len(q))
    BY <1>1, FS_Interval DEF Places
<1>3. IsFiniteSet(Places(q, p))
    BY <1>2, FS_Subset
<1> QED
    BY <1>3, FS_CardinalityType DEF Count

LEMMA CountEmpty == \A p : Count(<< >>, p) = 0
<1> TAKE p
<1>1. DOMAIN << >> = {}
    OBVIOUS
<1>2. Places(<< >>, p) = {}
    BY <1>1 DEF Places
<1> QED
    BY <1>2, FS_EmptySet DEF Count

LEMMA CountOther ==
    ASSUME NEW e, NEW p, e # p
    PROVE  Count(<<e>>, p) = 0
<1>1. DOMAIN <<e>> = {1} /\ <<e>>[1] = e
    OBVIOUS
<1>2. Places(<<e>>, p) = {}
    BY <1>1 DEF Places
<1> QED
    BY <1>2, FS_EmptySet DEF Count

LEMMA CountAppend ==
    ASSUME NEW q \in Seq(Packet), NEW e \in Packet, NEW p
    PROVE  Count(Append(q, e), p) = Count(q, p) + (IF e = p THEN 1 ELSE 0)
<1> DEFINE longer == Append(q, e)
           n == Len(q) + 1
<1>1. /\ Len(q) \in Nat /\ DOMAIN q = 1 .. Len(q) /\ DOMAIN longer = 1 .. n
      /\ \A k \in 1 .. n : longer[k] = IF k = n THEN e ELSE q[k]
    OBVIOUS
<1>2. Places(longer, p) = IF e = p THEN Places(q, p) \cup {n} ELSE Places(q, p)
    BY <1>1 DEF Places
<1>3. n \notin Places(q, p)
    BY <1>1 DEF Places
<1>4. IsFiniteSet(Places(q, p)) /\ Count(q, p) \in Nat
    BY CountType
<1>5. Cardinality(Places(q, p) \cup {n}) = Cardinality(Places(q, p)) + 1
    BY <1>3, <1>4, FS_AddElement
<1> QED
    BY <1>2, <1>4, <1>5 DEF Count

LEMMA CountTail ==
    ASSUME NEW q \in Seq(Packet), q # << >>, NEW p
    PROVE  Count(Tail(q), p) = Count(q, p) - (IF Head(q) = p THEN 1 ELSE 0)
<1> DEFINE A == Places(Tail(q), p)
           B == Places(q, p) \ {1}
           f == [k \in A |-> k + 1]
<1>1. /\ Len(q) \in Nat \ {0} /\ Head(q) = q[1] /\ DOMAIN q = 1 .. Len(q)
      /\ Tail(q) \in Seq(Packet) /\ DOMAIN Tail(q) = 1 .. Len(q) - 1
      /\ \A k \in 1 .. Len(q) - 1 : Tail(q)[k] = q[k + 1]
    BY HeadTailProperties, LenProperties, EmptySeq
<1>2. A = {k \in 1 .. Len(q) - 1 : q[k + 1] = p}
    BY <1>1 DEF Places
<1>3. B = {k \in 2 .. Len(q) : q[k] = p}
    BY <1>1 DEF Places
<1> HIDE DEF A, B
<1>4. f \in [A -> B] /\ \A s, t \in A : f[s] = f[t] => s = t
    BY <1>1, <1>2, <1>3
<1>5. \A t \in B : \E s \in A : f[s] = t
  <2> TAKE t \in B
  <2>1. t - 1 \in A /\ f[t - 1] = t
      BY <1>1, <1>2, <1>3
  <2> QED
      BY <2>1
<1>6. ExistsBijection(A, B)
    BY <1>4, <1>5, Fun_IsBij, Fun_ExistsBij
<1>7. IsFiniteSet(A) /\ IsFiniteSet(Places(q, p)) /\ Count(q, p) \in Nat
    BY <1>1, CountType DEF A
<1>8. Cardinality(B) = Cardinality(A)
    BY <1>6, <1>7, FS_Bijection
<1>9. Cardinality(B) = IF 1 \in Places(q, p) THEN Cardinality(Places(q, p)) - 1
                       ELSE Cardinality(Places(q, p))
    BY <1>7, FS_RemoveElement DEF B
<1>10. 1 \in Places(q, p) <=> Head(q) = p
    BY <1>1 DEF Places
<1> QED
    BY <1>7, <1>8, <1>9, <1>10 DEF A, Count

\* A packet at the head is one.
LEMMA CountHead ==
    ASSUME NEW q \in Seq(Packet), q # << >>
    PROVE  Count(q, Head(q)) >= 1
<1>1. Tail(q) \in Seq(Packet)
    BY HearsTail
<1>2. Count(Tail(q), Head(q)) \in Nat /\ Count(q, Head(q)) \in Nat
    BY <1>1, CountType
<1> QED
    BY <1>2, CountTail

-----------------------------------------------------------------------------
(* What the operators of Network do to them.                               *)

Wire == [open : SUBSET Socket, host : [Socket -> Node \cup {NoNode}],
         inbox : [Socket -> Seq(Packet)], broken : SUBSET Socket]
Sound(w) == w \in Wire /\ Shape(w)

\* The ends of C are closed, and packets are added at most as X has it, one to an end; an
\* end of file remains one.
Gains(w, v, X) ==
    \A s \in Socket, p \in {"request", "answer"} :
       Count(v.inbox[s], p) <= Count(w.inbox[s], p) + (IF <<s, p>> \in X THEN 1 ELSE 0)
Keeps(w, v, C) ==
    \A s \in w.open \ C : s \in v.open /\ v.host[s] = w.host[s] /\ (AtEof(w, s) => AtEof(v, s))
Flows(w, v, C, X) == Sound(v) /\ Gains(w, v, X) /\ Keeps(w, v, C)

LEMMA CountsOf ==
    ASSUME NEW w, Sound(w)
    PROVE  \A s \in Socket : \A p : w.inbox[s] \in Seq(Packet) /\ Count(w.inbox[s], p) \in Nat
BY CountType DEF Sound, Shape

LEMMA GainsNothing ==
    ASSUME NEW w, NEW v, Sound(w),
           \A s \in Socket, p \in {"request", "answer"} : Count(v.inbox[s], p) <= Count(w.inbox[s], p)
    PROVE  Gains(w, v, {})
<1>1. ASSUME NEW s \in Socket, NEW p \in {"request", "answer"}
      PROVE  Count(v.inbox[s], p) <= Count(w.inbox[s], p) + (IF <<s, p>> \in {} THEN 1 ELSE 0)
  <2>1. Count(w.inbox[s], p) \in Nat /\ <<s, p>> \notin {}
      BY CountsOf
  <2> QED
      BY <2>1
<1> QED
    BY <1>1 DEF Gains

LEMMA FlowsStays ==
    ASSUME NEW w, Sound(w)
    PROVE  Flows(w, w, {}, {})
<1>1. \A s \in Socket, p \in {"request", "answer"} : Count(w.inbox[s], p) <= Count(w.inbox[s], p)
    BY CountsOf
<1> QED
    BY <1>1, GainsNothing DEF Flows, Keeps

LEMMA FlowsOn ==
    ASSUME NEW w, NEW v, NEW x, NEW C, NEW D, NEW X, NEW Y,
           Sound(w), Flows(w, v, C, X), Flows(v, x, D, Y), X \cap Y = {}
    PROVE  Flows(w, x, C \cup D, X \cup Y)
<1>1. Sound(v) /\ Sound(x)
    BY DEF Flows
<1>2. Gains(w, x, X \cup Y)
  <2> SUFFICES ASSUME NEW s \in Socket, NEW p \in {"request", "answer"}
               PROVE  Count(x.inbox[s], p) <= Count(w.inbox[s], p) + (IF <<s, p>> \in X \cup Y THEN 1 ELSE 0)
      BY DEF Gains
  <2>1. /\ Count(w.inbox[s], p) \in Nat /\ Count(v.inbox[s], p) \in Nat /\ Count(x.inbox[s], p) \in Nat
      BY <1>1, CountsOf
  <2>2. /\ Count(v.inbox[s], p) <= Count(w.inbox[s], p) + (IF <<s, p>> \in X THEN 1 ELSE 0)
        /\ Count(x.inbox[s], p) <= Count(v.inbox[s], p) + (IF <<s, p>> \in Y THEN 1 ELSE 0)
      BY DEF Flows, Gains
  <2>3. ~(<<s, p>> \in X /\ <<s, p>> \in Y)
      OBVIOUS
  <2> QED
      BY <2>1, <2>2, <2>3
<1>3. Keeps(w, x, C \cup D)
    BY DEF Flows, Keeps
<1> QED
    BY <1>1, <1>2, <1>3 DEF Flows

LEMMA ReceiveFlows ==
    ASSUME NEW w, Sound(w), NEW s \in Socket, w.inbox[s] # << >>
    PROVE  /\ Flows(w, Receive(w, s), {}, {})
           /\ \A p : Count(Receive(w, s).inbox[s], p)
                        = Count(w.inbox[s], p) - (IF Head(w.inbox[s]) = p THEN 1 ELSE 0)
<1> DEFINE v == Receive(w, s)
<1>1. w \in Wire /\ Shape(w) /\ w.inbox \in [Socket -> Seq(Packet)] /\ w.inbox[s] \in Seq(Packet)
    BY DEF Sound, Shape
<1>2. Shape(v) /\ v.open = w.open /\ v.host = w.host
    BY <1>1, ReceiveOp
<1>3. v.inbox = [w.inbox EXCEPT ![s] = Tail(@)]
    BY DEF Receive
<1>4. v = [open |-> w.open, host |-> w.host, inbox |-> v.inbox, broken |-> w.broken]
    BY DEF Receive
<1> HIDE DEF v
<1>5. v.inbox \in [Socket -> Seq(Packet)]
    BY <1>2 DEF Shape
<1>6. v \in Wire
  <2>1. w.open \in SUBSET Socket /\ w.host \in [Socket -> Node \cup {NoNode}]
        /\ w.broken \in SUBSET Socket
      BY <1>1 DEF Wire
  <2> QED
      BY <1>5, <1>4, <2>1 DEF Wire
<1>7. \A t \in Socket : v.inbox[t] = IF t = s THEN Tail(w.inbox[s]) ELSE w.inbox[t]
    BY <1>1, <1>3
<1>8. \A p : Count(v.inbox[s], p) = Count(w.inbox[s], p) - (IF Head(w.inbox[s]) = p THEN 1 ELSE 0)
    BY <1>1, <1>7, CountTail
<1>9. \A t \in Socket : \A p : Count(w.inbox[t], p) \in Nat
    BY CountsOf
<1>10. Gains(w, v, {})
  <2> SUFFICES ASSUME NEW t \in Socket, NEW p \in {"request", "answer"}
               PROVE  Count(v.inbox[t], p) <= Count(w.inbox[t], p)
      BY GainsNothing
  <2>1. CASE t = s
    <3>1. /\ Count(v.inbox[s], p)
               = Count(w.inbox[s], p) - (IF Head(w.inbox[s]) = p THEN 1 ELSE 0)
          /\ Count(w.inbox[s], p) \in Nat
        BY <1>8, <1>9
    <3> QED
        BY <2>1, <3>1
  <2>2. CASE t # s
      BY <1>7, <1>9, <2>2
  <2> QED
      BY <2>1, <2>2
<1>11. Keeps(w, v, {})
  <2> SUFFICES ASSUME NEW t \in w.open
               PROVE  t \in v.open /\ v.host[t] = w.host[t] /\ (AtEof(w, t) => AtEof(v, t))
      BY DEF Keeps
  <2>1. t \in Socket
      BY <1>1 DEF Shape
  <2> QED
      BY <1>2, <1>7, <2>1 DEF AtEof
<1> QED
    BY <1>2, <1>6, <1>8, <1>10, <1>11 DEF Flows, Sound, v

LEMMA SendFlows ==
    ASSUME NEW w, Sound(w), NEW s \in w.open, NEW msg \in Packet
    PROVE  Flows(w, SendAll(w, {s}, msg), {}, {<<Peer(s), msg>>})
<1> DEFINE v == SendAll(w, {s}, msg)
<1>1. w \in Wire /\ Shape(w) /\ s \in Socket
    BY DEF Sound, Shape
<1>2. Shape(v) /\ v.open = w.open /\ v.host = w.host
    BY <1>1, SendAllOp
<1>3. v = [open |-> w.open, host |-> w.host, inbox |-> v.inbox,
           broken |-> w.broken \cup {t \in {s} : Peer(t) \notin w.open}]
      /\ \A t \in Socket : v.inbox[t] = IF t \in w.open /\ Peer(t) \in {s}
                                        THEN Append(w.inbox[t], msg) ELSE w.inbox[t]
    BY DEF SendAll
<1> HIDE DEF v
<1>4. v.inbox \in [Socket -> Seq(Packet)]
    BY <1>2 DEF Shape
<1>5. v \in Wire
  <2>1. w.broken \cup {t \in {s} : Peer(t) \notin w.open} \in SUBSET Socket
      BY <1>1 DEF Wire
  <2> QED
      BY <1>1, <1>3, <1>4, <2>1 DEF Wire
<1>6. \A t \in Socket : \A p : w.inbox[t] \in Seq(Packet) /\ Count(w.inbox[t], p) \in Nat
    BY CountsOf
<1>7. Gains(w, v, {<<Peer(s), msg>>})
  <2> SUFFICES ASSUME NEW t \in Socket, NEW p \in {"request", "answer"}
               PROVE  Count(v.inbox[t], p)
                        <= Count(w.inbox[t], p) + (IF <<t, p>> \in {<<Peer(s), msg>>} THEN 1 ELSE 0)
      BY DEF Gains
  <2>1. CASE t \in w.open /\ Peer(t) = s
    <3>1. v.inbox[t] = Append(w.inbox[t], msg) /\ t = Peer(s)
        BY <1>3, <2>1, PeerOf
    <3>2. Count(v.inbox[t], p) = Count(w.inbox[t], p) + (IF msg = p THEN 1 ELSE 0)
        BY <1>6, <3>1, CountAppend
    <3> QED
        BY <1>6, <3>1, <3>2
  <2>2. CASE ~(t \in w.open /\ Peer(t) = s)
      BY <1>3, <1>6, <2>2
  <2> QED
      BY <2>1, <2>2
<1>8. Keeps(w, v, {})
  <2> SUFFICES ASSUME NEW t \in w.open
               PROVE  t \in v.open /\ v.host[t] = w.host[t] /\ (AtEof(w, t) => AtEof(v, t))
      BY DEF Keeps
  <2>1. t \in Socket
      BY <1>1 DEF Shape
  <2> QED
      BY <1>2, <1>3, <2>1 DEF AtEof
<1> QED
    BY <1>2, <1>5, <1>7, <1>8 DEF Flows, Sound, v

LEMMA CloseFlows ==
    ASSUME NEW w, Sound(w), NEW S
    PROVE  Flows(w, CloseAll(w, S), S, {})
<1> DEFINE v == CloseAll(w, S)
<1>1. w \in Wire /\ Shape(w)
    BY DEF Sound
<1>2. /\ Shape(v) /\ v.open = w.open \ S
      /\ \A t \in w.open \ S : v.host[t] = w.host[t]
    BY <1>1, CloseAllOp
<1>3. /\ v = [open |-> v.open, host |-> v.host, inbox |-> v.inbox, broken |-> v.broken]
      /\ v.broken \subseteq w.broken \cup w.open
      /\ \A t \in Socket : v.inbox[t] = IF t \in S THEN << >> ELSE w.inbox[t]
    BY DEF CloseAll
<1> HIDE DEF v
<1>4. v.inbox \in [Socket -> Seq(Packet)] /\ v.host \in [Socket -> Node \cup {NoNode}]
      /\ v.open \in SUBSET Socket
    BY <1>2 DEF Shape
<1>5. v \in Wire
  <2>1. v.broken \in SUBSET Socket
      BY <1>1, <1>3 DEF Wire
  <2> QED
      BY <1>3, <1>4, <2>1 DEF Wire
<1>6. Gains(w, v, {})
  <2> SUFFICES ASSUME NEW t \in Socket, NEW p \in {"request", "answer"}
               PROVE  Count(v.inbox[t], p) <= Count(w.inbox[t], p)
      BY GainsNothing
  <2>1. Count(w.inbox[t], p) \in Nat
      BY CountsOf
  <2>2. v.inbox[t] = << >> \/ v.inbox[t] = w.inbox[t]
      BY <1>3
  <2> QED
      BY <2>1, <2>2, CountEmpty
<1>7. Keeps(w, v, S)
  <2> SUFFICES ASSUME NEW t \in w.open \ S
               PROVE  t \in v.open /\ v.host[t] = w.host[t] /\ (AtEof(w, t) => AtEof(v, t))
      BY DEF Keeps
  <2>1. t \in Socket
      BY <1>1 DEF Shape
  <2> QED
      BY <1>2, <1>3, <2>1 DEF AtEof
<1> QED
    BY <1>2, <1>5, <1>6, <1>7 DEF Flows, Sound, v

\* The first packet on a connection is not one of those.
LEMMA DialFlows ==
    ASSUME NEW w, Sound(w), NEW k \in Conn, IsFree(w, k), NEW from \in Node, NEW to \in Node,
           NEW msg \in Packet \ {"request", "answer"}
    PROVE  /\ Flows(w, Dial(w, k, from, to, msg), {}, {})
           /\ Callee(k) \in HostedBy(Dial(w, k, from, to, msg), to)
<1> DEFINE v == Dial(w, k, from, to, msg)
<1>1. w \in Wire /\ Shape(w)
    BY DEF Sound
<1>2. /\ Shape(v) /\ v.open = w.open \cup {Caller(k), Callee(k)} /\ v.host[Callee(k)] = to
      /\ \A t \in w.open : t # Caller(k) /\ t # Callee(k) /\ v.host[t] = w.host[t]
      /\ v.inbox[Callee(k)] = <<msg>>
      /\ \A t \in Socket \ {Callee(k)} : v.inbox[t] = w.inbox[t]
    BY <1>1, DialOp
<1>3. v = [open |-> v.open, host |-> v.host, inbox |-> v.inbox, broken |-> w.broken]
    BY DEF Dial
<1> HIDE DEF v
<1>4. v \in Wire
  <2>1. v.inbox \in [Socket -> Seq(Packet)] /\ v.host \in [Socket -> Node \cup {NoNode}]
        /\ v.open \in SUBSET Socket /\ w.broken \in SUBSET Socket
      BY <1>1, <1>2 DEF Shape, Wire
  <2> QED
      BY <1>3, <2>1 DEF Wire
<1>5. Gains(w, v, {})
  <2> SUFFICES ASSUME NEW t \in Socket, NEW p \in {"request", "answer"}
               PROVE  Count(v.inbox[t], p) <= Count(w.inbox[t], p)
      BY GainsNothing
  <2>1. Count(w.inbox[t], p) \in Nat
      BY CountsOf
  <2>2. CASE t = Callee(k)
    <3>1. Count(<<msg>>, p) = 0
        BY CountOther
    <3> QED
        BY <1>2, <2>1, <2>2, <3>1
  <2>3. CASE t # Callee(k)
      BY <1>2, <2>1, <2>3
  <2> QED
      BY <2>2, <2>3
<1>6. Keeps(w, v, {})
  <2> SUFFICES ASSUME NEW t \in w.open
               PROVE  t \in v.open /\ v.host[t] = w.host[t] /\ (AtEof(w, t) => AtEof(v, t))
      BY DEF Keeps
  <2>1. t \in Socket /\ t \in v.open /\ v.host[t] = w.host[t] /\ t # Callee(k) /\ t # Caller(k)
      BY <1>1, <1>2 DEF Shape
  <2>2. v.inbox[t] = w.inbox[t]
      BY <1>2, <2>1
  <2>3. Peer(t) # Callee(k) /\ Peer(t) # Caller(k)
      BY <2>1, PeerOf, EndsOf
  <2> QED
      BY <1>2, <2>1, <2>2, <2>3 DEF AtEof
<1> QED
    BY <1>2, <1>4, <1>5, <1>6, EndsOf DEF Flows, Sound, HostedBy, v

-----------------------------------------------------------------------------
(* Clients and their users.                                                *)

\* A user's next line waits until the last has been read, and those of other processes are
\* typed at the prompt.
OneLine == {<< >>} \cup {<<line>> : line \in Line}

ClientsOK ==
    /\ tries \in [Client -> 0 .. MaxAttempts]
    /\ \A c \in Client : client[c] = "connect" => tries[c] < MaxAttempts
    /\ input \in [Client -> OneLine]
    /\ \A c \in Client \ {Own} : input[c] # << >> => client[c] = "prompt"
    /\ typed \in 0 .. MaxRequests

LEMMA Lines ==
    /\ << >> \in OneLine
    /\ \A q \in OneLine : /\ q \in Seq(Line)
                          /\ q # << >> => Tail(q) = << >> /\ Head(q) \in Line
    /\ \A line \in Line : /\ Append(<< >>, line) \in OneLine /\ Append(<< >>, line) # << >>
                          /\ Head(Append(<< >>, line)) = line
    /\ \A q \in OneLine : q # << >> => /\ <<"other">> \o Tail(q) \in OneLine
                                       /\ Head(<<"other">> \o Tail(q)) = "other"
<1>1. << >> \in OneLine /\ \A line \in Line : <<line>> \in OneLine
    BY DEF OneLine
<1>2. ASSUME NEW q \in OneLine
      PROVE  q \in Seq(Line) /\ (q # << >> => Tail(q) = << >> /\ Head(q) \in Line)
  <2>1. CASE q = << >>
      BY <2>1, EmptySeq
  <2>2. ASSUME NEW line \in Line, q = <<line>>
        PROVE  q \in Seq(Line) /\ Tail(q) = << >> /\ Head(q) \in Line
      BY <2>2
  <2> QED
      BY <1>2, <2>1, <2>2 DEF OneLine
<1>3. ASSUME NEW line \in Line
      PROVE  Append(<< >>, line) = <<line>> /\ <<line>> # << >> /\ Head(<<line>>) = line
    OBVIOUS
<1>4. <<"other">> \o << >> = <<"other">> /\ Head(<<"other">>) = "other" /\ "other" \in Line
    BY DEF Line
<1>5. \A q \in OneLine : q # << >> => /\ <<"other">> \o Tail(q) \in OneLine
                                      /\ Head(<<"other">> \o Tail(q)) = "other"
  <2> TAKE q \in OneLine
  <2>1. q # << >> => Tail(q) = << >>
      BY <1>2
  <2> QED
      BY <1>1, <1>4, <2>1
<1> QED
    BY <1>1, <1>2, <1>3, <1>5

\* The variables of c go on from those of the others.
LEMMA ClientsStep ==
    ASSUME ClientsOK, client \in [Client -> ClientAt], NEW c \in Client, NEW next,
           client' = [client EXCEPT ![c] = next],
           NEW t \in 0 .. MaxAttempts, tries' = [tries EXCEPT ![c] = t],
           next = "connect" => t < MaxAttempts,
           NEW q \in OneLine, input' = [input EXCEPT ![c] = q],
           c # Own => q = << >> \/ next = "prompt",
           typed' \in 0 .. MaxRequests
    PROVE  ClientsOK'
<1>1. /\ tries' \in [Client -> 0 .. MaxAttempts] /\ tries'[c] = t
      /\ \A d \in Client \ {c} : tries'[d] = tries[d]
    BY DEF ClientsOK
<1>2. /\ input' \in [Client -> OneLine] /\ input'[c] = q
      /\ \A d \in Client \ {c} : input'[d] = input[d]
    BY DEF ClientsOK
<1>3. client'[c] = next /\ \A d \in Client \ {c} : client'[d] = client[d]
    OBVIOUS
<1>4. \A d \in Client : client'[d] = "connect" => tries'[d] < MaxAttempts
    BY <1>1, <1>3 DEF ClientsOK
<1>5. \A d \in Client \ {Own} : input'[d] # << >> => client'[d] = "prompt"
    BY <1>2, <1>3 DEF ClientsOK
<1> QED
    BY <1>1, <1>2, <1>4, <1>5 DEF ClientsOK

LEMMA ClientsStay ==
    ASSUME ClientsOK, UNCHANGED <<client, tries, input, typed>>
    PROVE  ClientsOK'
BY DEF ClientsOK

\* What of c does not change.
LEMMA Unmoved ==
    ASSUME ClientsOK, client \in [Client -> ClientAt], NEW c \in Client
    PROVE  /\ client = [client EXCEPT ![c] = client[c]]
           /\ tries = [tries EXCEPT ![c] = tries[c]] /\ tries[c] \in 0 .. MaxAttempts
           /\ input = [input EXCEPT ![c] = input[c]] /\ input[c] \in OneLine
BY DEF ClientsOK

LEMMA ClientGoneOK ==
    ASSUME ClientsOK, client \in [Client -> ClientAt], NEW c \in Client, ClientGone(c)
    PROVE  ClientsOK'
<1>1. 0 \in 0 .. MaxAttempts /\ typed' \in 0 .. MaxRequests
    BY SessionAssumption DEF ClientsOK, ClientGone
<1> QED
    BY <1>1, Lines, ClientsStep DEF ClientGone

LEMMA ClientsOKStep ==
    ASSUME IInv, ClientsOK, Next
    PROVE  ClientsOK'
<1>1. client \in [Client -> ClientAt] /\ Own \in Client
    BY Processes DEF IInv, SessionInv
<1>2. typed \in 0 .. MaxRequests
    BY DEF ClientsOK
<1>3. ASSUME NEW c \in Client, NEW next, NEW t \in 0 .. MaxAttempts,
             client' = [client EXCEPT ![c] = next], tries' = [tries EXCEPT ![c] = t],
             next = "connect" => t < MaxAttempts, UNCHANGED <<input, typed>>,
             c # Own => input[c] = << >> \/ next = "prompt"
      PROVE  ClientsOK'
  <2>1. input' = [input EXCEPT ![c] = input[c]] /\ input[c] \in OneLine
      BY <1>1, <1>3, Unmoved
  <2> QED
      BY <1>1, <1>2, <1>3, <2>1, ClientsStep
<1>4. ASSUME NEW c \in Client, Connects(c) \/ CannotConnect(c)
      PROVE  ClientsOK'
  <2>1. /\ tries[c] \in 0 .. MaxAttempts /\ tries[c] < MaxAttempts
        /\ c # Own => input[c] = << >>
        /\ UNCHANGED <<input, typed>>
      BY <1>4 DEF ClientsOK, Connects, CannotConnect
  <2>2. 0 \in 0 .. MaxAttempts /\ tries[c] + 1 \in 0 .. MaxAttempts
        /\ (tries[c] + 1 # MaxAttempts => tries[c] + 1 < MaxAttempts)
      BY <2>1, SessionAssumption
  <2>3. CASE Connects(c)
      BY <1>3, <2>1, <2>2, <2>3 DEF Connects
  <2>4. CASE CannotConnect(c)
    <3>1. tries' = [tries EXCEPT ![c] = tries[c] + 1] /\ tries'[c] = tries[c] + 1
        BY <2>4 DEF CannotConnect, ClientsOK
    <3>2. \/ client' = [client EXCEPT ![c] = "wait"]
          \/ client' = [client EXCEPT ![c] = client[c]] /\ tries[c] + 1 < MaxAttempts
        BY <1>1, <2>2, <2>4, <3>1, Unmoved DEF CannotConnect
    <3> QED
        BY <1>3, <2>1, <2>2, <3>1, <3>2
  <2> QED
      BY <1>4, <2>3, <2>4
<1>5. ASSUME NEW c \in Client, NEW next, client' = [client EXCEPT ![c] = next], next # "connect",
             UNCHANGED <<tries, input, typed>>, c # Own => input[c] = << >> \/ next = "prompt"
      PROVE  ClientsOK'
  <2>1. tries' = [tries EXCEPT ![c] = tries[c]] /\ tries[c] \in 0 .. MaxAttempts
      BY <1>1, <1>5, Unmoved
  <2> QED
      BY <1>3, <1>5, <2>1
<1>6. ASSUME NEW c \in Client, Shaken(c) \/ Listens(c)
      PROVE  ClientsOK'
  <2>1. c # Own => input[c] = << >>
      BY <1>6 DEF ClientsOK, Shaken, Listens
  <2> QED
      BY <1>5, <1>6, <2>1 DEF Shaken, Listens, AfterListening
<1>7. ASSUME NEW c \in Client, NotShaken(c) \/ ClientEnds(c) \/ Waits(c) \/ DiesWriting(c)
      PROVE  ClientsOK'
    BY <1>1, <1>7, ClientGoneOK DEF NotShaken, ClientEnds, Waits, DiesWriting
<1>8. ASSUME NEW c \in Client, NEW line \in Line, Types(c, line)
      PROVE  ClientsOK'
  <2>1. /\ input[c] = << >> /\ (c # Own => client[c] = "prompt")
        /\ input' = [input EXCEPT ![c] = Append(input[c], line)]
        /\ UNCHANGED <<client, tries>>
      BY <1>8 DEF Types
  <2>2. input' = [input EXCEPT ![c] = Append(<< >>, line)] /\ Append(<< >>, line) \in OneLine
      BY <2>1, Lines
  <2>3. typed' \in 0 .. MaxRequests
      BY <1>2, <1>8, SessionAssumption DEF Types
  <2>4. client[c] = "connect" => tries[c] < MaxAttempts
      BY DEF ClientsOK
  <2>5. client' = [client EXCEPT ![c] = client[c]]
      BY <1>1, <2>1, Unmoved
  <2>6. tries' = [tries EXCEPT ![c] = tries[c]] /\ tries[c] \in 0 .. MaxAttempts
      BY <1>1, <2>1, Unmoved
  <2> QED
      BY <1>1, <2>1, <2>2, <2>3, <2>4, <2>5, <2>6, ClientsStep
<1>9. ASSUME NEW c \in Client, Commands(c)
      PROVE  ClientsOK'
  <2>1. CASE DiesWriting(c)
      BY <1>7, <2>1
  <2>2. CASE /\ \E next \in {"listen", "quit", "prompt"} : client' = [client EXCEPT ![c] = next]
             /\ input[c] # << >> /\ input' = [input EXCEPT ![c] = Tail(input[c])]
             /\ UNCHANGED <<tries, typed>>
    <3>1. PICK next : next \in {"listen", "quit", "prompt"} /\ client' = [client EXCEPT ![c] = next]
        BY <2>2
    <3>2. Tail(input[c]) = << >> /\ << >> \in OneLine
        BY <1>1, <2>2, Lines, Unmoved
    <3>3. input' = [input EXCEPT ![c] = << >>]
        BY <2>2, <3>2
    <3> QED
        BY <1>1, <1>2, <2>2, <3>1, <3>2, <3>3, ClientsStep, Unmoved
  <2> QED
      BY <1>9, <2>1, <2>2 DEF Commands
<1>10. ASSUME NEW c \in Client, Clears(c)
       PROVE  ClientsOK'
  <2>1. c # Own => input[c] = << >>
      BY <1>10 DEF ClientsOK, Clears
  <2> QED
      BY <1>5, <1>7, <1>10, <2>1 DEF Clears
<1>11. ASSUME StealsInput
       PROVE  ClientsOK'
  <2>1. input[Own] # << >> /\ input[Own] \in OneLine /\ UNCHANGED <<client, tries, typed>>
      BY <1>1, <1>11, Unmoved DEF StealsInput
  <2>2. PICK q : q \in OneLine /\ input' = [input EXCEPT ![Own] = q]
    <3>1. Tail(input[Own]) \in OneLine /\ <<"other">> \o Tail(input[Own]) \in OneLine
        BY <2>1, Lines
    <3> QED
        BY <1>11, <3>1 DEF StealsInput
  <2>3. client[Own] = "connect" => tries[Own] < MaxAttempts
      BY <1>1 DEF ClientsOK
  <2> QED
      BY <1>1, <1>2, <2>1, <2>2, <2>3, ClientsStep, Unmoved
<1>12. CASE ClientGone(Own)
    BY <1>1, <1>12, ClientGoneOK
<1>13. CASE UNCHANGED clientVars
    BY <1>13, ClientsStay DEF clientVars
<1>14. CASE Turn \/ Start \/ ClientArgvFails \/ ServerArgvFails \/ Sigint \/ CtrlC
  <2>1. ClientGone(Own) \/ UNCHANGED clientVars \/ StealsInput
      BY <1>14 DEF Turn, Start, ClientArgvFails, ServerArgvFails, Sigint, CtrlC, Listen, Join, StartFails,
         Accept, ShakeOk, ShakeBad, ReadNeighbour, TellsClient, SkipNeighbour, ReadClient, HeedsExit,
         HeedsRequest, SkipClient, Serve, ServeDies, Leave, ServerEnds, ServerEndsWithItsClient
  <2> QED
      BY <1>11, <1>12, <1>13, <2>1
<1>15. CASE \E s \in HostedBy(net, Far) : FarAnswers(s) \/ FarEnds(s)
    BY <1>13, <1>15 DEF FarAnswers, FarEnds
<1> QED
    BY <1>4, <1>6, <1>7, <1>8, <1>9, <1>10, <1>14, <1>15 DEF Next, ClientStep

-----------------------------------------------------------------------------
(* Where the server is.                                                    *)

ServerOK ==
    /\ server \in ServerAt /\ handshake \in BOOLEAN /\ _loop \in BOOLEAN
    /\ reads \in Socket \cup {NoSock}
    /\ ending \in Ending /\ (ending = "not yet" <=> server # "gone")

LEMMA ServerStays ==
    ASSUME ServerOK, UNCHANGED <<server, handshake, _loop, reads, ending>>
    PROVE  ServerOK'
BY DEF ServerOK

LEMMA ServerGoneOK ==
    ASSUME NEW how \in Ending \ {"not yet"}, ServerGone(how)
    PROVE  ServerOK'
BY DEF ServerGone, ServerOK, ServerAt

LEMMA ServerGoesOK ==
    ASSUME ServerOK, server # "gone", NEW next \in ServerAt \ {"gone"}, Goes(next),
           handshake' \in BOOLEAN, _loop' \in BOOLEAN
    PROVE  ServerOK'
BY DEF Goes, ServerOK

LEMMA SigintOK ==
    ASSUME IInv, ServerOK, SigintEffect
    PROVE  ServerOK'
<1>1. CASE server = "gone" /\ UNCHANGED serverVars
    BY <1>1, ServerStays DEF serverVars
<1>2. CASE server \in {"boot", "join"} /\ ServerGone("killed")
    BY <1>2, ServerGoneOK DEF Ending
<1>3. CASE /\ server \notin {"boot", "join", "gone"}
           /\ _loop' = FALSE
           /\ server' \in {server, "leave"}
           /\ UNCHANGED <<handshake, reads, ending>>
    BY <1>3 DEF ServerOK, ServerAt
<1>4. CASE /\ server \in {"neighbour", "client"} /\ server' = "stuck" /\ _loop' = FALSE
           /\ reads' \in Socket \cup {NoSock}
           /\ UNCHANGED <<handshake, ending>>
    BY <1>4 DEF ServerOK, ServerAt
<1> QED
    BY <1>1, <1>2, <1>3, <1>4 DEF SigintEffect, Stdin

LEMMA EndsTurnOK ==
    ASSUME ServerOK, server # "gone", NEW requests, NEW goOn \in BOOLEAN, EndsTurn(requests, goOn),
           handshake' = handshake
    PROVE  ServerOK'
<1>1. PICK next \in ServerAt \ {"gone"} : Goes(next)
    BY DEF EndsTurn, ServerAt
<1> QED
    BY <1>1, ServerGoesOK DEF EndsTurn, ServerOK

LEMMA ServerOKStep ==
    ASSUME IInv, ServerOK, Next
    PROVE  ServerOK'
<1>1. CASE UNCHANGED serverVars
    BY <1>1, ServerStays DEF serverVars
<1>2. CASE SigintEffect
    BY <1>2, SigintOK
<1>3. ASSUME NEW how, ServerEnds(how) \/ ServerEndsWithItsClient(how),
             how \in {"SIGPIPE", "not started", "bad opcode", "bad arguments"}
      PROVE  ServerOK'
  <2>1. how \in Ending \ {"not yet"} /\ ServerGone(how)
      BY <1>3 DEF Ending, ServerEnds, ServerEndsWithItsClient
  <2> QED
      BY <2>1, ServerGoneOK
<1>4. ASSUME NEW next \in {"accept", "join", "shake", "neighbour", "client"}, server # "gone",
             server' = next, reads' \in {reads, NoSock}, UNCHANGED <<_loop, ending>>,
             handshake' \in {handshake, TRUE}
      PROVE  ServerOK'
    BY <1>4 DEF ServerOK, ServerAt
<1>5. CASE Listen \/ Join \/ Accept \/ ShakeOk \/ SkipNeighbour
    BY <1>4, <1>5 DEF Listen, Join, Accept, ShakeOk, SkipNeighbour, GoesToNeighbours, Goes
<1>6. CASE StartFails \/ ServerArgvFails \/ ShakeBad \/ ServeDies
    BY <1>3, <1>6 DEF StartFails, ServerArgvFails, ShakeBad, ServeDies
<1>7. CASE ReadNeighbour
  <2>1. server \in {"neighbour", "stuck"}
      BY <1>7 DEF ReadNeighbour, IsAt
  <2>2. \/ ServerEnds("SIGPIPE")
        \/ Goes("client") /\ UNCHANGED <<handshake, _loop>>
      BY <1>7 DEF ReadNeighbour, TellsClient
  <2> QED
      BY <1>3, <1>4, <2>1, <2>2 DEF Goes
<1>8. CASE ReadClient \/ SkipClient \/ Serve
  <2>1. server \in {"client", "stuck", "serve"}
      BY <1>8 DEF ReadClient, SkipClient, Serve, IsAt
  <2>2. \/ ServerEnds("SIGPIPE")
        \/ \E requests, goOn : goOn \in {_loop, FALSE} /\ EndsTurn(requests, goOn) /\ handshake' = handshake
    <3>1. CASE ReadClient
        BY <3>1 DEF ReadClient, HeedsExit, HeedsRequest
    <3>2. CASE SkipClient \/ Serve
        BY <3>2 DEF SkipClient, Serve
    <3> QED
        BY <1>8, <3>1, <3>2
  <2>3. _loop \in BOOLEAN
      BY DEF ServerOK
  <2> QED
      BY <1>3, <2>1, <2>2, <2>3, EndsTurnOK
<1>9. CASE Leave
  <2>1. ServerGone("in order") \/ ServerEnds("SIGPIPE")
      BY <1>9 DEF Leave
  <2> QED
      BY <1>3, <2>1, ServerGoneOK DEF Ending
<1>10. ASSUME NEW c \in Client, ClientStep(c) \/ ClientEnds(c) \/ \E line \in Line : Types(c, line)
       PROVE  ServerOK'
  <2>1. CASE Connects(c)
      BY <2>1, ServerStays DEF Connects
  <2>2. UNCHANGED serverVars \/ SigintEffect \/ Connects(c)
      BY <1>10 DEF ClientStep, CannotConnect, Shaken, NotShaken, Commands, Listens, Clears, Waits,
         ClientEnds, Types
  <2> QED
      BY <1>1, <1>2, <2>1, <2>2
<1>11. CASE ClientArgvFails \/ Sigint \/ CtrlC
    BY <1>2, <1>11 DEF ClientArgvFails, Sigint, CtrlC
<1>12. CASE \E s \in HostedBy(net, Far) : FarAnswers(s) \/ FarEnds(s)
    BY <1>1, <1>12 DEF FarAnswers, FarEnds
<1> QED
    BY <1>5, <1>6, <1>7, <1>8, <1>9, <1>10, <1>11, <1>12 DEF Next, Turn, Start

-----------------------------------------------------------------------------
(* The server's sockets, and the ledger.                                   *)

\* s is the server's end of a connection that it has accepted, or is to accept.
OwnEnd(w, s) == s \in HostedBy(w, Server) /\ s[2] = "callee"

SocketsOK ==
    /\ server = "gone" => backlog = << >>
    /\ server # "gone" =>
          /\ \A k \in DOMAIN backlog : OwnEnd(net, backlog[k])
          /\ client_socket # Stdin => OwnEnd(net, client_socket)
          /\ handshake => client_socket # Stdin

Sent == IF client_socket = Stdin THEN 0 ELSE Waiting(client_socket, "request")
OnLink == Waiting(neighbour, "answer") + Waiting(Peer(neighbour), "request")
Ended == client_socket # Stdin /\ AtEof(net, client_socket)

\* Before the handshake there are no requests.
Ledger ==
    server # "gone" =>
       /\ neighbour # NoSock => OnLink <= away
       /\ pending + away + Sent + Unread <= typed \/ Ended
       /\ ~handshake => pending = 0 /\ away = 0 /\ \A s \in Socket : Waiting(s, "request") = 0
       /\ server = "serve" => pending > 0 /\ neighbour # NoSock

RequestsOK ==
    /\ pending \in Nat /\ away \in Nat /\ pending + away <= MaxRequests
    /\ Ledger

Books == Sound(net) /\ SocketsOK /\ RequestsOK

LEMMA WaitingCounts == \A s, p : Waiting(s, p) = Count(net.inbox[s], p)
BY DEF Waiting, Count, Places

LEMMA WaitingType == Sound(net) => \A s \in Socket : \A p : Waiting(s, p) \in Nat
BY WaitingCounts, CountsOf

LEMMA UnreadType == Unread \in Nat /\ Unread' \in Nat
BY DEF Unread

LEMMA UnreadFalls ==
    ASSUME \A c \in Client : IsTyped(c)' => IsTyped(c)
    PROVE  Unread' <= Unread
BY Processes DEF Unread, Client

LEMMA UnreadStays == UNCHANGED input => Unread' <= Unread
<1> SUFFICES ASSUME UNCHANGED input
             PROVE  Unread' <= Unread
    OBVIOUS
<1>1. \A c \in Client : IsTyped(c)' => IsTyped(c)
    BY DEF IsTyped
<1> QED
    BY <1>1, UnreadFalls

\* The ends of the two ledgers are not those of one connection.
LEMMA EndsApart ==
    ASSUME IInv, SocketsOK, server # "gone"
    PROVE  /\ client_socket # Stdin => /\ client_socket \in Socket /\ client_socket \in net.open
                                       /\ client_socket # neighbour
           /\ neighbour # NoSock => /\ neighbour \in Socket /\ Peer(neighbour) \in Socket
                                    /\ Peer(Peer(neighbour)) = neighbour
                                    /\ neighbour # Peer(neighbour)
                                    /\ neighbour \in net.open /\ ~OwnEnd(net, neighbour)
                                    /\ net.host[Peer(neighbour)] = Far
                                    /\ client_socket # Peer(neighbour)
<1>1. client_socket # Stdin => /\ client_socket \in Socket /\ client_socket \in net.open
                               /\ net.host[client_socket] = Server /\ client_socket[2] = "callee"
    BY DEF SocketsOK, OwnEnd, HostedBy, IInv, Shape
<1>2. neighbour # NoSock => /\ neighbour \in Socket /\ neighbour \in net.open /\ neighbour[2] = "caller"
                            /\ net.host[Peer(neighbour)] = Far
    BY DEF IInv, NeighbourInv, NeighbourIsFar, HostedBy
<1>3. neighbour # NoSock => Peer(neighbour) \in Socket /\ Peer(neighbour) # neighbour
                            /\ Peer(Peer(neighbour)) = neighbour /\ Peer(neighbour) # NoSock
    BY <1>2, PeerOf, NobodysSocket
<1>4. client_socket # Stdin /\ neighbour # NoSock => client_socket # Peer(neighbour)
    BY <1>1, <1>2, Processes
<1>5. client_socket # Stdin => client_socket # neighbour
    BY <1>1, <1>2, NobodysSocket
<1> QED
    BY <1>1, <1>2, <1>3, <1>4, <1>5 DEF OwnEnd, Stdin

\* What a step does to the ledger that leaves the sockets in it as they are.
LEMMA LedgerFlows ==
    ASSUME IInv, Books, server # "gone", NEW C, NEW X, Flows(net, net', C, X),
           \A s \in C : ~OwnEnd(net, s), client_socket' = client_socket
    PROVE  /\ Sound(net') /\ Sent \in Nat /\ Sent' \in Nat
           /\ Sent' <= Sent + (IF <<client_socket, "request">> \in X THEN 1 ELSE 0)
           /\ Ended => Ended'
           /\ neighbour # NoSock /\ neighbour' = neighbour =>
                 /\ OnLink \in Nat /\ OnLink' \in Nat
                 /\ OnLink' <= OnLink + (IF <<neighbour, "answer">> \in X THEN 1 ELSE 0)
                                      + (IF <<Peer(neighbour), "request">> \in X THEN 1 ELSE 0)
<1>1. Sound(net) /\ Sound(net') /\ SocketsOK
    BY DEF Books, Flows
<1>2. \A s \in Socket : \A p : Waiting(s, p) \in Nat
    BY <1>1, WaitingType
<1>3. \A s \in Socket : \A p : Waiting(s, p)' = Count(net'.inbox[s], p) /\ Waiting(s, p)' \in Nat
  <2>1. \A s \in Socket : \A p : Waiting(s, p)' = Count(net'.inbox[s], p)
      BY DEF Waiting, Count, Places
  <2> QED
      BY <1>1, <2>1, CountsOf
<1>4. \A s \in Socket, p \in {"request", "answer"} :
         Count(net'.inbox[s], p) <= Waiting(s, p) + (IF <<s, p>> \in X THEN 1 ELSE 0)
    BY WaitingCounts DEF Flows, Gains
<1>5. /\ Sent \in Nat /\ Sent' \in Nat
      /\ Sent' <= Sent + (IF <<client_socket, "request">> \in X THEN 1 ELSE 0)
  <2>1. CASE client_socket = Stdin
      BY <2>1 DEF Sent
  <2>2. CASE client_socket # Stdin
    <3> DEFINE s == client_socket
    <3>1. s \in Socket
        BY <1>1, <2>2, EndsApart
    <3>2. Sent = Waiting(s, "request")
        BY <2>2 DEF Sent
    <3>3. Sent' = Count(net'.inbox[s], "request")
        BY <2>2 DEF Sent, Waiting, Count, Places
    <3>4. Count(net'.inbox[s], "request") \in Nat
        BY <1>1, <3>1, CountsOf
    <3> QED
        BY <1>2, <1>4, <3>1, <3>2, <3>3, <3>4
  <2> QED
      BY <2>1, <2>2
<1>6. Ended => Ended'
    BY <1>1, EndsApart DEF Ended, SocketsOK, Flows, Keeps
<1>7. ASSUME neighbour # NoSock, neighbour' = neighbour
      PROVE  /\ OnLink \in Nat /\ OnLink' \in Nat
             /\ OnLink' <= OnLink + (IF <<neighbour, "answer">> \in X THEN 1 ELSE 0)
                                  + (IF <<Peer(neighbour), "request">> \in X THEN 1 ELSE 0)
  <2>1. neighbour \in Socket /\ Peer(neighbour) \in Socket
      BY <1>1, <1>7, EndsApart
  <2>2. OnLink' = Count(net'.inbox[neighbour], "answer") + Count(net'.inbox[Peer(neighbour)], "request")
      BY <1>7 DEF OnLink, Waiting, Count, Places
  <2>3. /\ Count(net'.inbox[neighbour], "answer") \in Nat
        /\ Count(net'.inbox[Peer(neighbour)], "request") \in Nat
      BY <1>1, <2>1, CountsOf
  <2>4. Waiting(neighbour, "answer") \in Nat /\ Waiting(Peer(neighbour), "request") \in Nat
      BY <1>2, <2>1
  <2>5. Count(net'.inbox[neighbour], "answer")
           <= Waiting(neighbour, "answer") + (IF <<neighbour, "answer">> \in X THEN 1 ELSE 0)
      BY <1>4, <2>1
  <2>6. Count(net'.inbox[Peer(neighbour)], "request")
           <= Waiting(Peer(neighbour), "request") + (IF <<Peer(neighbour), "request">> \in X THEN 1 ELSE 0)
      BY <1>4, <2>1
  <2> QED
      BY <2>2, <2>3, <2>4, <2>5, <2>6 DEF OnLink
<1> QED
    BY <1>1, <1>5, <1>6, <1>7

\* Nobody writes requests before the handshake.
LEMMA NoRequestsYet ==
    ASSUME Sound(net), NEW C, NEW X, Flows(net, net', C, X), \A s \in Socket : <<s, "request">> \notin X,
           \A s \in Socket : Waiting(s, "request") = 0
    PROVE  (\A s \in Socket : Waiting(s, "request") = 0)'
<1>1. ASSUME NEW s \in Socket
      PROVE  Count(net'.inbox[s], "request") = 0
  <2>1. Count(net'.inbox[s], "request") <= Count(net.inbox[s], "request")
                                            + (IF <<s, "request">> \in X THEN 1 ELSE 0)
      BY DEF Flows, Gains
  <2>2. Count(net.inbox[s], "request") = 0
      BY WaitingCounts
  <2>3. Count(net'.inbox[s], "request") \in Nat
      BY CountsOf DEF Flows
  <2> QED
      BY <2>1, <2>2, <2>3
<1> QED
    BY <1>1 DEF Waiting, Count, Places

LEMMA SocketsStep ==
    ASSUME SocketsOK, server # "gone", server' # "gone", NEW C, NEW X, Flows(net, net', C, X),
           \A s \in C : ~OwnEnd(net, s),
           \A k \in DOMAIN backlog' : \/ \E j \in DOMAIN backlog : backlog'[k] = backlog[j]
                                      \/ OwnEnd(net', backlog'[k]),
           \/ client_socket' \in {client_socket, Stdin}
           \/ \E j \in DOMAIN backlog : client_socket' = backlog[j],
           handshake' => client_socket' # Stdin
    PROVE  SocketsOK'
<1>1. \A s : OwnEnd(net, s) => OwnEnd(net', s)
    BY DEF OwnEnd, HostedBy, Flows, Keeps
<1>2. \A k \in DOMAIN backlog' : OwnEnd(net', backlog'[k])
    BY <1>1 DEF SocketsOK
<1>3. client_socket' # Stdin => OwnEnd(net', client_socket')
    BY <1>1 DEF SocketsOK
<1> QED
    BY <1>2, <1>3 DEF SocketsOK

\* It is the end of the server.
LEMMA GoneBooks ==
    ASSUME Sound(net'), server' = "gone", backlog' = << >>,
           pending' \in Nat, away' \in Nat, pending' + away' <= MaxRequests
    PROVE  Books'
BY DEF Books, SocketsOK, RequestsOK, Ledger

\* Nothing is added to the ledger, and no end of the server's is closed.
Calm(w, v) == \E C : Flows(w, v, C, {}) /\ \A s \in C : ~OwnEnd(w, s)

LEMMA CalmSound == ASSUME NEW w, NEW v, Calm(w, v) PROVE Sound(v)
BY DEF Calm, Flows

LEMMA CalmStays == ASSUME NEW w, Sound(w) PROVE Calm(w, w)
<1>1. PICK Z : Z = {}
    OBVIOUS
<1>2. Flows(w, w, Z, {}) /\ \A s \in Z : ~OwnEnd(w, s)
    BY <1>1, FlowsStays
<1> QED
    BY <1>2 DEF Calm

LEMMA CalmOn ==
    ASSUME NEW w, NEW v, NEW x, Sound(w), Calm(w, v), Calm(v, x)
    PROVE  Calm(w, x)
<1>1. PICK Z : Z = {}
    OBVIOUS
<1>2. PICK C : Flows(w, v, C, Z) /\ \A s \in C : ~OwnEnd(w, s)
    BY <1>1 DEF Calm
<1>3. PICK D : Flows(v, x, D, Z) /\ \A s \in D : ~OwnEnd(v, s)
    BY <1>1 DEF Calm
<1>4. Z \cap Z = {} /\ Z \cup Z = Z
    BY <1>1
<1>5. Flows(w, x, C \cup D, Z)
    BY <1>2, <1>3, <1>4, FlowsOn
<1>6. \A s \in C \cup D : ~OwnEnd(w, s)
    BY <1>2, <1>3 DEF OwnEnd, HostedBy, Flows, Keeps
<1> QED
    BY <1>1, <1>5, <1>6 DEF Calm

LEMMA CalmReceive ==
    ASSUME NEW w, Sound(w), NEW s \in Socket, w.inbox[s] # << >>
    PROVE  Calm(w, Receive(w, s))
<1>1. PICK Z : Z = {}
    OBVIOUS
<1>2. Flows(w, Receive(w, s), Z, {})
    BY <1>1, ReceiveFlows
<1> QED
    BY <1>1, <1>2 DEF Calm

LEMMA CalmSend ==
    ASSUME NEW w, Sound(w), NEW s \in w.open, NEW msg \in Packet \ {"request", "answer"}
    PROVE  Calm(w, SendAll(w, {s}, msg))
<1>1. PICK Z : Z = {}
    OBVIOUS
<1> DEFINE v == SendAll(w, {s}, msg)
<1>2. Flows(w, v, Z, {<<Peer(s), msg>>})
    BY <1>1, SendFlows
<1> HIDE DEF v
<1>3. \A t \in Socket, p \in {"request", "answer"} : Count(v.inbox[t], p) <= Count(w.inbox[t], p)
  <2> TAKE t \in Socket, p \in {"request", "answer"}
  <2>1. Count(v.inbox[t], p) <= Count(w.inbox[t], p)
                                + (IF <<t, p>> \in {<<Peer(s), msg>>} THEN 1 ELSE 0)
      BY <1>2 DEF Flows, Gains
  <2>2. <<t, p>> \notin {<<Peer(s), msg>>} /\ Count(w.inbox[t], p) \in Nat
      BY CountsOf
  <2>3. Count(v.inbox[t], p) \in Nat
      BY <1>2, CountsOf DEF Flows
  <2> QED
      BY <2>1, <2>2, <2>3
<1>4. Gains(w, v, {})
    BY <1>3, GainsNothing
<1>5. Flows(w, v, Z, {})
    BY <1>2, <1>4 DEF Flows
<1> QED
    BY <1>1, <1>5 DEF Calm, v

LEMMA CalmClose ==
    ASSUME NEW w, Sound(w), NEW S, \A s \in S : ~OwnEnd(w, s)
    PROVE  Calm(w, CloseAll(w, S))
BY CloseFlows DEF Calm

LEMMA CalmAfter ==
    ASSUME NEW w, Sound(w), NEW P, Server \notin P
    PROVE  Calm(w, After(w, P))
BY CalmClose DEF After, OwnEnd, HostedBy

LEMMA AfterSound == ASSUME NEW w, Sound(w), NEW P PROVE Sound(After(w, P))
BY CloseFlows DEF Flows, After

\* A step that touches neither the queues of the server nor its link.
LEMMA CalmBooks ==
    ASSUME IInv, Books, Calm(net, net'), server # "gone", server' # "gone",
           UNCHANGED <<client_socket, neighbour, pending, away>>,
           \A k \in DOMAIN backlog' : \/ \E j \in DOMAIN backlog : backlog'[k] = backlog[j]
                                      \/ OwnEnd(net', backlog'[k]),
           handshake' = handshake \/ (handshake' /\ client_socket # Stdin),
           server' = "serve" => server = "serve" \/ (pending > 0 /\ neighbour # NoSock),
           typed \in Nat,
           \/ Unread' <= Unread /\ typed' = typed
           \/ Unread' <= Unread + 1 /\ typed' = typed + 1
    PROVE  Books'
<1>1. PICK C : Flows(net, net', C, {}) /\ \A s \in C : ~OwnEnd(net, s)
    BY DEF Calm
<1>2. PICK X : X = {}
    OBVIOUS
<1>3. Flows(net, net', C, X)
    BY <1>1, <1>2
<1>4. Sound(net') /\ Sound(net) /\ SocketsOK /\ RequestsOK
    BY <1>1 DEF Flows, Books
<1>5. pending \in Nat /\ away \in Nat /\ pending + away <= MaxRequests
    BY <1>4 DEF RequestsOK
<1>6. SocketsOK'
  <2>1. client_socket' \in {client_socket, Stdin} /\ (handshake' => client_socket' # Stdin)
      BY <1>4 DEF SocketsOK
  <2> QED
      BY <1>1, <1>3, <1>4, <2>1, SocketsStep
<1>7. /\ Sent \in Nat /\ Sent' \in Nat /\ Sent' <= Sent
      /\ Ended => Ended'
      /\ neighbour # NoSock => OnLink \in Nat /\ OnLink' \in Nat /\ OnLink' <= OnLink
  <2>1. /\ Sent \in Nat /\ Sent' \in Nat
        /\ Sent' <= Sent + (IF <<client_socket, "request">> \in X THEN 1 ELSE 0)
        /\ Ended => Ended'
        /\ neighbour # NoSock /\ neighbour' = neighbour =>
              /\ OnLink \in Nat /\ OnLink' \in Nat
              /\ OnLink' <= OnLink + (IF <<neighbour, "answer">> \in X THEN 1 ELSE 0)
                                   + (IF <<Peer(neighbour), "request">> \in X THEN 1 ELSE 0)
      BY <1>1, <1>3, LedgerFlows
  <2>2. <<client_socket, "request">> \notin X /\ <<neighbour, "answer">> \notin X
        /\ <<Peer(neighbour), "request">> \notin X
      BY <1>2
  <2> HIDE DEF Sent, Ended, OnLink
  <2> QED
      BY <2>1, <2>2
<1>8. Unread \in Nat /\ Unread' \in Nat
    BY UnreadType
<1>9. pending' + away' + Sent' + Unread' <= typed' \/ Ended'
  <2>1. pending + away + Sent + Unread <= typed \/ Ended
      BY <1>4 DEF RequestsOK, Ledger
  <2> QED
      BY <1>5, <1>7, <1>8, <2>1
<1>10. neighbour' # NoSock => OnLink' <= away'
  <2>1. neighbour # NoSock => OnLink <= away
      BY <1>4 DEF RequestsOK, Ledger
  <2> QED
      BY <1>5, <1>7, <2>1
<1>11. ~handshake' => /\ pending' = 0 /\ away' = 0
                      /\ (\A s \in Socket : Waiting(s, "request") = 0)'
  <2>1. ~handshake' => ~handshake /\ pending = 0 /\ away = 0
                       /\ \A s \in Socket : Waiting(s, "request") = 0
      BY <1>4 DEF RequestsOK, Ledger
  <2>2. ~handshake' => (\A s \in Socket : Waiting(s, "request") = 0)'
      BY <1>2, <1>3, <1>4, <2>1, NoRequestsYet
  <2> QED
      BY <2>1, <2>2
<1>12. server' = "serve" => pending' > 0 /\ neighbour' # NoSock
    BY <1>4 DEF RequestsOK, Ledger
<1>13. Ledger'
    BY <1>9, <1>10, <1>11, <1>12 DEF Ledger
<1> QED
    BY <1>4, <1>5, <1>6, <1>13 DEF Books, RequestsOK

\* A step that adds to the ledger, or takes something from it.
LEMMA BusyBooks ==
    ASSUME IInv, Books, server # "gone", server' # "gone", NEW C, NEW X, Flows(net, net', C, X),
           \A s \in C : ~OwnEnd(net, s),
           UNCHANGED <<backlog, client_socket, handshake>>,
           pending' \in Nat, away' \in Nat, pending' + away' <= MaxRequests,
           neighbour' # NoSock => OnLink' <= away',
           pending' + away' + Sent' + Unread' <= typed' \/ Ended',
           ~handshake => pending' = 0 /\ away' = 0 /\ \A s \in Socket : <<s, "request">> \notin X,
           server' = "serve" => pending' > 0 /\ neighbour' # NoSock
    PROVE  Books'
<1>1. Sound(net') /\ Sound(net) /\ SocketsOK /\ RequestsOK
    BY DEF Flows, Books
<1>2. SocketsOK'
  <2>1. client_socket' \in {client_socket, Stdin} /\ (handshake' => client_socket' # Stdin)
      BY <1>1 DEF SocketsOK
  <2> QED
      BY <1>1, <2>1, SocketsStep
<1>3. ~handshake' => (\A s \in Socket : Waiting(s, "request") = 0)'
    BY <1>1, NoRequestsYet DEF RequestsOK, Ledger
<1>4. Ledger'
    BY <1>3 DEF Ledger
<1> QED
    BY <1>1, <1>2, <1>4 DEF Books, RequestsOK

-----------------------------------------------------------------------------
(* The steps that leave the ledger alone.                                  *)

\* A step of somebody else.
LEMMA TheirBooks ==
    ASSUME IInv, ClientsOK, Books, Calm(net, net'), UNCHANGED serverVars,
           \/ Unread' <= Unread /\ typed' = typed
           \/ Unread' <= Unread + 1 /\ typed' = typed + 1
    PROVE  Books'
<1>1. UNCHANGED <<server, backlog, client_socket, handshake, neighbour, pending, away>>
    BY DEF serverVars, queueVars
<1>2. typed \in Nat
    BY DEF ClientsOK
<1>3. CASE server = "gone"
    BY <1>1, <1>3, CalmSound, GoneBooks DEF Books, RequestsOK, SocketsOK
<1>4. CASE server # "gone"
    BY <1>1, <1>2, <1>4, CalmBooks
<1> QED
    BY <1>3, <1>4

LEMMA UnreadGone ==
    ASSUME ClientsOK, NEW c \in Client, ClientGone(c)
    PROVE  Unread' <= Unread /\ typed' = typed
<1>1. input' = [input EXCEPT ![c] = << >>] /\ input \in [Client -> OneLine]
    BY DEF ClientsOK, ClientGone
<1>2. \A d \in Client : input'[d] = input[d] \/ input'[d] = << >>
    BY <1>1
<1>3. \A d \in Client : IsTyped(d)' => IsTyped(d)
    BY <1>2 DEF IsTyped
<1> QED
    BY <1>3, UnreadFalls DEF ClientGone

\* SIGINT at the server, after a step from net to w.
LEMMA SigintBooks ==
    ASSUME IInv, ClientsOK, Books, SigintEffect, NEW w, Calm(net, w), net' = NetAfterSigint(w),
           Unread' <= Unread, typed' = typed
    PROVE  Books'
<1>1. Sound(w) /\ SocketsOK /\ RequestsOK /\ typed \in Nat
    BY CalmSound DEF Books, ClientsOK
<1>2. Sound(net')
    BY <1>1, AfterSound DEF NetAfterSigint
<1>3. CASE server = "gone" /\ UNCHANGED serverVars
    BY <1>1, <1>2, <1>3, GoneBooks DEF RequestsOK, SocketsOK, serverVars, queueVars
<1>4. CASE ServerGone("killed")
    BY <1>2, <1>4, SessionAssumption, GoneBooks DEF ServerGone
<1>5. CASE /\ server # "gone" /\ server' \in {server, "leave", "stuck"}
           /\ UNCHANGED <<backlog, client_socket, handshake, neighbour, queueVars>>
  <2>1. /\ server' # "gone" /\ (server' = "serve" => server = "serve")
        /\ UNCHANGED <<backlog, client_socket, handshake, neighbour, pending, away>>
      BY <1>5 DEF queueVars
  <2>2. Calm(net, net')
      BY <2>1 DEF NetAfterSigint
  <2> QED
      BY <1>1, <1>5, <2>1, <2>2, CalmBooks
<1>6. \/ server = "gone" /\ UNCHANGED serverVars
      \/ ServerGone("killed")
      \/ /\ server # "gone" /\ server' \in {server, "leave", "stuck"}
         /\ UNCHANGED <<backlog, client_socket, handshake, neighbour, queueVars>>
    BY DEF SigintEffect
<1> QED
    BY <1>3, <1>4, <1>5, <1>6

LEMMA ServerEndsBooks ==
    ASSUME Books, NEW w, Sound(w), NEW P, net' = After(w, P), NEW how, ServerGone(how)
    PROVE  Books'
BY AfterSound, SessionAssumption, GoneBooks DEF ServerGone

\* A turn of the server's that only reads and answers.
LEMMA TurnBooks ==
    ASSUME IInv, ClientsOK, Books, Calm(net, net'), server # "gone",
           UNCHANGED <<client_socket, handshake, neighbour, pending, away, backlog>>,
           UNCHANGED clientVars \/ StealsInput,
           (\E next \in ServerAt \ {"gone", "serve"} : server' = next) \/ \E goOn : EndsTurn(pending, goOn)
    PROVE  Books'
<1>1. /\ server' # "gone"
      /\ server' = "serve" => pending > 0 /\ neighbour # NoSock
    BY DEF EndsTurn, Goes
<1>2. typed \in Nat /\ Own \in Client
    BY Processes DEF ClientsOK
<1>3. Unread' <= Unread /\ typed' = typed
  <2>1. CASE UNCHANGED clientVars
      BY <2>1, UnreadStays DEF clientVars
  <2>2. CASE StealsInput
    <3>1. input \in [Client -> OneLine] /\ input[Own] \in OneLine /\ input[Own] # << >> /\ typed' = typed
        BY <1>2, <2>2 DEF ClientsOK, StealsInput
    <3>2. Tail(input[Own]) = << >> /\ Head(<<"other">> \o Tail(input[Own])) = "other"
        BY <3>1, Lines
    <3>3. PICK q : q \in {Tail(input[Own]), <<"other">> \o Tail(input[Own])}
                   /\ input' = [input EXCEPT ![Own] = q]
        BY <2>2 DEF StealsInput
    <3>4. q = << >> \/ Head(q) = "other"
        BY <3>2, <3>3
    <3>5. input'[Own] = q /\ \A d \in Client : d # Own => input'[d] = input[d]
        BY <1>2, <3>1, <3>3
    <3>6. \A d \in Client : IsTyped(d)' => IsTyped(d)
        BY <3>4, <3>5 DEF IsTyped
    <3> QED
        BY <3>1, <3>6, UnreadFalls
  <2> QED
      BY <2>1, <2>2
<1> QED
    BY <1>1, <1>2, <1>3, CalmBooks

LEMMA ClientStepBooks ==
    ASSUME IInv, ClientsOK, Books, NEW c \in Client,
           CannotConnect(c) \/ Shaken(c) \/ NotShaken(c) \/ Listens(c) \/ Clears(c) \/ Waits(c)
             \/ ClientEnds(c) \/ (DiesWriting(c) /\ UNCHANGED serverVars)
    PROVE  Books'
<1>1. Sound(net) /\ Server \notin {c}
    BY Processes DEF Books
<1>2. Calm(net, net) /\ Calm(net, After(net, {c}))
    BY <1>1, CalmStays, CalmAfter
<1>3. client[c] \in TalkAt => conn[c] \in net.open /\ conn[c] \in Socket
    BY DEF IInv, SessionInv, ClientsReach, Reaches
<1>4. CASE CannotConnect(c)
  <2>1. net' = net /\ UNCHANGED <<input, typed, serverVars>>
      BY <1>4 DEF CannotConnect
  <2> QED
      BY <1>2, <2>1, UnreadStays, TheirBooks
<1>5. CASE Shaken(c) \/ Listens(c)
  <2>1. client[c] \in TalkAt /\ UNCHANGED <<input, typed, serverVars>>
        /\ \/ net' = net
           \/ net.inbox[conn[c]] # << >> /\ net' = Receive(net, conn[c])
      BY <1>5 DEF Shaken, Listens, TalkAt
  <2>2. Calm(net, net')
      BY <1>1, <1>2, <1>3, <2>1, CalmReceive
  <2> QED
      BY <2>1, <2>2, UnreadStays, TheirBooks
<1>6. CASE ClientEnds(c) \/ Waits(c) \/ (DiesWriting(c) /\ UNCHANGED serverVars)
  <2>1. ClientGone(c) /\ UNCHANGED serverVars /\ net' \in {net, After(net, {c})}
      BY <1>6 DEF ClientEnds, Waits, DiesWriting
  <2> QED
      BY <1>2, <2>1, UnreadGone, TheirBooks
<1>7. CASE NotShaken(c)
  <2>1. ClientGone(c) /\ net' = NetAfterSigint(After(net, {c}))
        /\ (SigintEffect \/ UNCHANGED serverVars)
      BY <1>7 DEF NotShaken
  <2>2. Unread' <= Unread /\ typed' = typed
      BY <2>1, UnreadGone
  <2>3. CASE SigintEffect
      BY <1>2, <2>1, <2>2, <2>3, SigintBooks
  <2>4. CASE UNCHANGED serverVars
    <3>1. Calm(net, net') \/ (server = "gone" /\ Sound(net'))
        BY <1>1, <1>2, <2>1, <2>4, AfterSound DEF NetAfterSigint, serverVars
    <3>2. CASE server = "gone" /\ Sound(net')
        BY <2>4, <3>2, GoneBooks DEF Books, RequestsOK, SocketsOK, serverVars, queueVars
    <3> QED
        BY <2>2, <2>4, <3>1, <3>2, TheirBooks
  <2> QED
      BY <2>1, <2>3, <2>4
<1>8. CASE Clears(c)
  <2>1. CASE DiesWriting(c)
      BY <1>6, <1>8, <2>1 DEF Clears
  <2>2. CASE ~DiesWriting(c)
    <3> DEFINE v == SendAll(net, {conn[c]}, "CMSG_INT_EXIT")
    <3>1. net' = After(v, {c}) /\ UNCHANGED <<input, typed, serverVars>> /\ client[c] \in TalkAt
        BY <1>8, <2>2 DEF Clears, TalkAt
    <3>2. Calm(net, v)
        BY <1>1, <1>3, <3>1, CalmSend DEF Packet
    <3> HIDE DEF v
    <3>3. Calm(net, net')
        BY <1>1, <3>1, <3>2, CalmSound, CalmAfter, CalmOn
    <3> QED
        BY <3>1, <3>3, UnreadStays, TheirBooks
  <2> QED
      BY <2>1, <2>2
<1> QED
    BY <1>4, <1>5, <1>6, <1>7, <1>8

LEMMA ConnectsBooks ==
    ASSUME IInv, ClientsOK, Books, NEW c \in Client, Connects(c)
    PROVE  Books'
<1>1. PICK k \in Conn, greeting \in Greetings(c) :
         NextConn(net, k) /\ net' = Dial(net, k, c, Server, greeting)
         /\ backlog' = Append(backlog, Callee(k))
    BY DEF Connects
<1>2. /\ server # "gone" /\ typed \in Nat
      /\ UNCHANGED <<server, input, typed, client_socket, handshake, neighbour, pending, away>>
    BY DEF Connects, IsListening, queueVars, ClientsOK
<1>3. /\ Sound(net) /\ IsFree(net, k) /\ c \in Node /\ Server \in Node
      /\ greeting \in Packet \ {"request", "answer"}
    BY <1>1, Processes DEF Books, NextConn, Greetings, Packet
<1>4. PICK Z : Z = {}
    OBVIOUS
<1>5. Flows(net, net', Z, {}) /\ Callee(k) \in HostedBy(net', Server)
    BY <1>1, <1>3, <1>4, DialFlows
<1>6. Calm(net, net') /\ OwnEnd(net', Callee(k))
    BY <1>4, <1>5, EndsOf DEF Calm, OwnEnd, Callee
<1>7. \A j \in DOMAIN backlog' : (\E i \in DOMAIN backlog : backlog'[j] = backlog[i])
                                 \/ backlog'[j] = Callee(k)
  <2>1. backlog \in Seq(Socket) /\ Callee(k) \in Socket
      BY EndsOf DEF IInv, SessionInv, ServerSockets
  <2>2. Len(backlog) \in Nat /\ DOMAIN backlog = 1 .. Len(backlog)
        /\ DOMAIN backlog' = 1 .. Len(backlog) + 1
        /\ \A j \in 1 .. Len(backlog) + 1 :
              backlog'[j] = IF j = Len(backlog) + 1 THEN Callee(k) ELSE backlog[j]
      BY <1>1, <2>1
  <2> QED
      BY <2>2
<1>8. Unread' <= Unread
    BY <1>2, UnreadStays
<1>9. \A j \in DOMAIN backlog' : (\E i \in DOMAIN backlog : backlog'[j] = backlog[i])
                                 \/ OwnEnd(net', backlog'[j])
    BY <1>6, <1>7
<1>10. server' = "serve" => server = "serve" \/ (pending > 0 /\ neighbour # NoSock)
    BY <1>2
<1> QED
    BY <1>2, <1>6, <1>8, <1>9, <1>10, CalmBooks

LEMMA TypesBooks ==
    ASSUME IInv, ClientsOK, Books, NEW c \in Client, NEW line \in Line \ {"other"}, Types(c, line)
    PROVE  Books'
<1>1. /\ input' = [input EXCEPT ![c] = Append(input[c], line)] /\ input[c] = << >>
      /\ typed' = IF line = "request" THEN typed + 1 ELSE typed
      /\ net' = net /\ UNCHANGED serverVars
    BY DEF Types
<1>2. input' = [input EXCEPT ![c] = Append(<< >>, line)] /\ Head(Append(<< >>, line)) = line
    BY <1>1, Lines
<1>3. /\ input'[c] = Append(<< >>, line)
      /\ \A d \in Client : d # c => input'[d] = input[d]
    BY <1>2 DEF ClientsOK
<1>4. \A d \in Client : IsTyped(d)' => IsTyped(d) \/ (d = c /\ line = "request")
    BY <1>2, <1>3 DEF IsTyped
<1>5. ~IsTyped(c)
    BY <1>1 DEF IsTyped
<1>6. CASE line = "request"
  <2>1. Unread' <= Unread + 1
    <3>1. CASE c = Own
        BY <1>4, <1>5, <3>1, SessionAssumption, Processes DEF Unread, Client
    <3>2. CASE c # Own
        BY <1>4, <1>5, <3>2, Processes DEF Unread, Client
    <3> QED
        BY <3>1, <3>2
  <2> QED
      BY <1>1, <1>6, <2>1, CalmStays, TheirBooks DEF Books
<1>7. CASE line # "request"
  <2>1. \A d \in Client : IsTyped(d)' => IsTyped(d)
      BY <1>4, <1>7
  <2> QED
      BY <1>1, <1>7, <2>1, UnreadFalls, CalmStays, TheirBooks DEF Books
<1> QED
    BY <1>6, <1>7

-----------------------------------------------------------------------------
(* The steps of the server.                                                *)

LEMMA SumFalls ==
    \A p, a, s, u, t, v, w \in Nat : p + a + s + u <= t /\ w <= s /\ v <= u => p + a + w + v <= t
OBVIOUS

LEMMA StartBooks ==
    ASSUME IInv, ClientsOK, Books,
           Listen \/ StartFails \/ ServerArgvFails \/ ShakeBad \/ ServeDies
    PROVE  Books'
<1>1. Sound(net)
    BY DEF Books
<1>2. CASE Listen
  <2>1. /\ net' = net /\ server # "gone"
        /\ (\E next \in ServerAt \ {"gone", "serve"} : server' = next) /\ UNCHANGED clientVars
        /\ UNCHANGED <<client_socket, handshake, neighbour, pending, away, backlog>>
      BY <1>2 DEF Listen, queueVars, ServerAt
  <2> QED
      BY <1>1, <2>1, CalmStays, TurnBooks
<1>3. CASE StartFails \/ ServerArgvFails \/ ShakeBad \/ ServeDies
  <2>1. PICK P, how : net' = After(net, P) /\ ServerGone(how)
      BY <1>3 DEF StartFails, ServerArgvFails, ShakeBad, ServeDies, ServerEnds, ServerEndsWithItsClient
  <2> QED
      BY <1>1, <2>1, ServerEndsBooks
<1> QED
    BY <1>2, <1>3

\* The end that join_network gets has nothing of the ledger.
LEMMA JoinBooks == ASSUME IInv, ClientsOK, Books, Join PROVE Books'
<1>1. PICK k \in Conn : /\ NextConn(net, k) /\ neighbour' = Caller(k)
                        /\ net' = Receive(Dial(net, k, Server, Far, "CMSG_NEIGHBOURS"), Callee(k))
    BY DEF Join
<1>2. /\ server = "join" /\ server' = "accept"
      /\ UNCHANGED <<input, typed, backlog, client_socket, handshake, pending, away>>
    BY DEF Join, clientVars, queueVars
<1>3. /\ Sound(net) /\ Shape(net) /\ IsFree(net, k) /\ Server \in Node /\ Far \in Node
      /\ "CMSG_NEIGHBOURS" \in Packet \ {"request", "answer"}
    BY <1>1, Processes DEF Books, Sound, NextConn, Packet
<1> DEFINE v == Dial(net, k, Server, Far, "CMSG_NEIGHBOURS")
<1>4. /\ v.inbox[Caller(k)] = << >> /\ v.inbox[Callee(k)] = <<"CMSG_NEIGHBOURS">>
      /\ Callee(k) \in Socket /\ Caller(k) \in Socket /\ Caller(k) # Callee(k)
      /\ Peer(Caller(k)) = Callee(k)
    BY <1>3, DialOp, EndsOf
<1>5. PICK Z : Z = {}
    OBVIOUS
<1>6. Flows(net, v, Z, Z)
    BY <1>3, <1>5, DialFlows
<1>7. net' = Receive(v, Callee(k))
    BY <1>1
<1> HIDE DEF v
<1>8. Sound(v) /\ v.inbox[Callee(k)] # << >> /\ Head(v.inbox[Callee(k)]) = "CMSG_NEIGHBOURS"
    BY <1>4, <1>6 DEF Flows
<1>9. Flows(v, net', Z, Z)
    BY <1>4, <1>5, <1>7, <1>8, ReceiveFlows
<1>10. Flows(net, net', Z, Z)
  <2>1. Z \cup Z = Z /\ Z \cap Z = {}
      BY <1>5
  <2> QED
      BY <1>3, <1>6, <1>9, <2>1, FlowsOn
<1>11. Count(net'.inbox[Callee(k)], "request") = 0 /\ Count(net'.inbox[Caller(k)], "answer") = 0
  <2>1. net'.inbox[Callee(k)] = Tail(<<"CMSG_NEIGHBOURS">>) /\ net'.inbox[Caller(k)] = << >>
      BY <1>4, <1>7, <1>8 DEF Receive, Sound, Shape
  <2>2. Tail(<<"CMSG_NEIGHBOURS">>) = << >>
      OBVIOUS
  <2> QED
      BY <2>1, <2>2, CountEmpty
<1>12. RequestsOK /\ SocketsOK
    BY DEF Books
<1>13. pending \in Nat /\ away \in Nat /\ pending + away <= MaxRequests
    BY <1>12 DEF RequestsOK
<1>14. OnLink' <= away'
  <2>1. OnLink' = Count(net'.inbox[Caller(k)], "answer") + Count(net'.inbox[Callee(k)], "request")
      BY <1>1, <1>4 DEF OnLink, Waiting, Count, Places
  <2> QED
      BY <1>2, <1>11, <1>13, <2>1
<1>15. pending' + away' + Sent' + Unread' <= typed' \/ Ended'
  <2>1. pending + away + Sent + Unread <= typed \/ Ended
      BY <1>2, <1>12 DEF RequestsOK, Ledger
  <2>2. /\ Sent \in Nat /\ Sent' \in Nat
        /\ Sent' <= Sent + (IF <<client_socket, "request">> \in Z THEN 1 ELSE 0)
        /\ Ended => Ended'
      BY <1>2, <1>5, <1>10, LedgerFlows
  <2>3. <<client_socket, "request">> \notin Z
      BY <1>5
  <2>4. Unread \in Nat /\ Unread' \in Nat /\ Unread' <= Unread /\ typed \in Nat
      BY <1>2, UnreadType, UnreadStays DEF ClientsOK
  <2>5. Sent' <= Sent /\ UNCHANGED <<pending, away, typed>>
      BY <1>2, <2>2, <2>3
  <2>6. pending + away + Sent' + Unread' <= typed \/ Ended
      BY <1>13, <2>1, <2>2, <2>4, <2>5, SumFalls
  <2> QED
      BY <2>2, <2>5, <2>6
<1>16. ~handshake => pending' = 0 /\ away' = 0
    BY <1>2, <1>12 DEF RequestsOK, Ledger
<1> QED
    BY <1>2, <1>5, <1>10, <1>13, <1>14, <1>15, <1>16, BusyBooks

LEMMA AcceptBooks == ASSUME IInv, ClientsOK, Books, Accept PROVE Books'
<1>1. /\ server = "accept" /\ net' = net /\ UNCHANGED <<clientVars, handshake, neighbour, pending, away>>
      /\ server' \in {"neighbour", "client", "shake"} /\ Sound(net)
    BY DEF Accept, Goes, GoesToNeighbours, queueVars, Books
<1>2. RequestsOK /\ SocketsOK
    BY DEF Books
<1>3. backlog' = backlog \/ (backlog # << >> /\ backlog' = Tail(backlog))
    BY DEF Accept
<1>4. \A k \in DOMAIN backlog' : \E j \in DOMAIN backlog : backlog'[k] = backlog[j]
  <2>1. CASE backlog' = backlog
      BY <2>1
  <2>2. CASE backlog # << >> /\ backlog' = Tail(backlog)
    <3>1. backlog \in Seq(Socket)
        BY DEF IInv, SessionInv, ServerSockets
    <3>2. /\ Len(backlog) \in Nat \ {0} /\ DOMAIN backlog = 1 .. Len(backlog)
          /\ Len(Tail(backlog)) = Len(backlog) - 1 /\ Tail(backlog) \in Seq(Socket)
          /\ \A k \in 1 .. Len(backlog) - 1 : Tail(backlog)[k] = backlog[k + 1]
        BY <2>2, <3>1, HeadTailProperties, LenProperties, EmptySeq
    <3>3. DOMAIN backlog' = 1 .. Len(backlog) - 1
        BY <2>2, <3>2, LenProperties
    <3>4. \A k \in 1 .. Len(backlog) - 1 : k + 1 \in 1 .. Len(backlog)
        BY <3>2
    <3> QED
        BY <2>2, <3>2, <3>3, <3>4
  <2> QED
      BY <1>3, <2>1, <2>2
<1>5. Unread' <= Unread /\ typed' = typed /\ typed \in Nat
    BY <1>1, UnreadStays DEF clientVars, ClientsOK
<1>6. CASE client_socket' = client_socket
  <2>1. Calm(net, net')
      BY <1>1, CalmStays
  <2> QED
      BY <1>1, <1>4, <1>5, <1>6, <2>1, CalmBooks
<1>7. CASE client_socket' # client_socket
  <2>1. ~handshake /\ backlog # << >> /\ client_socket' = Head(backlog)
      BY <1>7 DEF Accept
  <2>2. \E j \in DOMAIN backlog : client_socket' = backlog[j]
    <3>1. backlog \in Seq(Socket)
        BY DEF IInv, SessionInv, ServerSockets
    <3>2. Head(backlog) = backlog[1] /\ 1 \in DOMAIN backlog
        BY <2>1, <3>1, HeadTailProperties, LenProperties, EmptySeq
    <3> QED
        BY <2>1, <3>2
  <2>3. PICK Z : Z = {}
      OBVIOUS
  <2>4. Flows(net, net', Z, Z)
      BY <1>1, <2>3, FlowsStays
  <2>5. SocketsOK'
      BY <1>1, <1>2, <1>4, <2>1, <2>2, <2>3, <2>4, SocketsStep
  <2>6. client_socket = Stdin
      BY <1>1, <2>1 DEF IInv, SessionInv, ServerSockets
  <2>7. pending = 0 /\ away = 0 /\ \A s \in Socket : Waiting(s, "request") = 0
      BY <1>1, <1>2, <2>1 DEF RequestsOK, Ledger
  <2>8. \A s, p : Waiting(s, p)' = Waiting(s, p)
      BY <1>1 DEF Waiting
  <2>9. Sent' = 0 /\ Sent = 0
    <3>1. PICK j \in DOMAIN backlog : client_socket' = backlog[j]
        BY <2>2
    <3>2. backlog[j] \in Socket
        BY DEF IInv, SessionInv, ServerSockets
    <3>3. Count(net.inbox[backlog[j]], "request") = 0
        BY <2>7, <3>2, WaitingCounts
    <3>4. Sent' = IF backlog[j] = Stdin THEN 0 ELSE Count(net.inbox[backlog[j]], "request")
        BY <1>1, <3>1 DEF Sent, Waiting, Count, Places
    <3> QED
        BY <2>6, <3>3, <3>4 DEF Sent
  <2>10. pending + away + Sent + Unread <= typed
      BY <1>1, <1>2, <2>6 DEF RequestsOK, Ledger, Ended
  <2>11. Unread \in Nat /\ Unread' \in Nat
      BY UnreadType
  <2>12. pending' + away' + Sent' + Unread' <= typed'
    <3>1. pending' = pending /\ away' = away /\ Sent' = Sent /\ pending \in Nat /\ away \in Nat /\ Sent \in Nat
        BY <1>1, <2>7, <2>9
    <3>2. Sent \in Nat /\ Sent <= Sent
        BY <3>1
    <3>3. pending + away + Sent + Unread' <= typed
        BY <1>5, <2>10, <2>11, <3>1, <3>2, SumFalls
    <3> QED
        BY <1>5, <3>1, <3>3
  <2>13. neighbour' # NoSock => OnLink' <= away'
      BY <1>1, <1>2 DEF RequestsOK, Ledger, OnLink, Waiting
  <2>14. Ledger'
      BY <1>1, <2>7, <2>8, <2>12, <2>13 DEF Ledger
  <2> QED
      BY <1>1, <1>2, <2>5, <2>14 DEF Books, RequestsOK
<1> QED
    BY <1>6, <1>7

LEMMA ShakeOkBooks == ASSUME IInv, ClientsOK, Books, ShakeOk PROVE Books'
<1>1. /\ server = "shake" /\ handshake' /\ server' \in {"neighbour", "client"} /\ client_socket # Stdin
      /\ UNCHANGED <<input, typed, backlog, client_socket, neighbour, pending, away>>
    BY DEF ShakeOk, GoesToNeighbours, Goes, clientVars, queueVars, IInv, SessionInv, ServerSockets
<1>2. Sound(net) /\ client_socket \in Socket /\ client_socket \in net.open
    BY <1>1, EndsApart DEF Books
<1>3. PICK v : /\ v = net \/ (net.inbox[client_socket] # << >> /\ v = Receive(net, client_socket))
               /\ net' = SendAll(v, {client_socket}, "SMSG_INT_HANDSHAKE")
    BY DEF ShakeOk
<1>4. Calm(net, v) /\ v.open = net.open /\ Sound(v)
    BY <1>2, <1>3, CalmStays, CalmReceive, CalmSound, ReceiveOp DEF Sound
<1>5. Calm(v, net')
    BY <1>2, <1>3, <1>4, CalmSend DEF Packet
<1>6. Calm(net, net')
    BY <1>2, <1>4, <1>5, CalmOn
<1>7. Unread' <= Unread /\ typed \in Nat
    BY <1>1, UnreadStays DEF ClientsOK
<1>8. \A k \in DOMAIN backlog' : \E j \in DOMAIN backlog : backlog'[k] = backlog[j]
    BY <1>1
<1> QED
    BY <1>1, <1>6, <1>7, <1>8, CalmBooks

LEMMA SkipBooks == ASSUME IInv, ClientsOK, Books, SkipNeighbour \/ SkipClient PROVE Books'
<1>1. /\ net' = net /\ server # "gone" /\ UNCHANGED clientVars
      /\ UNCHANGED <<client_socket, handshake, neighbour, pending, away, backlog>>
      /\ (\E next \in ServerAt \ {"gone", "serve"} : server' = next) \/ EndsTurn(pending, _loop)
    BY DEF SkipNeighbour, SkipClient, EndsTurn, Goes, queueVars, ServerAt
<1>2. Calm(net, net')
    BY <1>1, CalmStays DEF Books
<1> QED
    BY <1>1, <1>2, TurnBooks

LEMMA LeaveBooks == ASSUME IInv, ClientsOK, Books, Leave PROVE Books'
<1>1. Sound(net)
    BY DEF Books
<1>2. PICK w, how : /\ w = net \/ (neighbour # NoSock /\ w = SendAll(net, {neighbour}, "CMSG_LEAVE"))
                    /\ net' = After(w, {Server}) /\ ServerGone(how)
    BY DEF Leave, ServerEnds
<1>3. Sound(w)
  <2>1. server # "gone" /\ (neighbour # NoSock => neighbour \in net.open)
      BY EndsApart DEF Leave, Books
  <2> QED
      BY <1>1, <1>2, <2>1, CalmSend, CalmSound DEF Packet
<1> QED
    BY <1>2, <1>3, ServerEndsBooks

-----------------------------------------------------------------------------
(* The steps that use the ledger.                                          *)

\* The packets of R are read, and those of X written.
Moves(w, v, R, X) ==
    \A s \in Socket, p \in {"request", "answer"} :
       Count(v.inbox[s], p) + (IF <<s, p>> \in R THEN 1 ELSE 0)
          <= Count(w.inbox[s], p) + (IF <<s, p>> \in X THEN 1 ELSE 0)

LEMMA ReceiveMoves ==
    ASSUME NEW w, Sound(w), NEW s \in Socket, w.inbox[s] # << >>
    PROVE  Moves(w, Receive(w, s), {<<s, Head(w.inbox[s])>>}, {})
<1> DEFINE v == Receive(w, s)
<1>1. Flows(w, v, {}, {})
      /\ \A p : Count(v.inbox[s], p) = Count(w.inbox[s], p) - (IF Head(w.inbox[s]) = p THEN 1 ELSE 0)
    BY ReceiveFlows
<1> HIDE DEF v
<1>2. ASSUME NEW t \in Socket, NEW p \in {"request", "answer"}
      PROVE  Count(v.inbox[t], p) + (IF <<t, p>> \in {<<s, Head(w.inbox[s])>>} THEN 1 ELSE 0)
               <= Count(w.inbox[t], p) + (IF <<t, p>> \in {} THEN 1 ELSE 0)
  <2>1. Count(v.inbox[t], p) \in Nat /\ Count(w.inbox[t], p) \in Nat /\ <<t, p>> \notin {}
      BY <1>1, CountsOf DEF Flows
  <2>2. CASE t = s /\ p = Head(w.inbox[s])
      BY <1>1, <2>1, <2>2
  <2>3. CASE ~(t = s /\ p = Head(w.inbox[s]))
    <3>1. Count(v.inbox[t], p) <= Count(w.inbox[t], p) + (IF <<t, p>> \in {} THEN 1 ELSE 0)
        BY <1>1 DEF Flows, Gains
    <3> QED
        BY <2>1, <2>3, <3>1
  <2> QED
      BY <2>2, <2>3
<1> QED
    BY <1>2 DEF Moves, v

\* A packet is read at s, and one is written to t.
LEMMA ReadSendMoves ==
    ASSUME NEW w, Sound(w), NEW s \in Socket, w.inbox[s] # << >>, NEW t \in w.open, NEW msg \in Packet,
           NEW Z, Z = {}
    PROVE  /\ Flows(w, SendAll(Receive(w, s), {t}, msg), Z, {<<Peer(t), msg>>})
           /\ Moves(w, SendAll(Receive(w, s), {t}, msg), {<<s, Head(w.inbox[s])>>}, {<<Peer(t), msg>>})
<1> DEFINE v == Receive(w, s)
           x == SendAll(v, {t}, msg)
           X == {<<Peer(t), msg>>}
           R == {<<s, Head(w.inbox[s])>>}
<1>1. Flows(w, v, Z, Z) /\ Moves(w, v, R, Z) /\ v.open = w.open
    BY ReceiveFlows, ReceiveMoves, ReceiveOp DEF Sound
<1>2. Flows(v, x, Z, X)
    BY <1>1, SendFlows DEF Flows
<1> HIDE DEF v, x, X, R
<1>3. Flows(w, x, Z, X)
  <2>1. Z \cup Z = Z /\ Z \cup X = X /\ Z \cap X = {}
      OBVIOUS
  <2> QED
      BY <1>1, <1>2, <2>1, FlowsOn
<1>4. ASSUME NEW r \in Socket, NEW p \in {"request", "answer"}
      PROVE  Count(x.inbox[r], p) + (IF <<r, p>> \in R THEN 1 ELSE 0)
               <= Count(w.inbox[r], p) + (IF <<r, p>> \in X THEN 1 ELSE 0)
  <2>1. /\ Count(v.inbox[r], p) \in Nat /\ Count(w.inbox[r], p) \in Nat
        /\ Count(x.inbox[r], p) \in Nat
      BY <1>1, <1>2, CountsOf DEF Flows
  <2>2. Count(v.inbox[r], p) + (IF <<r, p>> \in R THEN 1 ELSE 0)
           <= Count(w.inbox[r], p) + (IF <<r, p>> \in Z THEN 1 ELSE 0)
      BY <1>1 DEF Moves
  <2>3. Count(x.inbox[r], p) <= Count(v.inbox[r], p) + (IF <<r, p>> \in X THEN 1 ELSE 0)
      BY <1>2 DEF Flows, Gains
  <2>4. <<r, p>> \notin Z
      OBVIOUS
  <2> QED
      BY <2>1, <2>2, <2>3, <2>4
<1> QED
    BY <1>3, <1>4 DEF Moves, v, x, X, R

LEMMA LedgerMoves ==
    ASSUME IInv, Books, server # "gone", Sound(net'), NEW R, NEW X, Moves(net, net', R, X),
           client_socket' = client_socket
    PROVE  /\ Sent \in Nat /\ Sent' \in Nat
           /\ client_socket = Stdin => Sent' = Sent
           /\ client_socket # Stdin =>
                 Sent' + (IF <<client_socket, "request">> \in R THEN 1 ELSE 0)
                    <= Sent + (IF <<client_socket, "request">> \in X THEN 1 ELSE 0)
           /\ neighbour # NoSock /\ neighbour' = neighbour =>
                 /\ OnLink \in Nat /\ OnLink' \in Nat
                 /\ OnLink' + (IF <<neighbour, "answer">> \in R THEN 1 ELSE 0)
                            + (IF <<Peer(neighbour), "request">> \in R THEN 1 ELSE 0)
                      <= OnLink + (IF <<neighbour, "answer">> \in X THEN 1 ELSE 0)
                                + (IF <<Peer(neighbour), "request">> \in X THEN 1 ELSE 0)
<1>1. Sound(net) /\ SocketsOK
    BY DEF Books
<1>2. \A s \in Socket : \A p : /\ Waiting(s, p) = Count(net.inbox[s], p) /\ Waiting(s, p) \in Nat
                                   /\ Count(net'.inbox[s], p) \in Nat
    BY <1>1, WaitingCounts, WaitingType, CountsOf
<1>3. \A s \in Socket, p \in {"request", "answer"} :
         Count(net'.inbox[s], p) + (IF <<s, p>> \in R THEN 1 ELSE 0)
            <= Waiting(s, p) + (IF <<s, p>> \in X THEN 1 ELSE 0)
    BY <1>2 DEF Moves
<1>4. client_socket = Stdin => Sent = 0 /\ Sent' = 0
    BY DEF Sent
<1>5. ASSUME client_socket # Stdin
      PROVE  /\ Sent \in Nat /\ Sent' \in Nat
             /\ Sent' + (IF <<client_socket, "request">> \in R THEN 1 ELSE 0)
                  <= Sent + (IF <<client_socket, "request">> \in X THEN 1 ELSE 0)
  <2>1. client_socket \in Socket
      BY <1>1, <1>5, EndsApart
  <2>2. Sent = Waiting(client_socket, "request")
      BY <1>5 DEF Sent
  <2>3. Sent' = Count(net'.inbox[client_socket], "request")
      BY <1>5 DEF Sent, Waiting, Count, Places
  <2>4. /\ Waiting(client_socket, "request") \in Nat
        /\ Count(net'.inbox[client_socket], "request") \in Nat
        /\ Count(net'.inbox[client_socket], "request")
                + (IF <<client_socket, "request">> \in R THEN 1 ELSE 0)
             <= Waiting(client_socket, "request") + (IF <<client_socket, "request">> \in X THEN 1 ELSE 0)
      BY <1>2, <1>3, <2>1
  <2> QED
      BY <2>2, <2>3, <2>4
<1>6. ASSUME neighbour # NoSock, neighbour' = neighbour
      PROVE  /\ OnLink \in Nat /\ OnLink' \in Nat
             /\ OnLink' + (IF <<neighbour, "answer">> \in R THEN 1 ELSE 0)
                        + (IF <<Peer(neighbour), "request">> \in R THEN 1 ELSE 0)
                  <= OnLink + (IF <<neighbour, "answer">> \in X THEN 1 ELSE 0)
                            + (IF <<Peer(neighbour), "request">> \in X THEN 1 ELSE 0)
  <2>1. neighbour \in Socket /\ Peer(neighbour) \in Socket
      BY <1>1, <1>6, EndsApart
  <2>2. OnLink' = Count(net'.inbox[neighbour], "answer") + Count(net'.inbox[Peer(neighbour)], "request")
      BY <1>6 DEF OnLink, Waiting, Count, Places
  <2>3. /\ Count(net'.inbox[neighbour], "answer") \in Nat
        /\ Count(net'.inbox[Peer(neighbour)], "request") \in Nat
        /\ Waiting(neighbour, "answer") \in Nat /\ Waiting(Peer(neighbour), "request") \in Nat
      BY <1>2, <2>1
  <2>4. Count(net'.inbox[neighbour], "answer") + (IF <<neighbour, "answer">> \in R THEN 1 ELSE 0)
           <= Waiting(neighbour, "answer") + (IF <<neighbour, "answer">> \in X THEN 1 ELSE 0)
      BY <1>3, <2>1
  <2>5. Count(net'.inbox[Peer(neighbour)], "request")
             + (IF <<Peer(neighbour), "request">> \in R THEN 1 ELSE 0)
           <= Waiting(Peer(neighbour), "request")
                + (IF <<Peer(neighbour), "request">> \in X THEN 1 ELSE 0)
      BY <1>3, <2>1
  <2> QED
      BY <2>2, <2>3, <2>4, <2>5 DEF OnLink
<1> QED
    BY <1>4, <1>5, <1>6

\* The numbers, in a turn of the server.
LEMMA Numbers ==
    ASSUME IInv, ClientsOK, Books, server # "gone"
    PROVE  /\ pending \in Nat /\ away \in Nat /\ typed \in Nat /\ pending + away <= MaxRequests
           /\ typed <= MaxRequests /\ MaxRequests \in Nat
           /\ Unread \in Nat /\ Unread' \in Nat
           /\ pending + away + Sent + Unread <= typed \/ Ended
           /\ neighbour # NoSock => OnLink <= away
           /\ pending > 0 \/ away > 0 => handshake
           /\ handshake => client_socket # Stdin
           /\ server = "serve" => pending > 0 /\ neighbour # NoSock
<1>1. RequestsOK /\ SocketsOK
    BY DEF Books
<1>2. typed \in Nat /\ MaxRequests \in Nat /\ typed <= MaxRequests
    BY SessionAssumption DEF ClientsOK
<1>3. pending \in Nat /\ away \in Nat /\ pending + away <= MaxRequests
    BY <1>1 DEF RequestsOK
<1>4. pending > 0 \/ away > 0 => handshake
    BY <1>1, <1>3 DEF RequestsOK, Ledger
<1> QED
    BY <1>1, <1>2, <1>3, <1>4, UnreadType DEF RequestsOK, Ledger, SocketsOK

LEMMA SumServes ==
    \A p, a, s, u, t, v, w \in Nat : p + a + s + u <= t /\ w <= s /\ v <= u =>
       /\ p - 1 + a + w + v <= t
       /\ p - 1 + (a + 1) + w + v <= t
       /\ p + (a - 1) + w + v <= t
OBVIOUS

LEMMA LessServes ==
    \A p, a, m \in Nat : p + a <= m =>
       /\ p > 0 => /\ p - 1 \in Nat /\ a + 1 \in Nat
                   /\ p - 1 + a <= m /\ p - 1 + (a + 1) <= m
       /\ a >= 1 => a - 1 \in Nat /\ p + (a - 1) <= m
OBVIOUS

LEMMA SumReads ==
    \A p, a, s, u, t, v, w \in Nat : p + a + s + u <= t /\ w + 1 <= s /\ v <= u =>
       p + 1 + a + w + v <= t /\ 1 <= s
OBVIOUS

\* A request is taken from the list, and answered or passed on.
LEMMA ServeBooks == ASSUME IInv, ClientsOK, Books, Serve PROVE Books'
<1>1. /\ server = "serve" /\ pending' = pending - 1 /\ EndsTurn(pending - 1, _loop)
      /\ UNCHANGED <<input, typed, backlog, client_socket, handshake, neighbour>>
    BY DEF Serve, EndsTurn, clientVars
<1>2. server' # "gone" /\ (server' = "serve" => pending' > 0 /\ neighbour' # NoSock)
    BY <1>1 DEF EndsTurn, Goes
<1>3. Sound(net) /\ SocketsOK /\ pending > 0 /\ neighbour # NoSock /\ handshake /\ client_socket # Stdin
    BY <1>1, Numbers DEF Books
<1>4. /\ client_socket \in net.open /\ neighbour \in net.open /\ client_socket # Peer(neighbour)
      /\ client_socket \in Socket /\ neighbour \in Socket
    BY <1>1, <1>3, EndsApart
<1>5. Peer(client_socket) # neighbour
    BY <1>4, PeerOf
<1>6. PICK Z : Z = {}
    OBVIOUS
<1>7. ASSUME NEW X, Flows(net, net', Z, X), <<client_socket, "request">> \notin X,
             away' \in {away, away + 1},
             <<neighbour, "answer">> \notin X,
             away' = away => <<Peer(neighbour), "request">> \notin X
      PROVE  Books'
  <2>1. /\ pending \in Nat /\ away \in Nat /\ pending + away <= MaxRequests
        /\ typed \in Nat /\ Unread \in Nat /\ Unread' \in Nat /\ Unread' <= Unread /\ MaxRequests \in Nat
      BY <1>1, Numbers, UnreadStays
  <2>2. pending + away + Sent + Unread <= typed \/ Ended
      BY <1>1, Numbers
  <2>3. OnLink <= away
      BY <1>1, <1>3, Numbers
  <2>4. /\ Sent \in Nat /\ Sent' \in Nat /\ Sent' <= Sent
        /\ Ended => Ended'
        /\ OnLink \in Nat /\ OnLink' \in Nat
        /\ OnLink' <= OnLink + (IF <<Peer(neighbour), "request">> \in X THEN 1 ELSE 0)
    <3>1. /\ Sent \in Nat /\ Sent' \in Nat
          /\ Sent' <= Sent + (IF <<client_socket, "request">> \in X THEN 1 ELSE 0)
          /\ Ended => Ended'
          /\ neighbour # NoSock /\ neighbour' = neighbour =>
                /\ OnLink \in Nat /\ OnLink' \in Nat
                /\ OnLink' <= OnLink + (IF <<neighbour, "answer">> \in X THEN 1 ELSE 0)
                                     + (IF <<Peer(neighbour), "request">> \in X THEN 1 ELSE 0)
        BY <1>1, <1>6, <1>7, LedgerFlows
    <3> QED
        BY <1>1, <1>3, <1>7, <3>1
  <2>5. pending' \in Nat /\ away' \in Nat /\ pending' + away' <= MaxRequests
    <3>1. /\ pending - 1 \in Nat /\ away + 1 \in Nat
          /\ pending - 1 + away <= MaxRequests /\ pending - 1 + (away + 1) <= MaxRequests
        BY <1>3, <2>1, LessServes
    <3> QED
        BY <1>1, <1>7, <2>1, <3>1
  <2>6. OnLink' <= away'
    <3>1. CASE away' = away
        BY <1>7, <2>1, <2>3, <2>4, <3>1
    <3>2. CASE away' = away + 1
        BY <2>1, <2>3, <2>4, <3>2
    <3> QED
        BY <1>7, <3>1, <3>2
  <2>7. pending' + away' + Sent' + Unread' <= typed' \/ Ended'
    <3>1. \/ Ended
          \/ /\ pending - 1 + away + Sent' + Unread' <= typed
             /\ pending - 1 + (away + 1) + Sent' + Unread' <= typed
        BY <2>1, <2>2, <2>4, SumServes
    <3>2. CASE away' = away
        BY <1>1, <2>4, <3>1, <3>2
    <3>3. CASE away' = away + 1
        BY <1>1, <2>4, <3>1, <3>3
    <3> QED
        BY <1>7, <3>2, <3>3
  <2> QED
      BY <1>1, <1>2, <1>3, <1>6, <1>7, <2>5, <2>6, <2>7, BusyBooks
<1>8. CASE net' = SendAll(net, {client_socket}, "answer") /\ away' = away
  <2> DEFINE X == {<<Peer(client_socket), "answer">>}
  <2>1. Flows(net, net', Z, X)
      BY <1>3, <1>4, <1>6, <1>8, SendFlows DEF Packet
  <2>2. /\ <<client_socket, "request">> \notin X /\ <<neighbour, "answer">> \notin X
        /\ <<Peer(neighbour), "request">> \notin X
      BY <1>5
  <2> QED
      BY <1>7, <1>8, <2>1, <2>2
<1>9. CASE net' = SendAll(net, {neighbour}, "request") /\ away' = away + 1
  <2> DEFINE X == {<<Peer(neighbour), "request">>}
  <2>1. Flows(net, net', Z, X)
      BY <1>3, <1>4, <1>6, <1>9, SendFlows DEF Packet
  <2>2. <<client_socket, "request">> \notin X /\ <<neighbour, "answer">> \notin X /\ away' # away
      BY <1>1, <1>4, <1>9, Numbers
  <2> QED
      BY <1>7, <1>9, <2>1, <2>2
<1> QED
    BY <1>8, <1>9 DEF Serve

\* What is at the head of an inbox is counted.
LEMMA HeadWaits ==
    ASSUME Sound(net), NEW s \in Socket, net.inbox[s] # << >>, NEW p, Head(net.inbox[s]) = p
    PROVE  Waiting(s, p) >= 1
BY CountHead, WaitingCounts DEF Sound, Shape

\* An answer goes from the link to the client.
LEMMA TellsBooks ==
    ASSUME IInv, ClientsOK, Books, server # "gone", neighbour # NoSock, net.inbox[neighbour] # << >>,
           Head(net.inbox[neighbour]) = "answer", TellsClient(Receive(net, neighbour))
    PROVE  Books'
<1>1. Sound(net) /\ SocketsOK
    BY DEF Books
<1>2. neighbour \in Socket /\ Peer(neighbour) \in Socket /\ client_socket # Peer(neighbour)
    BY <1>1, EndsApart
<1>3. CASE ServerEnds("SIGPIPE")
    BY <1>1, <1>3, ServerEndsBooks DEF ServerEnds
<1>4. CASE /\ net' = SendAll(Receive(net, neighbour), {client_socket}, "answer")
           /\ Goes("client") /\ away' = away - 1
           /\ UNCHANGED <<input, typed, backlog, client_socket, handshake, neighbour, pending>>
  <2>1. /\ pending \in Nat /\ away \in Nat /\ pending + away <= MaxRequests
        /\ typed \in Nat /\ Unread \in Nat /\ Unread' \in Nat /\ Unread' <= Unread /\ MaxRequests \in Nat
      BY <1>4, Numbers, UnreadStays
  <2>2. OnLink <= away /\ (pending + away + Sent + Unread <= typed \/ Ended)
      BY Numbers
  <2>3. away >= 1
    <3>1. Waiting(neighbour, "answer") >= 1 /\ Waiting(neighbour, "answer") \in Nat
          /\ Waiting(Peer(neighbour), "request") \in Nat
        BY <1>1, <1>2, HeadWaits, WaitingType
    <3> QED
        BY <2>1, <2>2, <3>1 DEF OnLink
  <2>4. handshake /\ client_socket # Stdin
      BY <2>1, <2>3, Numbers
  <2>5. client_socket \in net.open /\ client_socket \in Socket /\ Peer(client_socket) # neighbour
      BY <1>1, <1>2, <2>4, EndsApart, PeerOf
  <2>6. PICK Z : Z = {}
      OBVIOUS
  <2> DEFINE X == {<<Peer(client_socket), "answer">>}
             R == {<<neighbour, "answer">>}
  <2>7. Flows(net, net', Z, X) /\ Moves(net, net', R, X)
      BY <1>1, <1>2, <1>4, <2>5, <2>6, ReadSendMoves DEF Packet
  <2>8. /\ <<client_socket, "request">> \notin X /\ <<neighbour, "answer">> \notin X
        /\ <<Peer(neighbour), "request">> \notin X /\ <<neighbour, "answer">> \in R
        /\ <<Peer(neighbour), "request">> \notin R
        /\ \A s \in Socket : <<s, "request">> \notin X
      BY <2>5
  <2> HIDE DEF X, R
  <2>9. /\ Sent \in Nat /\ Sent' \in Nat /\ Sent' <= Sent
        /\ Ended => Ended'
    <3>1. /\ Sent \in Nat /\ Sent' \in Nat
          /\ Sent' <= Sent + (IF <<client_socket, "request">> \in X THEN 1 ELSE 0)
          /\ Ended => Ended'
      <4>1. client_socket' = client_socket /\ \A s \in Z : ~OwnEnd(net, s)
          BY <1>4, <2>6
      <4> QED
          BY <2>7, <4>1, LedgerFlows
    <3> QED
        BY <2>8, <3>1
  <2>10. OnLink \in Nat /\ OnLink' \in Nat /\ OnLink' + 1 <= OnLink
    <3>1. /\ OnLink \in Nat /\ OnLink' \in Nat
          /\ OnLink' + (IF <<neighbour, "answer">> \in R THEN 1 ELSE 0)
                     + (IF <<Peer(neighbour), "request">> \in R THEN 1 ELSE 0)
               <= OnLink + (IF <<neighbour, "answer">> \in X THEN 1 ELSE 0)
                         + (IF <<Peer(neighbour), "request">> \in X THEN 1 ELSE 0)
        BY <1>4, <2>7, LedgerMoves DEF Flows
    <3> QED
        BY <2>8, <3>1
  <2>11. away' \in Nat /\ pending' \in Nat /\ pending' + away' <= MaxRequests
    <3>1. away - 1 \in Nat /\ pending + (away - 1) <= MaxRequests
        BY <2>1, <2>3, LessServes
    <3> QED
        BY <1>4, <2>1, <3>1
  <2>12. OnLink' <= away'
    <3>1. \A a, n, o \in Nat : n + 1 <= o /\ o <= a => n <= a - 1
        OBVIOUS
    <3>2. OnLink' <= away - 1
        BY <2>1, <2>2, <2>10, <3>1
    <3> QED
        BY <1>4, <3>2
  <2>13. pending' + away' + Sent' + Unread' <= typed' \/ Ended'
    <3>1. Ended \/ pending + (away - 1) + Sent' + Unread' <= typed
        BY <2>1, <2>2, <2>9, SumServes
    <3> QED
        BY <1>4, <2>9, <3>1
  <2>14. server' # "gone" /\ server' # "serve"
      BY <1>4 DEF Goes
  <2>15. UNCHANGED <<backlog, client_socket, handshake>>
      BY <1>4
  <2> QED
      BY <2>4, <2>6, <2>7, <2>11, <2>12, <2>13, <2>14, <2>15, BusyBooks
<1> QED
    BY <1>3, <1>4 DEF TellsClient, clientVars

LEMMA ReadNeighbourBooks == ASSUME IInv, ClientsOK, Books, ReadNeighbour PROVE Books'
<1>1. server \in {"neighbour", "stuck"} /\ server # "gone" /\ neighbour # NoSock
    BY DEF ReadNeighbour, IsAt
<1>2. Sound(net) /\ SocketsOK
    BY DEF Books
<1>3. neighbour \in Socket /\ ~OwnEnd(net, neighbour)
    BY <1>1, <1>2, EndsApart
<1>4. CASE /\ net.inbox[neighbour] # << >> /\ Head(net.inbox[neighbour]) = "answer"
           /\ TellsClient(Receive(net, neighbour))
    BY <1>1, <1>4, TellsBooks
<1>5. CASE /\ net' = CloseAll(net, {neighbour}) /\ neighbour' = NoSock /\ Goes("client")
           /\ UNCHANGED <<clientVars, backlog, client_socket, handshake, queueVars, _loop>>
  <2>1. UNCHANGED <<input, typed, backlog, client_socket, handshake, pending, away>>
      BY <1>5 DEF clientVars, queueVars
  <2>2. PICK Z : Z = {}
      OBVIOUS
  <2>3. Flows(net, net', {neighbour}, Z) /\ \A s \in {neighbour} : ~OwnEnd(net, s)
      BY <1>2, <1>3, <1>5, <2>2, CloseFlows
  <2>4. /\ pending \in Nat /\ away \in Nat /\ pending + away <= MaxRequests
        /\ typed \in Nat /\ Unread \in Nat /\ Unread' \in Nat /\ Unread' <= Unread
        /\ (pending + away + Sent + Unread <= typed \/ Ended)
      BY <1>1, <2>1, Numbers, UnreadStays
  <2>5. Sent \in Nat /\ Sent' \in Nat /\ Sent' <= Sent /\ (Ended => Ended')
    <3>1. /\ Sent \in Nat /\ Sent' \in Nat
          /\ Sent' <= Sent + (IF <<client_socket, "request">> \in Z THEN 1 ELSE 0)
          /\ Ended => Ended'
      <4>1. client_socket' = client_socket
          BY <2>1
      <4> QED
          BY <1>1, <2>3, <4>1, LedgerFlows
    <3> QED
        BY <2>2, <3>1
  <2>6. pending' + away' + Sent' + Unread' <= typed' \/ Ended'
    <3>1. Ended \/ pending + away + Sent' + Unread' <= typed
        BY <2>4, <2>5, SumFalls
    <3> QED
        BY <2>1, <2>5, <3>1
  <2>7. server' # "gone" /\ server' # "serve" /\ neighbour' = NoSock
      BY <1>5 DEF Goes
  <2>8. pending' \in Nat /\ away' \in Nat /\ pending' + away' <= MaxRequests
      BY <2>1, <2>4
  <2>9. ~handshake => pending' = 0 /\ away' = 0 /\ \A s \in Socket : <<s, "request">> \notin Z
      BY <1>1, <2>1, <2>2 DEF Books, RequestsOK, Ledger
  <2>10. UNCHANGED <<backlog, client_socket, handshake>>
      BY <2>1
  <2> QED
      BY <1>1, <2>3, <2>6, <2>7, <2>8, <2>9, <2>10, BusyBooks
<1>6. CASE /\ net' = net /\ Goes("client")
           /\ UNCHANGED <<clientVars, backlog, client_socket, handshake, neighbour, queueVars, _loop>>
  <2>1. /\ Calm(net, net') /\ UNCHANGED clientVars
        /\ UNCHANGED <<client_socket, handshake, neighbour, pending, away, backlog>>
        /\ (\E next \in ServerAt \ {"gone", "serve"} : server' = next)
      BY <1>2, <1>6, CalmStays DEF Goes, queueVars, ServerAt
  <2> QED
      BY <1>1, <2>1, TurnBooks
<1> QED
    BY <1>4, <1>5, <1>6 DEF ReadNeighbour

\* The link is told of the end.
LEMMA HeedsExitBooks ==
    ASSUME IInv, ClientsOK, Books, server # "gone", NEW w, Calm(net, w), w.open = net.open, HeedsExit(w)
    PROVE  Books'
<1>1. Sound(net) /\ Sound(w) /\ SocketsOK
    BY CalmSound DEF Books
<1>2. CASE ServerEnds("SIGPIPE")
    BY <1>1, <1>2, ServerEndsBooks DEF ServerEnds
<1>3. CASE /\ net' = IF neighbour = NoSock THEN w ELSE SendAll(w, {neighbour}, "CMSG_LEAVE")
           /\ EndsTurn(pending, FALSE)
           /\ UNCHANGED <<clientVars, backlog, client_socket, handshake, neighbour, away>>
  <2>1. Calm(net, net')
    <3>1. CASE neighbour = NoSock
        BY <1>3, <3>1
    <3>2. CASE neighbour # NoSock
      <4>1. neighbour \in w.open /\ net' = SendAll(w, {neighbour}, "CMSG_LEAVE")
          BY <1>1, <1>3, <3>2, EndsApart
      <4>2. Calm(w, net')
          BY <1>1, <4>1, CalmSend DEF Packet
      <4> QED
          BY <1>1, <4>2, CalmOn
    <3> QED
        BY <3>1, <3>2
  <2>2. /\ UNCHANGED clientVars
        /\ UNCHANGED <<client_socket, handshake, neighbour, pending, away, backlog>>
        /\ \E goOn : EndsTurn(pending, goOn)
      BY <1>3 DEF EndsTurn
  <2> QED
      BY <2>1, <2>2, TurnBooks
<1> QED
    BY <1>2, <1>3 DEF HeedsExit

\* A request is put on the list: one that was sent, or what the end of file makes of one.
LEMMA HeedsRequestBooks ==
    ASSUME IInv, ClientsOK, Books, server \in {"client", "stuck"}, client_socket # Stdin, NEW w,
           HeedsRequest(w),
           \/ /\ net.inbox[client_socket] # << >> /\ Head(net.inbox[client_socket]) = "request"
              /\ w = Receive(net, client_socket)
           \/ AtEof(net, client_socket) /\ pending + away < MaxRequests /\ w = net
    PROVE  Books'
<1>1. /\ net' = w /\ pending' = pending + 1 /\ away' = away /\ EndsTurn(pending + 1, _loop)
      /\ UNCHANGED <<input, typed, backlog, client_socket, handshake, neighbour>>
    BY DEF HeedsRequest, EndsTurn, clientVars
<1>2. server # "gone" /\ server' # "gone" /\ (server' = "serve" => pending' > 0 /\ neighbour' # NoSock)
    BY <1>1 DEF EndsTurn, Goes
<1>3. Sound(net) /\ SocketsOK /\ handshake
    BY <1>2 DEF Books, IInv, SessionInv, ServerSockets
<1>4. client_socket \in Socket /\ client_socket # neighbour
      /\ (neighbour # NoSock => client_socket # Peer(neighbour))
    BY <1>2, <1>3, EndsApart
<1>5. /\ pending \in Nat /\ away \in Nat /\ pending + away <= MaxRequests
      /\ typed \in Nat /\ typed <= MaxRequests /\ MaxRequests \in Nat
      /\ Unread \in Nat /\ Unread' \in Nat /\ Unread' <= Unread
      /\ (pending + away + Sent + Unread <= typed \/ Ended)
      /\ (neighbour # NoSock => OnLink <= away)
    BY <1>1, <1>2, Numbers, UnreadStays
<1>6. PICK Z : Z = {}
    OBVIOUS
<1>7. ASSUME Flows(net, net', Z, Z), pending' + away' <= MaxRequests,
             pending' + away' + Sent' + Unread' <= typed' \/ Ended'
      PROVE  Books'
  <2>1. neighbour # NoSock => OnLink \in Nat /\ OnLink' \in Nat /\ OnLink' <= OnLink
    <3>1. neighbour # NoSock /\ neighbour' = neighbour =>
             /\ OnLink \in Nat /\ OnLink' \in Nat
             /\ OnLink' <= OnLink + (IF <<neighbour, "answer">> \in Z THEN 1 ELSE 0)
                                  + (IF <<Peer(neighbour), "request">> \in Z THEN 1 ELSE 0)
      <4>1. client_socket' = client_socket /\ \A s \in Z : ~OwnEnd(net, s)
          BY <1>1, <1>6
      <4> QED
          BY <1>2, <1>7, <4>1, LedgerFlows
    <3>2. <<neighbour, "answer">> \notin Z /\ <<Peer(neighbour), "request">> \notin Z
          /\ neighbour' = neighbour
        BY <1>1, <1>6
    <3> QED
        BY <3>1, <3>2
  <2>2. neighbour' # NoSock => OnLink' <= away'
      BY <1>1, <1>5, <2>1
  <2>3. pending' \in Nat /\ away' \in Nat /\ \A s \in Z : ~OwnEnd(net, s)
      BY <1>1, <1>5, <1>6
  <2>4. UNCHANGED <<backlog, client_socket, handshake>>
      BY <1>1
  <2> QED
      BY <1>2, <1>3, <1>7, <2>2, <2>3, <2>4, BusyBooks
<1>8. CASE /\ net.inbox[client_socket] # << >> /\ Head(net.inbox[client_socket]) = "request"
           /\ w = Receive(net, client_socket)
  <2> DEFINE R == {<<client_socket, "request">>}
  <2>1. Flows(net, net', Z, Z) /\ Moves(net, net', R, Z)
      BY <1>1, <1>3, <1>4, <1>6, <1>8, ReceiveFlows, ReceiveMoves
  <2>2. Sent \in Nat /\ Sent' \in Nat /\ Sent' + 1 <= Sent
    <3>1. /\ Sent \in Nat /\ Sent' \in Nat
          /\ Sent' + (IF <<client_socket, "request">> \in R THEN 1 ELSE 0)
               <= Sent + (IF <<client_socket, "request">> \in Z THEN 1 ELSE 0)
      <4>1. client_socket' = client_socket
          BY <1>1
      <4> HIDE DEF R
      <4> QED
          BY <1>2, <2>1, <4>1, LedgerMoves DEF Flows
    <3>2. <<client_socket, "request">> \in R /\ <<client_socket, "request">> \notin Z
        BY <1>6
    <3> HIDE DEF R
    <3> QED
        BY <3>1, <3>2
  <2>3. pending + away + Sent + Unread <= typed
      BY <1>5, <1>8 DEF Ended, AtEof
  <2>4. pending + 1 + away + Sent' + Unread' <= typed /\ 1 <= Sent
    <3>1. /\ pending \in Nat /\ away \in Nat /\ typed \in Nat /\ Unread \in Nat /\ Unread' \in Nat
          /\ Unread' <= Unread
        BY <1>5
    <3> QED
        BY <2>2, <2>3, <3>1, SumReads
  <2>5. pending + 1 + away <= MaxRequests
    <3>1. \A p, a, s, u, t, m \in Nat : p + a + s + u <= t /\ 1 <= s /\ t <= m => p + 1 + a <= m
        OBVIOUS
    <3> QED
        BY <1>5, <2>2, <2>3, <2>4, <3>1
  <2>6. pending' + away' <= MaxRequests /\ pending' + away' + Sent' + Unread' <= typed'
      BY <1>1, <2>4, <2>5
  <2> QED
      BY <1>7, <2>1, <2>6
<1>9. CASE AtEof(net, client_socket) /\ pending + away < MaxRequests /\ w = net
  <2>1. Flows(net, net', Z, Z)
      BY <1>1, <1>3, <1>6, <1>9, FlowsStays
  <2>2. Ended'
      BY <1>1, <1>9 DEF Ended
  <2>3. pending + 1 + away <= MaxRequests
      BY <1>5, <1>9
  <2>4. pending' + away' <= MaxRequests
      BY <1>1, <2>3
  <2> QED
      BY <1>7, <2>1, <2>2, <2>4
<1> QED
    BY <1>8, <1>9

LEMMA ReadClientBooks == ASSUME IInv, ClientsOK, Books, ReadClient PROVE Books'
<1>1. server \in {"client", "stuck"} /\ server # "gone" /\ Sound(net) /\ SocketsOK
    BY DEF ReadClient, IsAt, Books
<1>2. client_socket # Stdin => client_socket \in Socket
    BY <1>1, EndsApart
<1>3. CASE /\ client_socket = Stdin /\ StealsInput /\ EndsTurn(pending, _loop)
           /\ UNCHANGED <<backlog, client_socket, handshake, neighbour, away>>
  <2>1. /\ net' = net /\ UNCHANGED <<client_socket, handshake, neighbour, pending, away, backlog>>
      BY <1>3 DEF StealsInput, EndsTurn
  <2>2. Calm(net, net')
      BY <1>1, <2>1, CalmStays
  <2> QED
      BY <1>1, <1>3, <2>1, <2>2, TurnBooks
<1>4. CASE client_socket # Stdin /\ net.inbox[client_socket] # << >>
  <2> DEFINE w == Receive(net, client_socket)
  <2>1. Calm(net, w) /\ w.open = net.open
      BY <1>1, <1>2, <1>4, CalmReceive, ReceiveOp DEF Sound
  <2>2. \/ Head(net.inbox[client_socket]) = "request" /\ HeedsRequest(w)
        \/ HeedsExit(w)
      BY <1>4 DEF ReadClient, AtEof
  <2>3. w = Receive(net, client_socket)
      OBVIOUS
  <2> HIDE DEF w
  <2>4. CASE HeedsExit(w)
      BY <1>1, <2>1, <2>4, HeedsExitBooks
  <2>5. CASE Head(net.inbox[client_socket]) = "request" /\ HeedsRequest(w)
      BY <1>1, <1>4, <2>3, <2>5, HeedsRequestBooks
  <2> QED
      BY <2>2, <2>4, <2>5
<1>5. CASE client_socket # Stdin /\ AtEof(net, client_socket)
  <2>1. Calm(net, net)
      BY <1>1, CalmStays
  <2>2. CASE HeedsExit(net)
      BY <1>1, <2>1, <2>2, HeedsExitBooks
  <2>3. CASE pending + away < MaxRequests /\ HeedsRequest(net)
      BY <1>1, <1>5, <2>3, HeedsRequestBooks
  <2>4. CASE /\ EndsTurn(pending, _loop)
             /\ UNCHANGED <<net, clientVars, backlog, client_socket, handshake, neighbour, away>>
    <3>1. /\ Calm(net, net') /\ UNCHANGED clientVars
          /\ UNCHANGED <<client_socket, handshake, neighbour, pending, away, backlog>>
        BY <2>1, <2>4 DEF EndsTurn
    <3> QED
        BY <1>1, <2>4, <3>1, TurnBooks
  <2> QED
      BY <1>5, <2>2, <2>3, <2>4 DEF ReadClient, AtEof
<1> QED
    BY <1>3, <1>4, <1>5 DEF ReadClient

\* Only the client that has the session, and Own, are typed to.
LEMMA UnreadIsRead ==
    ASSUME IInv, ClientsOK, server # "gone", NEW c \in Client, IsTyped(c), client[c] = "prompt",
           input' = [input EXCEPT ![c] = << >>]
    PROVE  Unread' + 1 <= Unread
<1>1. ~IsTyped(c)' /\ \A d \in Client : d # c => (IsTyped(d)' <=> IsTyped(d))
    BY DEF ClientsOK, IsTyped
<1>2. CASE c = Own
  <2>1. (\E d \in Others : IsTyped(d))' <=> \E d \in Others : IsTyped(d)
      BY <1>1, <1>2, SessionAssumption DEF Client
  <2>2. ~IsTyped(Own)' /\ IsTyped(Own)
      BY <1>1, <1>2
  <2> QED
      BY <2>1, <2>2 DEF Unread
<1>3. CASE c # Own
  <2>1. c \in Others /\ Own \in Client /\ Others \subseteq Client
      BY <1>3 DEF Client
  <2>2. ASSUME NEW d \in Others, IsTyped(d)
        PROVE  d = c
    <3>1. client[d] = "prompt" /\ d \in Client
        BY <2>1, <2>2, SessionAssumption DEF ClientsOK, IsTyped
    <3>2. client_socket = Peer(conn[c]) /\ client_socket = Peer(conn[d])
        BY <3>1 DEF IInv, SessionInv, AgreeOnSession
    <3>3. /\ conn[c] \in Socket /\ conn[d] \in Socket
          /\ net.host[conn[c]] = c /\ net.host[conn[d]] = d
        BY <3>1 DEF IInv, SessionInv, ClientsReach, Reaches, TalkAt
    <3>4. conn[c] = Peer(client_socket) /\ conn[d] = Peer(client_socket)
        BY <3>2, <3>3, PeerOf
    <3> QED
        BY <3>3, <3>4
  <2>3. ~(\E d \in Others : IsTyped(d))'
    <3>1. \A d \in Others : ~IsTyped(d)'
        BY <1>1, <2>1, <2>2
    <3> QED
        BY <3>1
  <2>4. (IsTyped(Own)' <=> IsTyped(Own)) /\ \E d \in Others : IsTyped(d)
      BY <1>1, <1>3, <2>1
  <2> QED
      BY <2>3, <2>4 DEF Unread
<1> QED
    BY <1>2, <1>3

LEMMA SumWrites ==
    \A p, a, s, u, t, v, w \in Nat : p + a + s + u <= t /\ w <= s + 1 /\ v + 1 <= u => p + a + w + v <= t
OBVIOUS

\* A request goes from its user to the server.
LEMMA WritesBooks ==
    ASSUME IInv, ClientsOK, Books, NEW c \in Client, client[c] = "prompt", IsTyped(c),
           net' = SendAll(net, {conn[c]}, "request"), input' = [input EXCEPT ![c] = Tail(@)],
           UNCHANGED typed, UNCHANGED serverVars
    PROVE  Books'
<1>1. Sound(net) /\ SocketsOK /\ RequestsOK
    BY DEF Books
<1>2. conn[c] \in net.open /\ conn[c] \in Socket
    BY DEF IInv, SessionInv, ClientsReach, Reaches, TalkAt
<1>3. /\ input[c] \in OneLine /\ input[c] # << >>
      /\ UNCHANGED <<server, backlog, client_socket, handshake, neighbour, pending, away>>
    BY DEF ClientsOK, IsTyped, serverVars, queueVars
<1>4. PICK Z : Z = {}
    OBVIOUS
<1> DEFINE X == {<<Peer(conn[c]), "request">>}
<1>5. Flows(net, net', Z, X)
    BY <1>1, <1>2, <1>4, SendFlows DEF Packet
<1>6. CASE server = "gone"
    BY <1>1, <1>3, <1>5, <1>6, GoneBooks DEF Flows, RequestsOK, SocketsOK
<1>7. CASE server # "gone"
  <2>1. handshake /\ client_socket = Peer(conn[c])
      BY <1>7 DEF IInv, SessionInv, AgreeOnSession
  <2>2. neighbour # NoSock => client_socket # Peer(neighbour) /\ client_socket # neighbour
    <3>1. client_socket # Stdin
        BY <1>1, <1>7, <2>1 DEF SocketsOK
    <3> QED
        BY <1>1, <1>7, <3>1, EndsApart
  <2>3. neighbour # NoSock => <<neighbour, "answer">> \notin X /\ <<Peer(neighbour), "request">> \notin X
      BY <2>1, <2>2
  <2>4. client_socket' = client_socket /\ neighbour' = neighbour /\ \A s \in Z : ~OwnEnd(net, s)
      BY <1>3, <1>4
  <2> HIDE DEF X
  <2>5. /\ Sound(net') /\ Sent \in Nat /\ Sent' \in Nat
        /\ Sent' <= Sent + (IF <<client_socket, "request">> \in X THEN 1 ELSE 0)
        /\ Ended => Ended'
        /\ neighbour # NoSock /\ neighbour' = neighbour =>
              /\ OnLink \in Nat /\ OnLink' \in Nat
              /\ OnLink' <= OnLink + (IF <<neighbour, "answer">> \in X THEN 1 ELSE 0)
                                   + (IF <<Peer(neighbour), "request">> \in X THEN 1 ELSE 0)
      BY <1>5, <1>7, <2>4, LedgerFlows
  <2>6. Sent \in Nat /\ Sent' \in Nat /\ Sent' <= Sent + 1
      BY <2>5
  <2>7. neighbour # NoSock => OnLink \in Nat /\ OnLink' \in Nat /\ OnLink' <= OnLink
      BY <2>3, <2>4, <2>5
  <2>8. /\ pending \in Nat /\ away \in Nat /\ typed \in Nat /\ pending + away <= MaxRequests
        /\ Unread \in Nat /\ Unread' \in Nat
        /\ (pending + away + Sent + Unread <= typed \/ Ended)
        /\ (neighbour # NoSock => OnLink <= away)
        /\ (server = "serve" => pending > 0 /\ neighbour # NoSock)
      BY <1>7, Numbers
  <2>9. Unread' + 1 <= Unread
    <3>1. input' = [input EXCEPT ![c] = << >>]
        BY <1>3, Lines
    <3> QED
        BY <1>7, <3>1, UnreadIsRead
  <2>10. pending' + away' + Sent' + Unread' <= typed' \/ Ended'
    <3>1. pending + away + Sent' + Unread' <= typed \/ Ended
        BY <2>6, <2>8, <2>9, SumWrites
    <3> QED
        BY <1>3, <2>5, <3>1
  <2>11. neighbour' # NoSock => OnLink' <= away'
      BY <1>3, <2>7, <2>8
  <2>12. pending' \in Nat /\ away' \in Nat /\ pending' + away' <= MaxRequests
      BY <1>3, <2>8
  <2>13. server' # "gone" /\ (server' = "serve" => pending' > 0 /\ neighbour' # NoSock)
      BY <1>3, <1>7, <2>8
  <2>14. UNCHANGED <<backlog, client_socket, handshake>>
      BY <1>3
  <2> QED
      BY <1>5, <1>7, <2>1, <2>4, <2>10, <2>11, <2>12, <2>13, <2>14, BusyBooks
<1> QED
    BY <1>6, <1>7

LEMMA CommandsBooks == ASSUME IInv, ClientsOK, Books, NEW c \in Client, Commands(c) PROVE Books'
<1>1. client[c] = "prompt" /\ input[c] # << >> /\ UNCHANGED serverVars
    BY DEF Commands
<1>2. CASE DiesWriting(c)
    BY <1>1, <1>2, ClientStepBooks
<1>3. CASE /\ net' = SendAll(net, {conn[c]}, "request") /\ Head(input[c]) = "request"
           /\ input' = [input EXCEPT ![c] = Tail(@)] /\ UNCHANGED typed
    BY <1>1, <1>3, WritesBooks DEF IsTyped
<1>4. CASE net' = net /\ input' = [input EXCEPT ![c] = Tail(@)] /\ UNCHANGED typed
  <2>1. input \in [Client -> OneLine] /\ Tail(input[c]) = << >>
      BY <1>1, Lines DEF ClientsOK
  <2>2. \A d \in Client : input'[d] = input[d] \/ input'[d] = << >>
      BY <1>4, <2>1
  <2>3. \A d \in Client : IsTyped(d)' => IsTyped(d)
      BY <2>2 DEF IsTyped
  <2> QED
      BY <1>1, <1>4, <2>3, UnreadFalls, CalmStays, TheirBooks DEF Books
<1> QED
    BY <1>2, <1>3, <1>4 DEF Commands

\* The neighbour answers what came over the link.
LEMMA FarAnswersBooks ==
    ASSUME IInv, ClientsOK, Books, NEW s \in HostedBy(net, Far), FarAnswers(s)
    PROVE  Books'
<1>1. Sound(net) /\ SocketsOK /\ RequestsOK
    BY DEF Books
<1>2. /\ s \in net.open /\ s \in Socket /\ net.host[s] = Far
      /\ net.inbox[s] # << >> /\ Head(net.inbox[s]) = "request"
      /\ net' = SendAll(Receive(net, s), {s}, "answer")
    BY <1>1 DEF FarAnswers, HostedBy, Sound, Shape
<1>3. UNCHANGED <<server, backlog, client_socket, handshake, neighbour, pending, away, input, typed>>
    BY DEF FarAnswers, clientVars, serverVars, queueVars
<1>4. PICK Z : Z = {}
    OBVIOUS
<1> DEFINE X == {<<Peer(s), "answer">>}
           R == {<<s, "request">>}
<1>5. Flows(net, net', Z, X) /\ Moves(net, net', R, X)
    BY <1>1, <1>2, <1>4, ReadSendMoves DEF Packet
<1>6. CASE server = "gone"
    BY <1>1, <1>3, <1>5, <1>6, GoneBooks DEF Flows, RequestsOK, SocketsOK
<1>7. CASE server # "gone"
  <2>1. neighbour # NoSock => neighbour \in Socket
      BY <1>1, <1>7, EndsApart
  <2>2. /\ \A t \in Socket : <<t, "request">> \notin X
        /\ <<client_socket, "request">> \notin X
        /\ <<Peer(neighbour), "request">> \notin X
        /\ <<neighbour, "answer">> \notin R
        /\ neighbour # NoSock => (<<neighbour, "answer">> \in X <=> <<Peer(neighbour), "request">> \in R)
      BY <1>2, <2>1, PeerOf
  <2>3. client_socket' = client_socket /\ neighbour' = neighbour /\ \A t \in Z : ~OwnEnd(net, t)
      BY <1>3, <1>4
  <2> HIDE DEF X, R
  <2>4. Sent \in Nat /\ Sent' \in Nat /\ Sent' <= Sent /\ (Ended => Ended')
    <3>1. /\ Sent \in Nat /\ Sent' \in Nat
          /\ Sent' <= Sent + (IF <<client_socket, "request">> \in X THEN 1 ELSE 0)
          /\ Ended => Ended'
        BY <1>5, <1>7, <2>3, LedgerFlows
    <3> QED
        BY <2>2, <3>1
  <2>5. neighbour # NoSock => OnLink \in Nat /\ OnLink' \in Nat /\ OnLink' <= OnLink
    <3>1. neighbour # NoSock /\ neighbour' = neighbour =>
             /\ OnLink \in Nat /\ OnLink' \in Nat
             /\ OnLink' + (IF <<neighbour, "answer">> \in R THEN 1 ELSE 0)
                        + (IF <<Peer(neighbour), "request">> \in R THEN 1 ELSE 0)
                  <= OnLink + (IF <<neighbour, "answer">> \in X THEN 1 ELSE 0)
                            + (IF <<Peer(neighbour), "request">> \in X THEN 1 ELSE 0)
        BY <1>5, <1>7, <2>3, LedgerMoves DEF Flows
    <3> QED
        BY <2>2, <2>3, <3>1
  <2>6. /\ pending \in Nat /\ away \in Nat /\ typed \in Nat /\ pending + away <= MaxRequests
        /\ Unread \in Nat /\ Unread' \in Nat /\ Unread' <= Unread
        /\ (pending + away + Sent + Unread <= typed \/ Ended)
        /\ (neighbour # NoSock => OnLink <= away)
        /\ (server = "serve" => pending > 0 /\ neighbour # NoSock)
      BY <1>3, <1>7, Numbers, UnreadStays
  <2>7. pending' + away' + Sent' + Unread' <= typed' \/ Ended'
    <3>1. pending + away + Sent' + Unread' <= typed \/ Ended
        BY <2>4, <2>6, SumFalls
    <3> QED
        BY <1>3, <2>4, <3>1
  <2>8. neighbour' # NoSock => OnLink' <= away'
      BY <1>3, <2>5, <2>6
  <2>9. pending' \in Nat /\ away' \in Nat /\ pending' + away' <= MaxRequests
      BY <1>3, <2>6
  <2>10. server' # "gone" /\ (server' = "serve" => pending' > 0 /\ neighbour' # NoSock)
      BY <1>3, <1>7, <2>6
  <2>11. ~handshake => pending' = 0 /\ away' = 0 /\ \A t \in Socket : <<t, "request">> \notin X
      BY <1>1, <1>3, <1>7, <2>2 DEF RequestsOK, Ledger
  <2>12. UNCHANGED <<backlog, client_socket, handshake>>
      BY <1>3
  <2> QED
      BY <1>5, <1>7, <2>3, <2>7, <2>8, <2>9, <2>10, <2>11, <2>12, BusyBooks
<1> QED
    BY <1>6, <1>7

LEMMA FarEndsBooks ==
    ASSUME IInv, ClientsOK, Books, NEW s \in HostedBy(net, Far), FarEnds(s)
    PROVE  Books'
<1>1. Sound(net) /\ s \in net.open /\ Server \notin {Far}
    BY Processes DEF Books, HostedBy
<1>2. PICK w : w \in {net, SendAll(net, {s}, "CMSG_LEAVE")} /\ net' = After(w, {Far})
    BY DEF FarEnds
<1>3. UNCHANGED input /\ UNCHANGED typed /\ UNCHANGED serverVars
    BY DEF FarEnds, clientVars
<1>4. Calm(net, w) /\ Sound(w)
    BY <1>1, <1>2, CalmStays, CalmSend, CalmSound DEF Packet
<1>5. Calm(net, net')
    BY <1>1, <1>2, <1>4, CalmAfter, CalmOn
<1> QED
    BY <1>3, <1>5, UnreadStays, TheirBooks

LEMMA SignalBooks ==
    ASSUME IInv, ClientsOK, Books, ClientArgvFails \/ Sigint \/ CtrlC
    PROVE  Books'
<1>1. Calm(net, net) /\ Calm(net, After(net, {Own})) /\ Own \in Client
    BY Processes, CalmStays, CalmAfter DEF Books
<1>2. CASE Sigint
  <2>1. SigintEffect /\ net' = NetAfterSigint(net) /\ UNCHANGED input /\ UNCHANGED typed
      BY <1>2 DEF Sigint, clientVars
  <2> QED
      BY <1>1, <2>1, UnreadStays, SigintBooks
<1>3. CASE ClientArgvFails \/ CtrlC
  <2>1. /\ SigintEffect /\ ClientGone(Own)
        /\ net' = NetAfterSigint(net) \/ net' = NetAfterSigint(After(net, {Own}))
      BY <1>3 DEF ClientArgvFails, CtrlC
  <2>2. Unread' <= Unread /\ typed' = typed
      BY <1>1, <2>1, UnreadGone
  <2> QED
      BY <1>1, <2>1, <2>2, SigintBooks
<1> QED
    BY <1>2, <1>3

-----------------------------------------------------------------------------
(* Types, and what the ledger says, together.                              *)

\* The inductive invariant of TypeOK and RequestsAreCounted.
TInv == IInv /\ ClientsOK /\ ServerOK /\ Books

LEMMA TInvInit == Init => TInv
<1> SUFFICES ASSUME Init
             PROVE  TInv
    OBVIOUS
<1>1. IInv
    BY InitInv
<1>2. ClientsOK
  <2>1. << >> \in OneLine /\ 0 \in 0 .. MaxAttempts /\ 0 < MaxAttempts /\ 0 \in 0 .. MaxRequests
      BY Lines, SessionAssumption
  <2>2. /\ tries = [c \in Client |-> 0] /\ input = [c \in Client |-> << >>] /\ typed = 0
      BY DEF Init
  <2> QED
      BY <2>1, <2>2 DEF ClientsOK
<1>3. ServerOK
    BY DEF Init, ServerOK, ServerAt, Ending
<1>4. Sound(net)
  <2>1. << >> \in Seq(Packet)
      BY EmptySeq
  <2>2. net = [open |-> {}, host |-> [s \in Socket |-> NoNode],
               inbox |-> [s \in Socket |-> << >>], broken |-> {}]
      BY DEF Init, EmptyNet
  <2>3. net \in Wire
    <3>1. /\ {} \in SUBSET Socket /\ [s \in Socket |-> NoNode] \in [Socket -> Node \cup {NoNode}]
          /\ [s \in Socket |-> << >>] \in [Socket -> Seq(Packet)]
        BY <2>1
    <3> QED
        BY <2>2, <3>1 DEF Wire
  <2> QED
      BY <1>1, <2>3 DEF Sound, IInv
<1>5. SocketsOK
  <2>1. DOMAIN << >> = {}
      OBVIOUS
  <2> QED
      BY <2>1 DEF Init, SocketsOK
<1>6. RequestsOK
  <2>1. \A s \in Socket : Waiting(s, "request") = 0
      BY WaitingCounts, CountEmpty DEF Init, EmptyNet
  <2>2. Unread = 0 /\ Sent = 0
    <3>1. \A c \in Client : ~IsTyped(c)
        BY DEF Init, IsTyped
    <3>2. ~IsTyped(Own) /\ ~\E c \in Others : IsTyped(c)
        BY <3>1 DEF Client
    <3>3. client_socket = Stdin
        BY DEF Init
    <3> QED
        BY <3>2, <3>3 DEF Unread, Sent
  <2>3. /\ pending = 0 /\ away = 0 /\ typed = 0 /\ neighbour = NoSock /\ server = "boot"
      BY DEF Init
  <2> QED
      BY <2>1, <2>2, <2>3, SessionAssumption DEF RequestsOK, Ledger
<1> QED
    BY <1>1, <1>2, <1>3, <1>4, <1>5, <1>6 DEF TInv, Books

LEMMA BooksStep == ASSUME IInv, ClientsOK, Books, Next PROVE Books'
<1>1. ASSUME NEW c \in Client, ClientStep(c) \/ ClientEnds(c)
      PROVE  Books'
    BY <1>1, ClientStepBooks, ConnectsBooks, CommandsBooks DEF ClientStep
<1>2. ASSUME NEW c \in Client, NEW line \in Line \ {"other"}, Types(c, line)
      PROVE  Books'
    BY <1>2, TypesBooks
<1>3. CASE Start
    BY <1>3, StartBooks, JoinBooks DEF Start
<1>4. CASE Turn
    BY <1>4, AcceptBooks, ShakeOkBooks, StartBooks, ReadNeighbourBooks, SkipBooks, ReadClientBooks,
       ServeBooks, LeaveBooks DEF Turn
<1>5. CASE ClientArgvFails \/ ServerArgvFails \/ Sigint \/ CtrlC
    BY <1>5, SignalBooks, StartBooks
<1>6. ASSUME NEW s \in HostedBy(net, Far), FarAnswers(s) \/ FarEnds(s)
      PROVE  Books'
    BY <1>6, FarAnswersBooks, FarEndsBooks
<1> QED
    BY <1>1, <1>2, <1>3, <1>4, <1>5, <1>6 DEF Next

LEMMA TInvNext == TInv /\ [Next]_vars => TInv'
<1> SUFFICES ASSUME TInv, [Next]_vars
             PROVE  TInv'
    OBVIOUS
<1>1. IInv /\ ClientsOK /\ ServerOK /\ Books
    BY DEF TInv
<1>2. IInv'
    BY <1>1, NextInv
<1>3. CASE Next
    BY <1>1, <1>2, <1>3, ClientsOKStep, ServerOKStep, BooksStep DEF TInv
<1>4. CASE UNCHANGED vars
  <2>1. UNCHANGED <<client, tries, input, typed>> /\ UNCHANGED <<server, handshake, _loop, reads, ending>>
        /\ net' = net /\ UNCHANGED serverVars
      BY <1>4 DEF vars, clientVars, serverVars
  <2>2. Books'
      BY <1>1, <2>1, CalmStays, UnreadStays, TheirBooks DEF Books
  <2> QED
      BY <1>1, <1>2, <2>1, <2>2, ClientsStay, ServerStays DEF TInv
<1> QED
    BY <1>3, <1>4

\* Types and ledger hold, for any other local processes, connections and requests: every step
\* of handle_client, handle_pending_requests and of the neighbour moves a request from one
\* place to the next, or takes it away.
THEOREM TInvHolds == Spec => []TInv
<1>1. Init => TInv
    BY TInvInit
<1>2. TInv /\ [Next]_vars => TInv'
    BY TInvNext
<1> QED
    BY <1>1, <1>2, PTL DEF Spec

\* Every variable keeps its type: what the server has in backlog, client_socket and neighbour
\* are sockets it has open, and the numbers of requests it has read (pending_requests of
\* server_t) and sent to its neighbour stay within their bounds, never below 0.
THEOREM SessionTypesHold == Spec => []TypeOK
<1>1. TInv => TypeOK
  <2> SUFFICES ASSUME TInv
               PROVE  TypeOK
      OBVIOUS
  <2>1. net \in Wire /\ SocketsOK /\ RequestsOK /\ ClientsOK /\ ServerOK /\ IInv
      BY DEF TInv, Books, Sound
  <2>2. /\ client \in [Client -> ClientAt] /\ conn \in [Client -> Socket \cup {NoSock}]
        /\ client_socket \in Socket \cup {Stdin} /\ neighbour \in Socket \cup {NoSock}
        /\ server # "gone" /\ neighbour # NoSock => neighbour \in HostedBy(net, Server)
      BY <2>1 DEF IInv, SessionInv, ServerSockets, NeighbourInv, NeighbourIsFar
  <2>3. input \in [Client -> Seq(Line)]
      BY <2>1, Lines DEF ClientsOK
  <2>4. \A k \in DOMAIN backlog : backlog[k] \in HostedBy(net, Server)
    <3>1. DOMAIN << >> = {}
        OBVIOUS
    <3> QED
        BY <2>1, <3>1 DEF SocketsOK, OwnEnd
  <2>5. server # "gone" => {client_socket, neighbour} \subseteq HostedBy(net, Server) \cup {NoSock}
      BY <2>1, <2>2 DEF SocketsOK, OwnEnd, Stdin
  <2>6. pending \in 0 .. 2 * MaxRequests /\ away \in 0 .. 2 * MaxRequests
      BY <2>1, SessionAssumption DEF RequestsOK
  <2> QED
      BY <2>1, <2>2, <2>3, <2>4, <2>5, <2>6 DEF TypeOK, ClientsOK, ServerOK, Wire
<1> QED
    BY <1>1, TInvHolds, PTL

\* What comes back from the neighbour was sent there by handle_pending_requests and is still
\* expected, and handle_client gives the server no request that no user typed, as long as the
\* client has not closed: then the opcode that read_from_fd did not write may look like one.
THEOREM RequestsStayCounted == Spec => []RequestsAreCounted
<1>1. TInv => RequestsAreCounted
    BY DEF TInv, Books, RequestsOK, Ledger, RequestsAreCounted, OnLink, Sent, Ended
<1> QED
    BY <1>1, TInvHolds, PTL
=============================================================================
