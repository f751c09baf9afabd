------------------------------- MODULE Network -------------------------------
(***************************************************************************)
(* The TCP connections between the servents, as far as the servents can    *)
(* tell them apart.  The protocol stack is not part of the repository:     *)
(* these operators state what src/networking.c, src/util.c and the callers *)
(* of write(), read(), poll() and close() rely on.                         *)
(*                                                                         *)
(* A connection has two ends, the "caller" (the side that ran connect())   *)
(* and the "callee" (the side that accept()s it).  A network is a record   *)
(*   open    the ends that their process has not closed yet;               *)
(*   host    the machine at each end, kept until both ends are closed;     *)
(*   inbox   the packets that have arrived at an end and are still unread; *)
(*   broken  the open ends that have received a reset: their peer closed   *)
(*           with unread data, or they wrote after their peer had closed.  *)
(* Packets are delivered as soon as they are written; that a packet may be *)
(* late is left to the reader, which need not look at its inbox.           *)
(***************************************************************************)
EXTENDS Integers, Sequences, FiniteSets

CONSTANTS Node,     \* the machines
          NoNode,   \* a value that is not a machine
          MaxConn   \* bound: connections that can exist at the same time

ASSUME NoNodeAssumption == NoNode \notin Node
ASSUME MaxConnAssumption == MaxConn \in Nat \ {0}

Conn == 1 .. MaxConn
Side == {"caller", "callee"}
Socket == Conn \X Side
NoSock == <<0, "none">>                    \* the -1 of a socket variable

Caller(c) == <<c, "caller">>
Callee(c) == <<c, "callee">>
Peer(s) == IF s[2] = "caller" THEN Callee(s[1]) ELSE Caller(s[1])

\* All networks whose packets are members of M: there is a machine at both ends
\* of a connection that has not been closed on both.
Net(M) == {net \in [open : SUBSET Socket,
                    host : [Socket -> Node \cup {NoNode}],
                    inbox : [Socket -> Seq(M)],
                    broken : SUBSET Socket] :
              \A s \in net.open : net.host[s] \in Node /\ net.host[Peer(s)] \in Node}

EmptyNet == [open |-> {},
             host |-> [s \in Socket |-> NoNode],
             inbox |-> [s \in Socket |-> << >>],
             broken |-> {}]

IsFree(net, c) == Caller(c) \notin net.open /\ Callee(c) \notin net.open

\* c is the connection the next successful connect() gets.  Identities are
\* used again once both ends are closed.
NextConn(net, c) == IsFree(net, c) /\ \A d \in Conn : d < c => ~IsFree(net, d)

HostedBy(net, n) == {s \in net.open : net.host[s] = n}

\* poll() reports the end readable and read() returns 0 or -1: nothing is left
\* to read and nothing will ever arrive.
AtEof(net, s) == net.inbox[s] = << >> /\ Peer(s) \notin net.open

\* connect() from one machine to another followed by the first write().
Dial(net, c, from, to, msg) ==
    [open |-> net.open \cup {Caller(c), Callee(c)},
     host |-> [net.host EXCEPT ![Caller(c)] = from, ![Callee(c)] = to],
     inbox |-> [net.inbox EXCEPT ![Callee(c)] = <<msg>>],
     broken |-> net.broken]

\* read() of the whole packet at the head of the inbox of s.
Receive(net, s) ==
    [open |-> net.open,
     host |-> net.host,
     inbox |-> [net.inbox EXCEPT ![s] = Tail(@)],
     broken |-> net.broken]

\* One write() of msg on every socket of S.  A write whose peer has closed is
\* answered with a reset.
SendAll(net, S, msg) ==
    [open |-> net.open,
     host |-> net.host,
     inbox |-> [t \in Socket |-> IF t \in net.open /\ Peer(t) \in S
                                THEN Append(net.inbox[t], msg) ELSE net.inbox[t]],
     broken |-> net.broken \cup {s \in S : Peer(s) \notin net.open}]

\* close() of every socket of S.  Closing with unread data resets the peer.
CloseAll(net, S) ==
    LET remaining == net.open \ S
    IN  [open |-> remaining,
         host |-> [t \in Socket |-> IF {t, Peer(t)} \cap remaining = {}
                                    THEN NoNode ELSE net.host[t]],
         inbox |-> [t \in Socket |-> IF t \in S THEN << >> ELSE net.inbox[t]],
         broken |-> (net.broken \ S)
                      \cup {t \in remaining : /\ Peer(t) \in S
                                              /\ net.inbox[Peer(t)] # << >>}]
=============================================================================
