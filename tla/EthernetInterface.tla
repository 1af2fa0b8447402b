-------------------------- MODULE EthernetInterface --------------------------
(***************************************************************************)
(* EthernetInterface.cpp.  conn is the connections of the clients and the  *)
(* bytes of each that wait to be read, socket the connection that every    *)
(* socket in use has (0: inUse is false).  The link may go off and come    *)
(* back; a lease that is not renewed stops the interface for good.         *)
(***************************************************************************)
EXTENDS CommandDistributor

NewEthernet(len) ==
    NewStation(len) @@
    [conn |-> NewConnections, socket |-> [c \in Clients |-> 0], connected |-> TRUE, link |-> TRUE, lease |-> TRUE]

FreeSockets(x) == {c \in Clients : x.socket[c] = 0}

Accept(x, k) ==
    [x EXCEPT !.socket[Min(FreeSockets(x))] = k, !.conn[k].state = IF @ = "waiting" THEN "open" ELSE @]

\* The STM32 version: the server offers a connection that has sent something,
\* an old one too.
acceptAvailable(x) ==
    LET ks == {k \in Connections : x.conn[k].state \in {"waiting", "open"} /\ x.conn[k].inbox # <<>>}
        k == Min(ks)
    IN  IF ks = {} \/ (\E c \in Clients : x.socket[c] = k) THEN x
        ELSE IF FreeSockets(x) # {} THEN Accept(x, k)
        ELSE [x EXCEPT !.conn[k] = [state |-> "closed", inbox |-> <<>>]]

\* The other version: the chip accepts a connection on a socket of its own.
acceptClient(x) ==
    LET ks == {k \in Connections : x.conn[k].state = "waiting"}
    IN  IF ks = {} \/ FreeSockets(x) = {} THEN x ELSE Accept(x, Min(ks))

\* Mutant: the type of the client that has gone is kept.
dropClient_Remembered(x, c) == [x EXCEPT !.socket[c] = 0]

dropClient(x, c) == forget([x EXCEPT !.socket[c] = 0], c)

\* A connection counts as connected until what it sent has been read.
Gone(x, c) ==
    x.socket[c] # 0 /\ x.conn[x.socket[c]].state = "closed" /\ x.conn[x.socket[c]].inbox = <<>>

dropGone(x) == FoldLeft(dropClient, x, SetToSeq({c \in Clients : Gone(x, c)}))

Ready(x) == {c \in Clients : x.socket[c] # 0 /\ x.conn[x.socket[c]].inbox # <<>>}

readSocket(x, c) ==
    LET k == x.socket[c]
    IN  Hear([x EXCEPT !.conn[k].inbox = <<>>], c, x.conn[k].inbox)

\* At most one transmission.
outboundSocket(x) ==
    LET h == Header(x.out.ring)
    IN  IF Empty(x.out.ring) THEN x
        ELSE IF h.client \notin Clients THEN [x EXCEPT !.out.ring = read(@).ring, !.connected = FALSE]
        ELSE Received([x EXCEPT !.out.ring = h.ring], h.client, h.n)

\* stm32 tells which of the two versions of acceptClient is compiled.
loopEthernet(x, stm32) ==
    LET y == dropGone(IF stm32 THEN acceptAvailable(x) ELSE acceptClient(x))
    IN  IF ~x.connected \/ ~x.link THEN x
        ELSE IF ~x.lease THEN [x EXCEPT !.connected = FALSE]
        ELSE IF Ready(y) # {} THEN readSocket(y, Min(Ready(y)))
        ELSE outboundSocket(WiThrottle_loop(y))
=============================================================================
