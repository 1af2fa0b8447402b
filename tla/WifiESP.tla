------------------------------- MODULE WifiESP -------------------------------
(***************************************************************************)
(* WifiESP32.cpp: the connections of an ESP32.  slots is the vector of     *)
(* NetworkClients, whose index is the id of the client; a slot keeps its   *)
(* connection when that ends, until another one recycles it.               *)
(***************************************************************************)
EXTENDS CommandDistributor

NewESP(len) ==
    NewStation(len) @@
    [conn |-> NewConnections, slots |-> <<>>, up |-> TRUE]

\* The slot that a connection gets: the first that has none, or a new one.
recycle(x, k) ==
    LET free == {i \in DOMAIN x.slots : ~x.slots[i].inUse}
        nc == [wifi |-> k, inUse |-> TRUE]
        y == [x EXCEPT !.conn[k].state = IF @ = "waiting" THEN "open" ELSE @]
    IN  IF free = {} THEN [y EXCEPT !.slots = Append(@, nc)] ELSE [y EXCEPT !.slots[Min(free)] = nc]

acceptAll(x) ==
    FoldLeft(recycle, x, SetToSortSeq({k \in Connections : x.conn[k].state = "waiting"}, <))

\* active() notices that a client has gone.
active(x, i) ==
    x.slots[i].inUse /\ (x.conn[x.slots[i].wifi].state = "open" \/ x.conn[x.slots[i].wifi].inbox # <<>>)

remove(x, i) ==
    IF x.slots[i].inUse /\ ~active(x, i) THEN forget([x EXCEPT !.slots[i].inUse = FALSE], i - 1) ELSE x

readClient(x, i) ==
    LET k == x.slots[i].wifi
        y == remove(x, i)
    IN  IF active(x, i) /\ x.conn[k].inbox # <<>>
        THEN Hear([y EXCEPT !.conn[k].inbox = <<>>], i - 1, x.conn[k].inbox)
        ELSE y

\* The read stops at a byte that is zero.
UpToZero(r, n) ==
    LET t == readText(r, n).text
        zeros == {i \in 1..n : t[i] = 0}
    IN  IF zeros = {} THEN n ELSE Min(zeros)

outboundESP(x) ==
    LET h == Header(x.out.ring)
        y == Received([x EXCEPT !.out.ring = h.ring], h.client, UpToZero(h.ring, h.n))
    IN  IF Empty(x.out.ring) THEN x
        ELSE IF Client(h.client) + 1 \in DOMAIN x.slots THEN remove(y, Client(h.client) + 1)
        ELSE y

\* Without a connection to the access point the Wifi is started again.
loopESP(x) ==
    LET y == acceptAll(x)
    IN  IF ~x.up THEN x
        ELSE outboundESP(WiThrottle_loop(FoldLeft(readClient, y, [i \in DOMAIN y.slots |-> i])))
=============================================================================
