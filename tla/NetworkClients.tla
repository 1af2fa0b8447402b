---------------------------- MODULE NetworkClients ----------------------------
(***************************************************************************)
(* The clients of a station: its serial line and one network front end, an *)
(* AT Wifi module, an Ethernet interface or the Wifi of an ESP32, over the *)
(* CommandDistributor and its ring.  A session says which front end, what  *)
(* every connection sends, who closes it, and how often the network fails. *)
(*                                                                         *)
(* x is the station with its connections, and e the world around it: wire  *)
(* is the bytes of the AT module on their way, keys those of the serial    *)
(* line, todo the packets that each connection has still to send, left how *)
(* often each event of the session may still happen.                       *)
(***************************************************************************)
EXTENDS WifiInboundHandler, EthernetInterface, WifiESP, SerialManager

CONSTANT
    Sessions

VARIABLES x, e, session, beat

vars == <<x, e, session, beat>>

S == session
AT == S.front = "at"

NewFront(s) ==
    CASE s.front = "at" -> NewHandler(s.len, s.inbound) @@ [conn |-> NewConnections]
      [] s.front \in {"ethernet", "stm32"} -> NewEthernet(s.len)
      [] s.front = "esp32" -> NewESP(s.len)

Init ==
    /\ session \in Range(Sessions)
    /\ x = NewFront(S) @@ NewLine
    /\ e = [wire |-> <<>>, keys |-> <<>>, todo |-> S.packets, lines |-> S.lines, left |-> S.left]
    /\ beat = FALSE

Spend(event) == e.left[event] > 0 /\ e' = [e EXCEPT !.left[event] = @ - 1]

-----------------------------------------------------------------------------
\* The clients.  The link of the AT module to a connection is its number less 1;
\* the module says nothing else between its prompt and the end of what it sends.

Talks == AT => x.modem \in Clients \cup {-1}

\* The stack of an ESP32 has no more connections than there are ids.
MayConnect ==
    S.front = "esp32" =>
        LET held == {x.slots[i].wifi : i \in {j \in DOMAIN x.slots : x.slots[j].inUse}}
        IN  Cardinality(held \cup {k \in Connections : x.conn[k].state = "waiting"}) < Cardinality(Clients)

Connect(k) ==
    /\ k \in DOMAIN S.packets /\ x.conn[k].state = "none" /\ Talks /\ MayConnect
    /\ x' = [x EXCEPT !.conn[k].state = IF AT THEN "open" ELSE "waiting"]
    /\ e' = IF AT THEN [e EXCEPT !.wire = @ \o Closed(k - 1)] ELSE e
    /\ UNCHANGED <<session, beat>>

\* What the handler makes of a packet: of a long one only the key.
Gist(p) ==
    IF Len(p) <= PrescanOver THEN p
    ELSE LET i == CHOOSE i \in DOMAIN p : SubSeq(p, i, i + 1) = KeyName
             j == CHOOSE j \in DOMAIN p : p[j] = LF
         IN  SubSeq(p, i, j)

\* A websocket client waits for the answer to its upgrade and sends one frame at
\* a time.
MaySend(k) ==
    LET p == Head(e.todo[k])
    IN  /\ x.conn[k].state \in {"waiting", "open"}
        /\ Speaks(p) = {"WEBSOCKET"} =>
               /\ x.conn[k].inbox = <<>>
               /\ x.out.due = <<>>
               /\ \E c \in Clients : x.clients[c] \in {"WEBSOCK_CONNECTING", "WEBSOCKET"}

SendPacket(k) ==
    /\ k \in DOMAIN S.packets /\ e.todo[k] # <<>> /\ Talks /\ MaySend(k)
    /\ LET p == Head(e.todo[k])
           said == [e EXCEPT !.todo[k] = Tail(@)]
       IN  IF AT THEN /\ e' = [said EXCEPT !.wire = @ \o IPD(k - 1, p)]
                      /\ x' = [x EXCEPT !.sent[k - 1] = Append(@, Gist(p))]
           ELSE /\ e' = said
                /\ x' = [x EXCEPT !.conn[k].inbox = @ \o p]
    /\ UNCHANGED <<session, beat>>

Close(k) ==
    /\ k \in S.closes /\ x.conn[k].state = "open" /\ Talks
    /\ x' = [x EXCEPT !.conn[k].state = "closed"]
    /\ e' = IF AT THEN [e EXCEPT !.wire = @ \o Closed(k - 1)] ELSE e
    /\ UNCHANGED <<session, beat>>

\* A command is typed on the serial line.
Type ==
    /\ e.lines # <<>>
    /\ e' = [e EXCEPT !.lines = Tail(@), !.keys = @ \o Head(e.lines)]
    /\ x' = [x EXCEPT !.typed = Append(@, Tail(Head(e.lines)))]
    /\ UNCHANGED <<session, beat>>

-----------------------------------------------------------------------------
\* The AT module answers a CIPSEND with the prompt, or that it is busy, or with
\* an error; after the data it says that it has sent them.

Says(line, next) == e' = [e EXCEPT !.wire = @ \o line] /\ x' = [x EXCEPT !.modem = next]

ModemReady ==
    /\ AT /\ x.modem \in Clients /\ x.conn[x.modem + 1].state = "open"
    /\ Says(<<62>>, -3)
    /\ UNCHANGED <<session, beat>>

ModemBusy ==
    /\ AT /\ x.modem \in Clients /\ e.left.busy > 0
    /\ e' = [e EXCEPT !.wire = @ \o <<98, LF>>, !.left.busy = @ - 1]
    /\ x' = [x EXCEPT !.modem = -1]
    /\ UNCHANGED <<session, beat>>

ModemError ==
    /\ AT /\ x.modem \in Clients /\ x.conn[x.modem + 1].state = "closed"
    /\ Says(<<69, LF>>, -1)
    /\ UNCHANGED <<session, beat>>

ModemSent ==
    /\ AT /\ x.modem = -2
    /\ Says(<<LF, 82, LF, 83, LF>>, -1)
    /\ UNCHANGED <<session, beat>>

ModemAnswer == ModemReady \/ ModemError \/ ModemSent

-----------------------------------------------------------------------------
\* The network.

LinkOff ==
    /\ S.front \in {"ethernet", "stm32"} /\ x.link /\ Spend("link")
    /\ x' = [x EXCEPT !.link = FALSE]
    /\ UNCHANGED <<session, beat>>

LinkOn ==
    /\ S.front \in {"ethernet", "stm32"} /\ ~x.link
    /\ x' = [x EXCEPT !.link = TRUE]
    /\ UNCHANGED <<e, session, beat>>

LeaseLost ==
    /\ S.front \in {"ethernet", "stm32"} /\ Spend("lease")
    /\ x' = [x EXCEPT !.lease = FALSE]
    /\ UNCHANGED <<session, beat>>

WifiDown ==
    /\ S.front = "esp32" /\ x.up /\ Spend("link")
    /\ x' = [x EXCEPT !.up = FALSE]
    /\ UNCHANGED <<session, beat>>

WifiUp ==
    /\ S.front = "esp32" /\ ~x.up
    /\ x' = [x EXCEPT !.up = TRUE]
    /\ UNCHANGED <<e, session, beat>>

-----------------------------------------------------------------------------
\* The station.

\* What changes on the layout is told to everybody.
Broadcast ==
    /\ Spend("broadcast")
    /\ LET t == Text(BroadcastByte, 1)
       IN  x' \in {broadcastSensor(x, t), broadcastTurnout(x, t), broadcastMessage(x, t),
                   broadcastLoco(x, t), setClockTime(x, 1, t)}
    /\ UNCHANGED <<session, beat>>

ScreenLine ==
    /\ Spend("screen")
    /\ x' = virtualLCD(x, Text(BroadcastByte, 1))
    /\ UNCHANGED <<session, beat>>

Callback ==
    /\ x.stash.busy
    /\ x' = asyncReply(x, Text(ReplyByte, 1))
    /\ UNCHANGED <<e, session, beat>>

\* The gap after a busy module is over.
Time ==
    /\ AT /\ x.at.gap
    /\ x' = [x EXCEPT !.at.gap = FALSE]
    /\ UNCHANGED <<e, session, beat>>

loopFront(y, bytes) ==
    CASE AT -> loop1(y, bytes)
      [] S.front = "ethernet" -> loopEthernet(y, FALSE)
      [] S.front = "stm32" -> loopEthernet(y, TRUE)
      [] S.front = "esp32" -> loopESP(y)

\* All of the wire, or a part whose length the session bounds.
Arrived == {Len(e.wire)} \cup {k \in S.chunks : k < Len(e.wire)}

\* One pass of the main loop, which finds what has arrived of the wire.
Loop ==
    /\ \E k \in Arrived :
          LET s == loopLine(x, e.keys)
          IN  /\ x' = loopFront(s.x, SubSeq(e.wire, 1, k))
              /\ e' = [e EXCEPT !.keys = s.rest, !.wire = SubSeq(@, k + 1, Len(@))]
    /\ beat' = ~beat
    /\ UNCHANGED session

Next ==
    \/ \E k \in Connections : Connect(k) \/ SendPacket(k) \/ Close(k)
    \/ Type
    \/ ModemReady \/ ModemBusy \/ ModemError \/ ModemSent
    \/ LinkOff \/ LinkOn \/ LeaseLost \/ WifiDown \/ WifiUp
    \/ Broadcast \/ ScreenLine \/ Callback \/ Time
    \/ Loop

\* The main loop, which alone changes beat, runs; the module answers what it is asked; time passes.
Fairness ==
    /\ WF_beat(beat' = ~beat)
    /\ WF_vars(ModemAnswer)
    /\ WF_vars(Time)

Spec == Init /\ [][Next]_vars /\ Fairness

-----------------------------------------------------------------------------
\* A message in the ring: the id, the count of what is read, what is stored.
Encoded(m) == <<m.client, Len(m.text) \div 256, Len(m.text) % 256>> \o m.raw

\* Between two steps of the station the outbound ring holds exactly the messages
\* that were committed and not read, whole and in order, each with the id of the
\* client it is for; when the header of the first was taken for a CIPSEND, its
\* text is still there.  Replies, broadcasts that interrupt a reply, lines of the
\* display and late answers of the programming track all write to it.
RingHoldsDue ==
    LET all == FlattenSeq([i \in DOMAIN x.out.due |-> Encoded(x.out.due[i])])
        taken == AT /\ x.at.clientPendingCIPSEND >= 0
    IN  Contents(x.out.ring) = IF taken THEN SubSeq(all, 4, Len(all)) ELSE all

\* What a front end takes out of the ring to send is the next message due, for
\* the client it was made for, with every string of the flash in its place,
\* however often a CIPSEND was repeated or purged.
Delivered == x.wrong = {}

\* A command that reaches a parser is one that its client sent, whole, after the
\* ones already obeyed, and the parser is that of the protocol the client speaks:
\* on sockets and slots that are used again, for upgrades and frames, with bytes
\* of the AT module in between, and for strings on the serial line.
Attributed == x.strange = {}

Reachable == CASE AT -> TRUE [] S.front = "esp32" -> x.up [] OTHER -> x.connected /\ x.link /\ x.lease

Heard ==
    CASE AT -> Empty(x.inbound) /\ e.wire = <<>>
      [] S.front = "esp32" -> \A i \in DOMAIN x.slots : x.slots[i].inUse => x.conn[x.slots[i].wifi].inbox = <<>>
      [] OTHER -> Ready(x) = {}

\* What was read is obeyed, and what is due is sent: no CIPSEND is left waiting
\* after a busy module, an error or a client that has closed, and the ring is
\* emptied, as long as the network can be reached.
Drained == <>[](Reachable => Heard /\ x.out.due = <<>>)
=============================================================================
