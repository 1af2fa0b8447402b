-------------------------- MODULE CommandDistributor --------------------------
(***************************************************************************)
(* CommandDistributor.cpp, Websockets.cpp and the asynchronous replies of  *)
(* DCCEXParser.cpp: what a client sends is given to the parser its first   *)
(* words call for, and every answer and broadcast goes through one ring.   *)
(* The station is a record; methods are operators from stations to         *)
(* stations.                                                               *)
(*                                                                         *)
(* The ring and what it ought to hold travel together in `out`: due is the *)
(* messages committed and not yet read, text and raw the output (as read   *)
(* and as stored) since the mark, open says that a mark awaits its commit. *)
(* wrong is the messages read that were not the one due, with the one due; *)
(* strange the packets that reached a parser of another protocol.          *)
(***************************************************************************)
EXTENDS RingStream, Bitwise

CONSTANTS
    Clients,        \* ids of network clients, 0 to MAX_NUM_TCP_CLIENTS - 1
    Connections,    \* the connections they make: 1..n, in the order of their arrival
    Commands        \* the commands: a function from a byte to its kind and
                    \* the number of bytes of its reply

ASSUME DistributorAssumption ==
    /\ Clients \subseteq 0..9
    /\ \A b \in DOMAIN Commands : b \in 1..31 /\ Commands[b].n \in Nat

WEBSOCK_CLIENT_MARKER == 128
Client(id) == id % WEBSOCK_CLIENT_MARKER
ReplyByte == 1
BroadcastByte == 2
Text(b, n) == [i \in 1..n |-> b]
ClientType == {"NONE", "COMMAND", "WITHROTTLE", "WEBSOCK_CONNECTING", "WEBSOCKET"}
NoMessage == [client |-> NO_CLIENT, text |-> <<>>]

\* A connection is none, waiting to be accepted, open or closed; its inbox is
\* the bytes that wait to be read.
NewConnections == [k \in Connections |-> [state |-> "none", inbox |-> <<>>]]

\* marked: locos that throttles hold were marked for broadcast.
NewStation(len) ==
    [out |-> [ring |-> NewRing(len), due |-> <<>>, text |-> <<>>, raw |-> <<>>, open |-> FALSE],
     clients |-> [c \in Clients |-> "NONE"], stash |-> [busy |-> FALSE, target |-> 0, ring |-> FALSE],
     virtualLCDClient |-> NO_CLIENT, lastclocktime |-> 0, marked |-> FALSE, wrong |-> {}, strange |-> {}]

-----------------------------------------------------------------------------
\* The ring's operations, with what they ought to do.

Mark(o, c) ==
    [o EXCEPT !.ring = mark(@, c), !.text = <<>>, !.raw = <<>>, !.open = TRUE]

Put(o, t) ==
    [o EXCEPT !.ring = print(@, t), !.text = @ \o t, !.raw = @ \o t]

PutFlash(o, a) ==
    [o EXCEPT !.ring = printFlash(@, a), !.text = @ \o FlashAt[a],
              !.raw = @ \o <<FLASH_INSERT_MARKER, a, 0>>]

Commit(o) ==
    [o EXCEPT !.ring = commit(@), !.text = <<>>, !.raw = <<>>, !.open = FALSE,
              !.due = IF o.open /\ Commits(o.ring)
                      THEN Append(@, [client |-> o.ring.client, text |-> o.text, raw |-> o.raw])
                      ELSE @]

Message(o, c, t) == Commit(Put(Mark(o, c), t))

\* A reader takes the text of a message whose header it has taken.
Received(x, client, n) ==
    LET r == readText(x.out.ring, n)
        got == [client |-> client, text |-> r.text]
        expected == IF x.out.due = <<>> THEN NoMessage
                    ELSE [client |-> Head(x.out.due).client, text |-> Head(x.out.due).text]
    IN  [x EXCEPT !.out.ring = r.ring, !.out.due = IF @ = <<>> THEN @ ELSE Tail(@),
                  !.wrong = IF got = expected THEN @ ELSE @ \cup {<<got, expected>>}]

\* The header of a message and the ring after it.
Header(r) ==
    LET id == read(r)
        n == count(id.ring)
    IN  [client |-> id.byte, n |-> n.n, ring |-> n.ring]

-----------------------------------------------------------------------------
\* Broadcasts.  Clients are visited in the order of their ids.

Address(c, type) == IF type = "WEBSOCKET" THEN c + WEBSOCK_CLIENT_MARKER ELSE c

sendTo(o, addresses, t) == FoldLeft(LAMBDA y, a : Message(y, a, t), o, addresses)

Reinstate(o, client) == IF client = NO_CLIENT THEN o ELSE Mark(o, client)

\* Mutant: the output of the client being answered is not completed first.
merge_NoPrecommit(o, addresses, t) == Reinstate(sendTo(o, addresses, t), o.ring.client)

\* Completes the output of the client being answered, sends, and reinstates it.
merge(o, addresses, t) ==
    Reinstate(sendTo(IF o.ring.client = NO_CLIENT THEN o ELSE Commit(o), addresses, t), o.ring.client)

broadcastToClients(x, type, t) ==
    LET ids == SetToSortSeq({c \in Clients : x.clients[c] = type}, <)
    IN  [x EXCEPT !.out = merge(@, [i \in DOMAIN ids |-> Address(ids[i], type)], t)]

\* broadcastReply to each of some types; what is sent to commands goes to websockets too.
broadcastReply(x, types, t) == FoldLeft(LAMBDA y, type : broadcastToClients(y, type, t), x, types)

Commanders == <<"COMMAND", "WEBSOCKET">>
Everyone == Append(Commanders, "WITHROTTLE")

broadcastSensor(x, t) == broadcastReply(x, Commanders, t)

broadcastTurnout(x, t) == broadcastReply(x, Everyone, t)

broadcastMessage(x, t) == broadcastReply(x, Everyone, t)

broadcastClockTime(x, t) == broadcastReply(x, Everyone, t)

setClockTime(x, clocktime, t) ==
    IF clocktime = x.lastclocktime THEN x
    ELSE [broadcastClockTime(x, t) EXCEPT !.lastclocktime = clocktime]

broadcastLoco(x, t) == [broadcastReply(x, Commanders, t) EXCEPT !.marked = TRUE]

\* WiThrottle::loop: a throttle whose locos were marked is told of them.
WiThrottle_loop(x) ==
    LET ids == SetToSortSeq({c \in Clients : x.clients[c] = "WITHROTTLE"}, <)
    IN  IF x.marked THEN [x EXCEPT !.marked = FALSE, !.out = sendTo(@, ids, Text(BroadcastByte, 1))]
        ELSE x

\* getVirtualLCDSerial to commitVirtualLCDSerial: a line of the display.
virtualLCD(x, t) ==
    IF x.virtualLCDClient = NO_CLIENT THEN x
    ELSE [x EXCEPT !.out = merge(@, <<x.virtualLCDClient>>, t)]

setVirtualLCDSerial(x, ring) ==
    [x EXCEPT !.virtualLCDClient = IF ring THEN x.out.ring.client ELSE NO_CLIENT]

-----------------------------------------------------------------------------
\* Replies that come later.  target is the client whose output is open.

stashCallback(x, ring) ==
    [x EXCEPT !.stash = [busy |-> TRUE, ring |-> ring,
                         target |-> IF ring THEN x.out.ring.client ELSE x.stash.target]]

\* getAsyncReplyStream to commitAsyncReplyStream; on a serial line there is no
\* ring, and what is printed is not modelled.
asyncReply(x, t) ==
    [x EXCEPT !.stash.busy = FALSE,
              !.out = IF x.stash.ring THEN Message(@, x.stash.target, t) ELSE @]

Say(x, ring, t) == IF ring THEN [x EXCEPT !.out = Put(@, t)] ELSE x

SayFlash(x, ring) ==
    IF ring THEN [x EXCEPT !.out = PutFlash(@, CHOOSE a \in DOMAIN FlashAt : TRUE)] ELSE x

\* DCCEXParser::parse of one command; ring says that it came by the ring.  While
\* a reply is awaited a second command that needs one is refused.
Obey(x, ring, b) ==
    LET t == Text(ReplyByte, Commands[b].n)
        u == Text(BroadcastByte, Commands[b].n)
    IN  CASE Commands[b].kind = "reply"  -> Say(x, ring, t)
          [] Commands[b].kind = "flash"  -> SayFlash(Say(x, ring, t), ring)
          [] Commands[b].kind = "change" -> Say(broadcastTurnout(Say(x, ring, t), u), ring, t)
          [] Commands[b].kind = "drive"  -> broadcastLoco(x, u)
          [] Commands[b].kind = "later"  -> IF x.stash.busy THEN Say(x, ring, t) ELSE stashCallback(x, ring)
          [] Commands[b].kind = "screen" -> setVirtualLCDSerial(x, ring)

Codes(buffer) == SelectSeq(buffer, LAMBDA b : b \in DOMAIN Commands)

ObeyAll(x, ring, buffer) == FoldLeft(LAMBDA y, b : Obey(y, ring, b), x, Codes(buffer))

-----------------------------------------------------------------------------
\* Websockets.  The long name of the key is two letters here, and its value one.

KeyName == <<83, 107>>
CR == 13
LF == 10

checkConnectionString(buffer) ==
    \E i \in 1 .. Len(buffer) - 1 :
        /\ SubSeq(buffer, i, i + 1) = KeyName
        /\ \E j \in i + 2 .. Len(buffer) : buffer[j] = CR

\* A frame is an opcode, a mask and the masked payload; nothing if unmask has
\* answered it itself.
unmask(buffer) == [i \in 1 .. Len(buffer) - 2 |-> buffer[i + 2] ^^ buffer[2]]

\* A ping is sent back as a pong, a close as a close; other opcodes are dropped.
Echo(buffer) ==
    CASE buffer[1] = 137 -> [buffer EXCEPT ![1] = 138]
      [] buffer[1] = 136 -> <<136, 0>>
      [] OTHER -> <<>>

-----------------------------------------------------------------------------
\* The type of a client that speaks.
TypeOf(x, c, buffer) ==
    CASE x.clients[c] = "NONE" -> IF Head(buffer) = 60 THEN "COMMAND" ELSE "WITHROTTLE"
      [] x.clients[c] = "WEBSOCK_CONNECTING" -> "WEBSOCKET"
      [] OTHER -> x.clients[c]

CommitOpen(x) == IF x.out.ring.client # NO_CLIENT THEN [x EXCEPT !.out = Commit(@)] ELSE x

Answer(x, address, buffer) == CommitOpen(ObeyAll([x EXCEPT !.out = Mark(@, address)], TRUE, buffer))

\* The parser of the type hears the packet; a frame without text is answered here.
ParseAs(x, c, type, buffer) ==
    IF type = "WEBSOCKET" /\ buffer[1] # 129
    THEN IF Echo(buffer) # <<>> THEN [x EXCEPT !.out = Message(@, c, Echo(buffer))] ELSE x
    ELSE Answer(x, Address(c, type), IF type = "WEBSOCKET" THEN unmask(buffer) ELSE buffer)

parse(x, c, buffer) ==
    IF c \notin Clients THEN x
    ELSE IF x.clients[c] = "NONE" /\ checkConnectionString(buffer)
    THEN [x EXCEPT !.clients[c] = "WEBSOCK_CONNECTING", !.out = Message(@, c, <<ReplyByte>>)]
    ELSE ParseAs([x EXCEPT !.clients[c] = TypeOf(x, c, buffer)], c, TypeOf(x, c, buffer), buffer)

\* Every packet shows by its first byte which type of client sent it.
Speaks(buffer) ==
    CASE Head(buffer) = 60 -> {"COMMAND"}
      [] Head(buffer) = 78 -> {"WITHROTTLE"}
      [] Head(buffer) \in {71, 83} -> {"WEBSOCK_CONNECTING"}
      [] OTHER -> {"WEBSOCKET"}

\* A front end gives the parser what it has read.
Understood(x, c, buffer) ==
    [x EXCEPT !.strange = IF x.clients[c] \in Speaks(buffer) THEN @ ELSE @ \cup {<<c, buffer>>}]

Hear(x, c, buffer) == Understood(parse(x, c, buffer), c, buffer)

forget(x, c) ==
    [x EXCEPT !.clients[c] = "NONE",
              !.virtualLCDClient = IF @ = c THEN NO_CLIENT ELSE @]
=============================================================================
