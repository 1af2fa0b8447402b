-------------------------- MODULE WifiInboundHandler --------------------------
(***************************************************************************)
(* WifiInboundHandler.cpp: a Wifi module that speaks AT commands, on a     *)
(* serial line.  Its bytes arrive one after another and mix data of the    *)
(* clients (+IPD), connections that open or close, and its answers to the  *)
(* CIPSEND with which the station announces a message.                     *)
(*                                                                         *)
(* at is the state of the handler, inbound the ring of commands that wait, *)
(* modem the client whose CIPSEND the module has not answered (-1: none),  *)
(* sent what each client sent and the station has not obeyed; a command    *)
(* that its client did not send is added to strange.                       *)
(***************************************************************************)
EXTENDS CommandDistributor

CONSTANT
    PrescanOver     \* data longer than this is scanned for a key only (100)

ASSUME PrescanAssumption == PrescanOver \in Nat \ {0}

Digit == 48
Closed(c) == <<Digit + c, 44, 67, LF>>
IPD(c, data) == <<43, 73, 80, 68, 44, Digit + c, 44, Digit + Len(data), 58>> \o data

NewHandler(len, inboundLen) ==
    NewStation(len) @@
    [at |-> [loopState |-> "ANYTHING", runningClientId |-> 0, dataLength |-> 0, prescanPoint |-> 0,
             clientPendingCIPSEND |-> -1, currentReplySize |-> 0, pendingCipsend |-> FALSE, gap |-> FALSE],
     inbound |-> NewRing(inboundLen), modem |-> -1, sent |-> [c \in Clients |-> <<>>]]

To(x, state) == [x EXCEPT !.at.loopState = state]

-----------------------------------------------------------------------------
\* loop2, state by state.

XMIT(x) ==
    [To(Received(x, x.at.clientPendingCIPSEND, x.at.currentReplySize), "SKIPTOEND")
        EXCEPT !.at.clientPendingCIPSEND = -1, !.at.pendingCipsend = FALSE, !.modem = -2]

\* The text is tossed away.  The forget of a websocket client, whose id has the
\* marker, is outside the array.
purgeCurrentCIPSEND(x) ==
    [Received(forget(x, x.at.clientPendingCIPSEND), x.at.clientPendingCIPSEND, x.at.currentReplySize)
        EXCEPT !.at.clientPendingCIPSEND = -1, !.at.pendingCipsend = FALSE]

\* Mutant: a CIPSEND that met a busy module is not sent again.
busy_Forgotten(x) == To(x, "SKIPTOEND")

busy(x) ==
    LET again == x.at.clientPendingCIPSEND >= 0
    IN  [To(x, "SKIPTOEND") EXCEPT !.at.pendingCipsend = again, !.at.gap = @ \/ again]

ANYTHING(x, ch) ==
    CASE ch = 43 -> To(x, "IPD")
      [] ch = 62 -> XMIT(x)
      [] ch = 82 -> To(x, "SKIPTOEND")
      [] ch = 83 -> [To(x, "SKIPTOEND") EXCEPT !.at.gap = FALSE]
      [] ch = 98 -> busy(x)
      [] ch \in Digit .. Digit + 9 -> [To(x, "GOT_CLIENT_ID") EXCEPT !.at.runningClientId = ch - Digit]
      [] ch \in {69, 108} -> To(IF x.at.clientPendingCIPSEND >= 0 THEN purgeCurrentCIPSEND(x) ELSE x, "SKIPTOEND")
      [] OTHER -> x

\* The length is complete: data that would not fit is ignored, and long data is
\* taken for a request of a web browser.
IPD_length(x) ==
    LET n == x.at.dataLength
    IN  IF n = 0 THEN To(x, "ANYTHING")
        ELSE IF n < PrescanOver /\ freeSpace(x.inbound) <= n + 1 THEN To(x, "IPD_IGNORE_DATA")
        ELSE [To(x, IF n > PrescanOver THEN "IPD_PRESCAN" ELSE "IPD_DATA")
                 EXCEPT !.inbound = mark(@, x.at.runningClientId), !.at.prescanPoint = 0]

IPD_data(x, ch) ==
    LET y == [x EXCEPT !.inbound = write(@, ch), !.at.dataLength = @ - 1]
    IN  IF y.at.dataLength # 0 THEN y ELSE [To(y, "ANYTHING") EXCEPT !.inbound = commit(@)]

IPD_prescan(x, ch) ==
    LET y == [x EXCEPT !.at.dataLength = @ - 1]
        z == IF y.at.dataLength # 0 THEN y ELSE [To(y, "ANYTHING") EXCEPT !.inbound = commit(@)]
        p == x.at.prescanPoint + 1
    IN  IF ch # KeyName[p] THEN [z EXCEPT !.at.prescanPoint = 0]
        ELSE IF p < Len(KeyName) THEN [z EXCEPT !.at.prescanPoint = p]
        ELSE [To(z, "IPD_POSTSCAN") EXCEPT !.at.prescanPoint = p, !.inbound = print(@, KeyName)]

IPD_postscan(x, ch) ==
    LET y == [x EXCEPT !.inbound = write(@, ch), !.at.dataLength = @ - 1]
    IN  IF ch # LF THEN y ELSE [To(y, "IPD_IGNORE_DATA") EXCEPT !.inbound = commit(@)]

IPD_ignore(x) ==
    LET y == [x EXCEPT !.at.dataLength = @ - 1]
    IN  IF y.at.dataLength = 0 THEN To(y, "ANYTHING") ELSE y

\* n,CONNECT or n,CLOSED.
GOT_CLIENT(x, ch) ==
    LET c == x.at.runningClientId
    IN  To(CASE ch # 67 -> x
             [] ch = 67 /\ c = x.at.clientPendingCIPSEND -> purgeCurrentCIPSEND(x)
             [] ch = 67 /\ c # x.at.clientPendingCIPSEND -> forget(x, c), "SKIPTOEND")

\* The characters of "+IPD," one after another.
Expect(x, ch, want, next) == To(x, IF ch = want THEN next ELSE "SKIPTOEND")

loop2(x, ch) ==
    CASE x.at.loopState = "ANYTHING" -> ANYTHING(x, ch)
      [] x.at.loopState = "IPD" -> Expect(x, ch, 73, "IPD1")
      [] x.at.loopState = "IPD1" -> Expect(x, ch, 80, "IPD2")
      [] x.at.loopState = "IPD2" -> Expect(x, ch, 68, "IPD3")
      [] x.at.loopState = "IPD3" -> Expect(x, ch, 44, "IPD4_CLIENT")
      [] x.at.loopState = "IPD4_CLIENT" -> [To(x, "IPD5") EXCEPT !.at.runningClientId = ch - Digit]
      [] x.at.loopState = "IPD5" -> [Expect(x, ch, 44, "IPD6_LENGTH") EXCEPT !.at.dataLength = 0]
      [] x.at.loopState = "IPD6_LENGTH" ->
            IF ch = 58 THEN IPD_length(x) ELSE [x EXCEPT !.at.dataLength = @ * 10 + ch - Digit]
      [] x.at.loopState = "IPD_DATA" -> IPD_data(x, ch)
      [] x.at.loopState = "IPD_PRESCAN" -> IPD_prescan(x, ch)
      [] x.at.loopState = "IPD_POSTSCAN" -> IPD_postscan(x, ch)
      [] x.at.loopState = "IPD_IGNORE_DATA" -> IPD_ignore(x)
      [] x.at.loopState = "GOT_CLIENT_ID" -> Expect(x, ch, 44, "GOT_CLIENT_ID2")
      [] x.at.loopState = "GOT_CLIENT_ID2" -> GOT_CLIENT(x, ch)
      [] x.at.loopState = "SKIPTOEND" -> IF ch = LF THEN To(x, "ANYTHING") ELSE x

\* The bytes that have come, one after another.
loop2All(x, bytes) ==
    LET after[i \in 0 .. Len(bytes)] ==
            IF i = 0 THEN x ELSE CHOOSE z \in {loop2(y, bytes[i]) : y \in {after[i - 1]}} : TRUE
    IN  after[Len(bytes)]

-----------------------------------------------------------------------------
\* loop1 once loop2 is idle.

TakeReply(x) ==
    IF x.at.clientPendingCIPSEND >= 0 \/ Empty(x.out.ring) THEN x
    ELSE LET h == Header(x.out.ring)
         IN  [x EXCEPT !.out.ring = h.ring, !.at.clientPendingCIPSEND = h.client,
                       !.at.currentReplySize = h.n, !.at.pendingCipsend = TRUE]

CIPSEND(x) == [x EXCEPT !.at.pendingCipsend = FALSE, !.modem = Client(x.at.clientPendingCIPSEND)]

\* What a client sent up to and including a command that is obeyed is settled:
\* the rest was ignored for lack of room.
Settled(x, c, cmd) ==
    LET at == {i \in DOMAIN x.sent[c] : x.sent[c][i] = cmd}
    IN  IF at = {} THEN [x EXCEPT !.strange = @ \cup {<<c, cmd>>}]
        ELSE [x EXCEPT !.sent[c] = SubSeq(@, Min(at) + 1, Len(@))]

Execute(x) ==
    IF Empty(x.inbound) THEN x
    ELSE LET h == Header(x.inbound)
             raw == FoldLeft(LAMBDA y, i : [text |-> Append(y.text, y.ring.buf[y.ring.pr]), ring |-> readRawByte(y.ring)],
                             [text |-> <<>>, ring |-> h.ring], [i \in 1 .. h.n |-> i])
         IN  Hear(Settled([x EXCEPT !.inbound = raw.ring], h.client, raw.text), h.client, raw.text)

loop1(x, bytes) ==
    LET y == loop2All(x, bytes)
        z == TakeReply(WiThrottle_loop(y))
    IN  IF y.at.loopState # "ANYTHING" THEN y
        ELSE IF z.at.pendingCipsend /\ ~z.at.gap THEN CIPSEND(z)
        ELSE Execute(z)
=============================================================================
