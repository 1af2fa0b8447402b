---------------------------- MODULE WiThrottle ----------------------------
(***************************************************************************)
(* WiThrottle clients (WiThrottle.cpp): one object per connected client    *)
(* with its table of locos, the commands it may send, the broadcast of     *)
(* speed, direction and functions to every client that holds a loco, the   *)
(* heartbeat that stops the locos of a silent client, and the acquisition  *)
(* of the loco on the programming track.                                   *)
(*                                                                         *)
(* Locos, turnouts and power belong to other parts of the station; they    *)
(* appear here as the state that WiThrottle reads and changes.             *)
(***************************************************************************)
EXTENDS Integers, Sequences, FiniteSets, SequencesExt

CONSTANTS
  Sessions,    \* name |-> the commands, locos and bounds of one scenario
  Clients,     \* client ids of the network interface
  Letters,     \* throttle letters of a client
  Cabs         \* loco addresses

VARIABLES
  session,  \* the scenario, chosen at the start
  st,       \* the throttles, the locos, turnouts and power
  told,     \* what each client was last told of each loco (external)
  gone,     \* clients that have closed the connection or quit (external)
  link,     \* the network interface has a link (external)
  left,     \* what clients and other users may still send
  beat      \* changes with every pass of the loop

vars == <<session, st, told, gone, link, left, beat>>

S == Sessions[session]

MAX_MY_LOCO == S.maxMyLoco       \* 10 in WiThrottle.h
ESTOP_SECONDS == S.estopSeconds  \* 20 in WiThrottle.h
LOCO_SLOTS == S.locoSlots        \* MAX_LOCOS
HIGHEST_SHORT_ADDR == 127
LONG_ADDR_MARKER == 16384
Fns == 0..2

\* The leader of a consist follower; other locos have no leader.
Followers == DOMAIN S.leader

(***************************************************************************)
(* Locos, as DCC.cpp keeps them                                            *)
(***************************************************************************)
\* One throttle: every slot with this cab is to be sent to the client. A
\* released slot keeps its cab and is flagged too.
markForBroadcast2(w, cab) ==
  [w EXCEPT !.locos = [k \in DOMAIN @ |->
     IF @[k].cab = cab THEN [@[k] EXCEPT !.pending = TRUE] ELSE @[k]]]

markForBroadcast(s, cab) ==
  [s EXCEPT !.wits = [i \in DOMAIN @ |-> markForBroadcast2(@[i], cab)]]

\* LocoSlot::getSlot(cab, true) finds or makes a slot, or the table is full.
hasSlot(s, cab) == cab \in s.slots \/ Cardinality(s.slots) < LOCO_SLOTS

\* A follower ignores its own throttle and copies its leader's speed; the
\* broadcast is for the leader alone.
setThrottle(s, cab, speed, forward) ==
  LET made == [s EXCEPT !.slots = @ \cup {cab}]
      team == {cab} \cup {f \in Followers : S.leader[f] = cab}
  IN  CASE ~hasSlot(s, cab) -> s
        [] cab \in Followers \/ (s.speed[cab] = speed /\ s.forward[cab] = forward) -> made
        [] OTHER -> markForBroadcast(
             [made EXCEPT !.speed = [c \in Cabs |-> IF c \in team THEN speed ELSE @[c]],
                          !.forward = [c \in Cabs |-> IF c \in team THEN forward ELSE @[c]]],
             cab)

setFn(s, cab, fn, on) ==
  LET fns == IF on THEN s.functions[cab] \cup {fn} ELSE s.functions[cab] \ {fn}
      made == [s EXCEPT !.slots = @ \cup {cab}]
  IN  CASE ~hasSlot(s, cab) -> s
        [] fns = s.functions[cab] -> made
        [] OTHER -> markForBroadcast([made EXCEPT !.functions[cab] = fns], cab)

getFn(s, cab, fn) == IF cab \in s.slots THEN fn \in s.functions[cab] ELSE FALSE

changeFn(s, cab, fn) == IF cab \notin s.slots THEN s ELSE setFn(s, cab, fn, ~getFn(s, cab, fn))

(***************************************************************************)
(* The throttles                                                           *)
(***************************************************************************)
Released == ""
NoLoco == [throttle |-> Released, cab |-> 0, pending |-> FALSE,
           functionMap |-> {}, functionToggles |-> {}]

Index(s, client) == SelectInSeq(s.wits, LAMBDA w : w.client = client)
Wit(s, client) == s.wits[Index(s, client)]

newWiThrottle(client) ==
  [client |-> client, locos |-> [k \in 1..MAX_MY_LOCO |-> NoLoco], heartBeatEnable |-> FALSE,
   silent |-> 0, introSent |-> FALSE, turnoutsSent |-> FALSE, rosterSent |-> FALSE,
   routesSent |-> FALSE, heartrateSent |-> FALSE, mostRecentCab |-> 0]

\* The client's throttle, or a new one at the head of the list.
getThrottle(s, client) ==
  IF Index(s, client) # 0 THEN s ELSE [s EXCEPT !.wits = <<newWiThrottle(client)>> \o @]

\* The destructor unlinks the throttle. A read of the programming track that
\* it asked for still points to it.
deleteWiThrottle(s, client) ==
  [s EXCEPT !.wits = RemoveAt(@, Index(s, client)),
            !.stash.live = @ /\ s.stash.client # client]

forget(s, client) == IF Index(s, client) = 0 THEN s ELSE deleteWiThrottle(s, client)

\* The slots of a throttle letter that hold the cab, or all with cab = -1.
LOOPLOCOS(w, throttle, cab) ==
  {k \in DOMAIN w.locos : w.locos[k].throttle = throttle /\ cab \in {-1, w.locos[k].cab}}

InUse(w) == {k \in DOMAIN w.locos : w.locos[k].throttle # Released}

\* The member of a singleton; binding a value to it makes TLC evaluate it.
One(set) == CHOOSE x \in set : TRUE

\* op applied for each slot of the client in the set, in the order of slots.
ForLocos(op(_, _), s, client, slots) ==
  LET w == Wit(s, client)
      f[k \in 0..MAX_MY_LOCO] ==
        CASE k = 0 -> s
          [] k \in slots -> One({op(r, w.locos[k]) : r \in {f[k - 1]}})
          [] OTHER -> f[k - 1]
  IN  f[MAX_MY_LOCO]

SetWit(s, client, w) == [s EXCEPT !.wits[Index(s, client)] = w]

DCCToWiTSpeed(speed) == CASE speed = 0 -> 0 [] speed = 1 -> -1 [] OTHER -> speed - 1

\* DCC::setThrottle keeps seven bits of the result.
WiTToDCCSpeed(speed) ==
  (CASE speed = 0 -> 0 [] speed = -1 -> 1 [] OTHER -> speed + 1) % 128

LorS(cab) == IF cab <= HIGHEST_SHORT_ADDR THEN "S" ELSE "L"

(***************************************************************************)
(* What the client is told. A message changes the client's display at once *)
(* here; RingStream and the network are modelled elsewhere.                *)
(***************************************************************************)
\* Speed, direction and changed functions of one slot.
TellLoco(t, s, client, m) ==
  LET now == s.functions[m.cab]
      changed == (now \ m.functionMap) \cup (m.functionMap \ now)
  IN  [t EXCEPT ![client][m.throttle, m.cab] =
         [speed |-> DCCToWiTSpeed(s.speed[m.cab]), forward |-> s.forward[m.cab],
          functions |-> (@.functions \ changed) \cup (now \cap changed)]]

\* Function keys: with a roster entry its keys, the starred ones momentary;
\* without one every key, F2 (the horn) momentary.
Keys(cab) == IF cab \in DOMAIN S.roster THEN S.roster[cab].keys ELSE Fns
Toggles(cab) ==
  CASE cab \notin DOMAIN S.roster -> {2}
    [] S.roster[cab].keys = {} -> {2}
    [] OTHER -> S.roster[cab].starred

sendFunctions(t, s, client, throttle, cab) ==
  [t EXCEPT ![client][throttle, cab].functions =
     (@ \ Keys(cab)) \cup {fn \in Keys(cab) : getFn(s, cab, fn)}]

(***************************************************************************)
(* Commands. Results are pairs: state and what clients have been told.     *)
(***************************************************************************)
Pair(s, t) == [s |-> s, t |-> t]
\* M+: the first free slot takes the loco. A refused address, a wrong length
\* letter, a full table of locos or of slots changes nothing else.
addLoco(s, t, client, throttle, lors, cab) ==
  LET w == Wit(s, client)
      made == [s EXCEPT !.slots = @ \cup {cab}]
      free == {k \in DOMAIN w.locos : w.locos[k].throttle = Released}
      k == CHOOSE i \in free : \A j \in free : i <= j
      slot == [throttle |-> throttle, cab |-> cab, pending |-> TRUE,
               functionMap |-> s.functions[cab], functionToggles |-> Toggles(cab)]
  IN  CASE cab = 0 \/ lors # LorS(cab) \/ ~hasSlot(s, cab) -> Pair(s, t)
        [] free = {} -> Pair(made, t)
        [] OTHER -> Pair(SetWit(made, client, [w EXCEPT !.locos[k] = slot, !.mostRecentCab = cab]),
                         sendFunctions(t, made, client, throttle, cab))

\* M+*: the loco on the programming track, to be driven away. The read
\* undoes a join and takes the place of a read already under way.
askLoco(s, client, throttle) ==
  [s EXCEPT !.stash = [client |-> client, throttle |-> throttle, live |-> TRUE],
            !.asked = TRUE, !.joined = FALSE]

removeLocos(s, client, throttle, cab) ==
  LET w == Wit(s, client)
      found == LOOPLOCOS(w, throttle, cab)
  IN  SetWit(s, client, [w EXCEPT !.locos = [k \in DOMAIN @ |->
        IF k \in found THEN [@[k] EXCEPT !.throttle = Released] ELSE @[k]]])

Recent(s, client, cab) == SetWit(s, client, [Wit(s, client) EXCEPT !.mostRecentCab = cab])

\* MxA: an action on one loco or on all locos of the throttle letter.
locoAction(s, client, c) ==
  LET found == LOOPLOCOS(Wit(s, client), c.throttle, c.cab)
      Speed(r, m) == setThrottle(Recent(r, client, m.cab), m.cab, WiTToDCCSpeed(c.value), r.forward[m.cab])
      Function(r, m) ==
        CASE c.value \in m.functionToggles -> setFn(r, m.cab, c.value, c.on)
          [] c.value \notin m.functionToggles /\ c.on -> changeFn(r, m.cab, c.value)
          [] OTHER -> r
      Force(r, m) == setFn(r, m.cab, c.value, c.on)
      Query(r, m) == SetWit(r, client, [Wit(r, client) EXCEPT !.locos = [k \in DOMAIN @ |->
                       IF k \in found THEN [@[k] EXCEPT !.pending = TRUE] ELSE @[k]]])
      Reverse1(r, m) == setThrottle(Recent(r, client, m.cab), m.cab,
                          IF m.cab \in r.slots THEN r.speed[m.cab] ELSE 0, c.on)
      Stop(r, m) == setThrottle(r, m.cab, 1, r.forward[m.cab])
      Idle(r, m) == setThrottle(Recent(r, client, m.cab), m.cab, 0, r.forward[m.cab])
  IN  CASE c.aval = "V" -> ForLocos(Speed, s, client, found)
        [] c.aval = "F" -> ForLocos(Function, s, client, found)
        [] c.aval = "f" -> ForLocos(Force, s, client, found)
        [] c.aval = "q" -> ForLocos(Query, s, client, found)
        [] c.aval = "R" -> ForLocos(Reverse1, s, client, found)
        [] c.aval = "X" -> ForLocos(Stop, s, client, found)
        [] c.aval \in {"I", "Q"} -> ForLocos(Idle, s, client, found)

multithrottle(s, t, client, c) ==
  CASE c.cab > 10239 \/ c.cab < -1 -> Pair(s, t)
    [] c.do = "+" /\ c.lors = "*" -> Pair(askLoco(s, client, c.throttle), t)
    [] c.do = "+" /\ c.lors # "*" -> addLoco(s, t, client, c.throttle, c.lors, c.cab)
    [] c.do = "-" -> Pair(removeLocos(s, client, c.throttle, c.cab), t)
    [] c.do = "A" -> Pair(locoAction(s, client, c), t)

\* PTA: an unknown turnout is created, as thrown, before it is operated.
accessory(s, id, how) ==
  LET known == IF s.closed[id] = "none" THEN "thrown" ELSE s.closed[id]
      want == CASE how = "T" -> "thrown" [] how = "C" -> "closed"
                [] how = "2" -> IF known = "closed" THEN "thrown" ELSE "closed"
                [] OTHER -> "closed"
  IN  [s EXCEPT !.closed[id] = want]

\* PRA2: an automation gets the client's latest loco, a route none.
startRoute(s, client, automation) ==
  [s EXCEPT !.task = IF automation THEN Wit(s, client).mostRecentCab ELSE 0]

sendIntro(w) == [w EXCEPT !.introSent = TRUE]

sendTurnouts(w) == [w EXCEPT !.turnoutsSent = TRUE]

sendRoster(w) == [w EXCEPT !.rosterSent = TRUE]

sendRoutes(w) == [w EXCEPT !.routesSent = TRUE]

\* After the introduction each command brings one more part of the metadata.
sendMetadata(w) ==
  CASE ~w.introSent -> w
    [] ~w.turnoutsSent -> sendTurnouts(w)
    [] ~w.rosterSent -> sendRoster(w)
    [] ~w.routesSent -> sendRoutes(w)
    [] OTHER -> [w EXCEPT !.heartrateSent = TRUE]

parse(s0, t, client, c) ==
  LET w == [sendMetadata(Wit(s0, client)) EXCEPT !.silent = 0]
      s == One({SetWit(s0, client, w)})
  IN  CASE c.op = "*" -> Pair(SetWit(s, client, [w EXCEPT !.heartBeatEnable = c.on]), t)
        [] c.op = "PPA" -> Pair([s EXCEPT !.mainPower = c.on], t)
        [] c.op = "PRA2" -> Pair(startRoute(s, client, c.on), t)
        [] c.op = "PTA" -> Pair(accessory(s, c.id, c.how), t)
        [] c.op \in {"N", "HU"} -> Pair(SetWit(s, client, sendIntro(w)), t)
        [] c.op = "M" -> multithrottle(s, t, client, c)
        [] c.op = "Q" -> Pair(deleteWiThrottle(s, client), t)

\* The answer of the programming track, for the throttle that asked last.
\* A throttle deleted in the meantime is written to all the same: nothing of
\* it can be seen here.
getLocoCallback(s0, t, id) ==
  LET s == [s0 EXCEPT !.asked = FALSE]
      long == id >= LONG_ADDR_MARKER
      cab == IF long THEN id - LONG_ADDR_MARKER ELSE id
      r == IF s.stash.live
           THEN addLoco(s, t, s.stash.client, s.stash.throttle, IF long THEN "L" ELSE "S", cab)
           ELSE Pair(s, t)
  IN  IF id <= 0 \/ (long /\ cab <= HIGHEST_SHORT_ADDR) THEN Pair(s, t)
      ELSE Pair([r.s EXCEPT !.joined = TRUE, !.mainPower = TRUE, !.progPower = TRUE], r.t)

\* A client silent for too long has its locos stopped and is forgotten;
\* otherwise what changed is sent.
timedOut(w) == w.heartBeatEnable /\ w.silent > ESTOP_SECONDS

\* A mutation: a loco that another client holds too is left running.
estopLocos_SkipShared(s, client) ==
  LET Stop(r, m) ==
        IF \E i \in DOMAIN r.wits : /\ r.wits[i].client # client
                                    /\ \E k \in InUse(r.wits[i]) : r.wits[i].locos[k].cab = m.cab
        THEN r ELSE setThrottle(r, m.cab, 1, r.forward[m.cab])
  IN  ForLocos(Stop, s, client, InUse(Wit(s, client)))

estopLocos(s, client) ==
  LET Stop(r, m) == setThrottle(r, m.cab, 1, r.forward[m.cab])
  IN  ForLocos(Stop, s, client, InUse(Wit(s, client)))

\* A mutation: the copy of the function map is not brought up to date.
sendPending_KeepMap(s, t, client) ==
  LET w == Wit(s, client)
      due == {k \in InUse(w) : w.locos[k].pending}
      f[k \in 0..MAX_MY_LOCO] == CASE k = 0 -> t
                                   [] k \in due -> TellLoco(f[k - 1], s, client, w.locos[k])
                                   [] OTHER -> f[k - 1]
  IN  Pair(SetWit(s, client, [w EXCEPT !.locos = [k \in DOMAIN @ |->
             IF k \in due THEN [@[k] EXCEPT !.pending = FALSE] ELSE @[k]]]), f[MAX_MY_LOCO])

sendPending(s, t, client) ==
  LET w == Wit(s, client)
      due == {k \in InUse(w) : w.locos[k].pending}
      f[k \in 0..MAX_MY_LOCO] == CASE k = 0 -> t
                                   [] k \in due -> TellLoco(f[k - 1], s, client, w.locos[k])
                                   [] OTHER -> f[k - 1]
  IN  Pair(SetWit(s, client, [w EXCEPT !.locos = [k \in DOMAIN @ |->
             IF k \in due
             THEN [@[k] EXCEPT !.pending = FALSE, !.functionMap = s.functions[w.locos[k].cab]]
             ELSE @[k]]]), f[MAX_MY_LOCO])

checkHeartbeat(s, t, client) ==
  IF timedOut(Wit(s, client)) THEN Pair(deleteWiThrottle(estopLocos(s, client), client), t)
  ELSE sendPending(s, t, client)

\* Every throttle, in the order of the list.
loop(s, t) ==
  LET order == [i \in DOMAIN s.wits |-> s.wits[i].client]
      f[i \in 0..Len(order)] == IF i = 0 THEN Pair(s, t)
                                ELSE One({checkHeartbeat(p.s, p.t, order[i]) : p \in {f[i - 1]}})
  IN  f[Len(order)]

(***************************************************************************)
(* Behaviour                                                               *)
(***************************************************************************)
Init ==
  /\ session \in DOMAIN Sessions
  /\ st = [wits |-> <<>>, slots |-> Followers \cup {S.leader[f] : f \in Followers},
           speed |-> [c \in Cabs |-> 0], forward |-> [c \in Cabs |-> TRUE],
           functions |-> [c \in Cabs |-> {}], closed |-> [i \in S.turnouts |-> "none"],
           mainPower |-> FALSE, progPower |-> FALSE, joined |-> FALSE, task |-> 0,
           asked |-> FALSE, stash |-> [client |-> 0, throttle |-> Released, live |-> FALSE]]
  /\ told = [c \in Clients |-> [l \in Letters \X Cabs |->
               [speed |-> 0, forward |-> TRUE, functions |-> {}]]]
  /\ gone = Clients
  /\ link = TRUE
  /\ left = [client |-> S.budget, other |-> S.others, link |-> S.linkChanges]
  /\ beat = FALSE

\* A command of a client; the first one makes its throttle.
Receive(client) ==
  /\ link /\ left.client[client] > 0
  /\ \E c \in S.commands[client] :
       \E r \in {parse(s, told, client, c) : s \in {getThrottle(st, client)}} :
         /\ st' = r.s /\ told' = r.t
         /\ gone' = IF c.op = "Q" THEN gone \cup {client} ELSE gone \ {client}
  /\ left' = [left EXCEPT !.client[client] = @ - 1]
  /\ UNCHANGED <<session, link, beat>>

\* The network interface finds the connection closed (external).
Disconnect(client) ==
  /\ link /\ S.disconnects /\ client \notin gone
  /\ st' = forget(st, client) /\ gone' = gone \cup {client}
  /\ UNCHANGED <<session, told, link, left, beat>>

\* Another throttle, or EXRAIL, drives a loco (external).
OtherUser ==
  /\ left.other > 0
  /\ \E c \in S.driven : \/ \E v \in {0, 1, 11} : st' = setThrottle(st, c, v, TRUE)
                         \/ \E fn \in Fns : st' = setFn(st, c, fn, TRUE)
  /\ left' = [left EXCEPT !.other = @ - 1]
  /\ UNCHANGED <<session, told, gone, link, beat>>

\* The programming track answers (external).
Answer ==
  /\ st.asked
  /\ \E id \in S.found : \E r \in {getLocoCallback(st, told, id)} : st' = r.s /\ told' = r.t
  /\ UNCHANGED <<session, gone, link, left, beat>>

\* The interface's loop returns early while it has no link: neither commands
\* and closed connections nor WiThrottle::loop are reached.
Loop ==
  /\ link
  /\ \E r \in {loop(st, told)} : st' = r.s /\ told' = r.t
  /\ beat' = ~beat
  /\ UNCHANGED <<session, gone, link, left>>

\* The cable or the access point goes away, or comes back (external).
LinkChange ==
  /\ left.link > 0
  /\ link' = ~link
  /\ left' = [left EXCEPT !.link = @ - 1]
  /\ UNCHANGED <<session, st, told, gone, beat>>

Second ==
  /\ \E i \in DOMAIN st.wits : st.wits[i].silent <= ESTOP_SECONDS
  /\ st' = [st EXCEPT !.wits = [i \in DOMAIN @ |->
              [@[i] EXCEPT !.silent = IF @ <= ESTOP_SECONDS THEN @ + 1 ELSE @]]]
  /\ UNCHANGED <<session, told, gone, link, left, beat>>

Next == \/ \E c \in Clients : Receive(c) \/ Disconnect(c)
        \/ OtherUser \/ Answer \/ Loop \/ Second \/ LinkChange

\* The main loop never stops and time passes. While the interface has its
\* link it comes round to WiThrottle::loop, as clients pause between their
\* commands; a link that is down need not come back.
Spec == Init /\ [][Next]_vars /\ WF_beat(link /\ beat' = ~beat) /\ WF_st(Second)

(***************************************************************************)
(* Properties                                                              *)
(***************************************************************************)
Has(client, cab) ==
  /\ Index(st, client) # 0
  /\ \E k \in InUse(Wit(st, client)) : Wit(st, client).locos[k].cab = cab

\* What a client shows of a loco it holds (speed, direction, the function
\* keys it was given) is what the loco does, unless the next pass of the loop
\* (checkHeartbeat) will tell it, whoever changed it and however slots were
\* released and taken again. A loco that follows another in a consist is
\* left out: only its leader is broadcast.
ViewTrue ==
  \A i \in DOMAIN st.wits : \A k \in InUse(st.wits[i]) :
    LET m == st.wits[i].locos[k]
        shown == told[st.wits[i].client][m.throttle, m.cab]
    IN  m.cab \notin Followers /\ ~m.pending =>
          /\ WiTToDCCSpeed(shown.speed) = st.speed[m.cab]
          /\ shown.forward = st.forward[m.cab]
          /\ shown.functions \cap Keys(m.cab) = st.functions[m.cab] \cap Keys(m.cab)

\* The dead man's handle: when a client with the heartbeat on holds a moving
\* loco and falls silent without closing its connection, the loco is stopped
\* (checkHeartbeat), also when the link was down in the meantime. It ends
\* otherwise only if the client speaks again, the connection is closed, or the
\* station loses its link: without one nobody calls WiThrottle::loop, and the
\* loco runs on until the link is back.
DeadMan ==
  \A client \in Clients, cab \in Cabs :
    (/\ Has(client, cab) /\ Wit(st, client).heartBeatEnable
     /\ cab \notin Followers /\ st.speed[cab] > 1)
    ~> \/ st.speed[cab] <= 1 \/ client \in gone \/ ~link
       \/ Index(st, client) # 0 /\ Wit(st, client).silent = 0

============================================================================
