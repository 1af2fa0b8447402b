------------------------------ MODULE MCEXRAIL ------------------------------
(***************************************************************************)
(* Small scripts for EXRAIL.                                               *)
(***************************************************************************)
EXTENDS EXRAIL

Still == [v |-> 0, fwd |-> TRUE]
Go == [v |-> 40, fwd |-> FALSE]
Plain == {[rnd |-> 0, busy |-> FALSE, heap |-> [u |-> 0, speed |-> Still]]}
Heaps == {[rnd |-> 0, busy |-> FALSE, heap |-> [u |-> n, speed |-> sp]] : n \in {0}, sp \in {Go}}
Random == {[rnd |-> n, busy |-> n = 1, heap |-> [u |-> 0, speed |-> Still]] : n \in 0..1}

Base == [signals |-> <<>>, locos |-> {}, inputs |-> {}, outs |-> {}, routes |-> {}, stashes |-> {},
         flips |-> {}, commands |-> {}, events |-> {}, cvs |-> {}, choices |-> Plain, limit |-> 0,
         regions |-> <<>>, cuts |-> FALSE, scarce |-> FALSE, maxAge |-> 0, code |-> <<>>]

User(c, n) == [cmd |-> c, n |-> n, cab |-> 0]
I(op, v) == Instr(op, <<v>>)

\* Two trains share section 9; a user pauses, resumes, kills either, or sends a third along.
TrainA == I("AUTOSTART", 0) \o I("SETLOCO", 3) \o I("SEQUENCE", 1) \o I("FWD", 10) \o I("AT", 1)
TrainA2 == I("RESERVE", 9) \o I("SPEEDUP", 20) \o I("AT", -1) \o I("FREE", 9) \o I("FOLLOW", 1)
TrainB == I("AUTOSTART", 0) \o I("SETLOCO", 4) \o I("SEQUENCE", 2) \o I("RESERVE", 9) \o I("REV", 5)
TrainB2 == I("DELAY", 1) \o I("FREE", 9) \o I("FOLLOW", 2)
TrainsCode == TrainA \o TrainA2 \o TrainB \o TrainB2 \o I("ENDEXRAIL", 0)
Region(code) == UNION {p + 1..Min({q \in DOMAIN code : q > p /\ code[q].op = "FREE"}) :
                          p \in {q \in DOMAIN code : code[q].op \in {"RESERVE", "IFRESERVE"}}}
Trains == [Base EXCEPT !.code = TrainsCode, !.locos = {3, 4}, !.inputs = {1}, !.flips = {1},
                       !.commands = {User("PAUSE", 0), User("RESUME", 0), User("KILL", 0), User("KILL", 1)},
                       !.choices = Heaps, !.limit = 3, !.regions = [s \in {9} |-> Region(TrainsCode)]]

\* One train on its way, and a user who sends another along the same line, also while the first is paused.
Third == [Trains EXCEPT !.code = TrainB \o TrainB2 \o I("ENDEXRAIL", 0), !.locos = {4, 5}, !.inputs = {}, !.flips = {},
                        !.commands = {User("PAUSE", 0), User("RESUME", 0), User("KILLALL", 0),
                                      [cmd |-> "START", n |-> 2, cab |-> 5]},
                        !.limit = 3, !.regions = [s \in {9} |-> Region(TrainB \o TrainB2)]]

\* Lamps: one task blinks and sets a pin and changes a signal; a second one blinks the signal's red lamp.
LampsCode == I("AUTOSTART", 0) \o I("SEQUENCE", 1) \o Instr("BLINK", <<20, 1, 1>>) \o I("GREEN", 30)
             \o Instr("SET", <<20, 1>>) \o I("RED", 30) \o I("FOLLOW", 1)
             \o I("ONGREEN", 30) \o Instr("BLINK", <<21, 1, 1>>) \o I("ENDTASK", 0)
             \o I("AUTOSTART", 0) \o I("SEQUENCE", 2) \o I("WAIT_WHILE_RED", 30) \o I("THROW", 7)
             \o I("IFCLOSED", 7) \o I("RESET", 20) \o I("ENDIF", 0) \o I("FOLLOW", 2)
             \o I("TURNOUT", 7) \o I("ENDEXRAIL", 0)
Lamps == [Base EXCEPT !.code = LampsCode, !.outs = {20, 21, 22}, !.limit = 2,
                      !.signals = <<[id |-> 30, type |-> "SIGNALH", red |-> 21, amber |-> 0, green |-> 22]>>,
                      !.events = {[on |-> "ONCLOSE", id |-> 7, loco |-> 0]}]

\* Calls, random branches, a loco read on the programming track, stashed, handed over and forgotten.
CallsCode == I("AUTOSTART", 0) \o READ_LOCO \o I("IFLOCO", 0) \o I("ENDTASK", 0) \o I("ENDIF", 0)
             \o I("CALL", 5) \o Instr("RANDOM_CALL", <<2, 5, 6>>) \o I("STASH", 1) \o I("START_SEND", 7)
             \o I("IFRESERVE", 9) \o I("START_SHARED", 8) \o I("FREE", 9) \o I("ENDIF", 0)
             \o Instr("RANDOM_FOLLOW", <<2, 8, 9>>)
             \o I("SEQUENCE", 5) \o I("IFRANDOM", 50) \o Instr("XFWD", <<3, 20>>) \o I("ELSE", 0)
             \o I("INVERT_DIRECTION", 0) \o I("ENDIF", 0) \o I("RETURN", 0)
             \o I("SEQUENCE", 6) \o I("SPEED", 30) \o I("CALL", 6)
             \o I("SEQUENCE", 7) \o I("SAVE_SPEED", 0) \o I("SPEED_REL", 50) \o I("SLOWDOWN", 9)
             \o I("RESTORE_SPEED", 0) \o I("FORGET", 0) \o I("PICKUP_STASH", 1) \o I("CLEAR_ALL_STASH", 0)
             \o I("ENDTASK", 0)
             \o I("ROUTE", 8) \o I("ROUTE_ACTIVE", 8) \o I("IFSTASH", 1) \o I("RANDWAIT", 2) \o I("ENDIF", 0)
             \o I("IF_ROUTE_HIDDEN", 8) \o I("ELSE", 0) \o Instr("SENDLOCO", <<3, 10>>) \o I("KILLALL", 0)
             \o I("SEQUENCE", 10) \o I("ENDEXRAIL", 0)
Calls == [Base EXCEPT !.code = CallsCode, !.locos = {3, 300}, !.routes = {8}, !.stashes = {1}, !.choices = Random,
                      !.cvs = {-1, 3, 16384 + 5, 16384 + 300}, !.regions = [s \in {9} |-> Region(CallsCode)]]

\* Watched inputs, timeouts, latches, and a handler that pauses the others.
WatchCode == I("ONBUTTON", 1) \o I("LATCH", 1) \o ATTIMEOUT(2, 1) \o I("IFTIMEOUT", 0) \o I("UNLATCH", 1)
             \o I("ENDIF", 0) \o I("ENDTASK", 0)
             \o I("ONSENSOR", -2) \o I("PAUSE", 0) \o I("DELAY", 1) \o I("RESUME", 0) \o I("ENDTASK", 0)
             \o I("ENDEXRAIL", 0)
Watch == [Base EXCEPT !.code = WatchCode, !.locos = {3}, !.inputs = {1, 2}, !.flips = {1, 2}, !.scarce = TRUE,
                      !.maxAge = 2, !.limit = 3]

\* Handlers of the clock, a block and an overload.
AlarmCode == I("ONTIME", (25 * 60) + 5) \o I("ONTIME", 65) \o AFTER(1, 1) \o I("ENDTASK", 0)
             \o I("ONOVERLOAD", 0) \o Instr("AFTEROVERLOAD", <<0>>) \o I("WAITFOR", 3) \o I("ENDTASK", 0)
             \o I("ONBLOCKENTER", 4) \o I("SPEED", 12) \o I("ENDTASK", 0) \o I("ENDEXRAIL", 0)
Alarm == [Base EXCEPT !.code = AlarmCode, !.locos = {3}, !.inputs = {1}, !.flips = {1}, !.cuts = TRUE,
                      !.scarce = TRUE, !.maxAge = 1, !.limit = 3, !.choices = Random,
                      !.events = {[on |-> "ONTIME", id |-> 65, loco |-> 0], [on |-> "ONOVERLOAD", id |-> 0, loco |-> 0],
                                  [on |-> "ONBLOCKENTER", id |-> 4, loco |-> 3]}]

\* (The LET keeps the coverage statistics of TLC from entering the sessions at every use.)
AllSessions ==
  LET all == [trains |-> Trains, third |-> Third, lamps |-> Lamps, calls |-> Calls, watch |-> Watch,
                alarm |-> Alarm]
  IN  all
=============================================================================
