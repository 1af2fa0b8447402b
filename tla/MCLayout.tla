------------------------------ MODULE MCLayout ------------------------------
(***************************************************************************)
(* Scenarios for Layout: what is stored at the first power-up (setup), the *)
(* commands that may follow, the pins, and how often things may happen.    *)
(***************************************************************************)
EXTENDS Layout

Vpin(id, v) == [op |-> "TVPIN", id |-> id, vpin |-> v]
Servo(id, v) == [op |-> "TSERVO", id |-> id, data |-> <<v, 10, 20>>]
Dcc(id, nn) == [op |-> "TDCC", id |-> id, nn |-> nn]
Turn(id) == {[op |-> "T", id |-> id, close |-> b] : b \in BOOLEAN}
Del(op, id) == [op |-> op, id |-> id]
Out(id, pin, flag) == [op |-> "Z+", id |-> id, pin |-> pin, flag |-> flag]
Set(id) == {[op |-> "Z", id |-> id, on |-> b] : b \in BOOLEAN}
Sens(id, pin) == [op |-> "S+", id |-> id, pin |-> pin]
E == [op |-> "E"]
Clear == [op |-> "e"]
Lcn(op, id) == {[op |-> op, id |-> id, close |-> b, on |-> b] : b \in BOOLEAN}

Base ==
  [setup |-> <<>>, commands |-> {}, pins |-> 1..6, inputs |-> {}, notify |-> {},
   groupPins |-> {}, vpinMax |-> 40, eeSize |-> 30, scanMax |-> 2,
   turntableVpins |-> {}, turntableFailed |-> FALSE,
   left |-> [commands |-> 0, flips |-> 0, cuts |-> 0, garbled |-> 0]]

\* A stored layout is operated, extended behind the stored turnouts, stored
\* again, cleared, and restarted.
Operate ==
  [Base EXCEPT
     !.setup = <<Vpin(1, 1), Servo(2, 2), Dcc(3, 9), Sens(1, 30), Out(1, 3, 0), Out(2, 4, 3)>>,
     !.commands = Turn(1) \cup Turn(2) \cup {Dcc(4, 2044), Sens(2, 31), Del("S-", 1), E, Clear}
                  \cup Set(1) \cup Set(2) \cup {Out(3, 5, 6), Del("Z-", 1), Out(3, 41, 0)},
     !.inputs = {30, 31},
     !.left.commands = 4, !.left.cuts = 2]

\* A new layout is defined, turnouts are removed and change their type.
Define ==
  [Base EXCEPT
     !.setup = <<>>,
     !.commands = {Vpin(1, 1), Servo(1, 2), Dcc(2, 1), Dcc(2, 2049), Vpin(3, 6), Del("T-", 1),
                   Del("T-", 2), Sens(1, 30), Out(1, 3, 1), Out(1, 4, 2), E} \cup Turn(3),
     !.inputs = {30},
     !.left.commands = 5]

\* Stored turnouts are removed, replaced, redefined, set by LCN and moved, the
\* layout is stored again, cleared and restarted.
Replace ==
  [Base EXCEPT
     !.setup = <<Vpin(1, 1), Servo(2, 2), Vpin(3, 3), Sens(1, 30), Out(1, 4, 0)>>,
     !.commands = {Del("T-", 1), Dcc(1, 7), Vpin(1, 5), Clear, Dcc(3, 5), Servo(2, 6), E}
                  \cup Turn(1) \cup Turn(2) \cup Turn(3) \cup Lcn("LT", 2),
     !.inputs = {30},
     !.left.commands = 4, !.left.cuts = 2]

\* Sensors on polled pins come and go while the scan is under way.
Scan ==
  [Base EXCEPT
     !.setup = <<Sens(1, 30), Sens(2, 31), Sens(3, 32)>>,
     !.commands = {Del("S-", 1), Del("S-", 2), Del("S-", 3), Sens(2, 31), Sens(1, 30)},
     !.inputs = {30, 31, 32},
     !.left.commands = 2, !.left.flips = 3]

\* Sensors on a notifying pin, one on LCN, and a group.
Events ==
  [Base EXCEPT
     !.setup = <<Sens(1, 30), Sens(2, 31)>>,
     !.commands = Lcn("LS", 3) \cup Lcn("LT", 1) \cup Lcn("LY", 1) 
                  \cup {Del("S-", 2), Del("S-", 1), Sens(1, 30), Sens(2, 30)},
     !.inputs = {30, 31}, !.notify = {30}, !.groupPins = {31},
     !.left.commands = 3, !.left.flips = 2]

\* An EX-Turntable and a DCC turntable.
Tables ==
  [Base EXCEPT
     !.commands =
        {[op |-> "IEXTT", id |-> 1, vpin |-> 20], [op |-> "IEXTT", id |-> 2, vpin |-> 20],
         [op |-> "IDCC", id |-> 2], [op |-> "IADD", id |-> 1, position |-> 1, value |-> 17],
         [op |-> "IADD", id |-> 2, position |-> 1, value |-> 17],
         [op |-> "IADD", id |-> 1, position |-> 49, value |-> 17],
         [op |-> "I2", id |-> 2, position |-> 1],
         [op |-> "IADD", id |-> 1, position |-> 1, value |-> -3],
         [op |-> "DTT", vpin |-> 20, steps |-> 5, activity |-> 0],
         [op |-> "DTT", vpin |-> 20, steps |-> -5, activity |-> 0]}
        \cup {[op |-> "I3", id |-> 1, position |-> p, activity |-> a] : p \in 0..1, a \in {0, 2, 4}},
     !.turntableVpins = {20},
     !.left.commands = 5, !.left.garbled = 1]

\* (The LET keeps the coverage statistics of TLC from entering the sessions at every use.)
AllSessions ==
  LET all ==
    [operate |-> Operate, define |-> Define, replace |-> Replace, scan |-> Scan,
     events |-> Events, tables |-> Tables]
  IN  all
============================================================================
