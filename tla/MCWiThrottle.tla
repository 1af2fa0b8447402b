--------------------------- MODULE MCWiThrottle ---------------------------
(***************************************************************************)
(* WiThrottle scenarios: two phones that share locos and fall silent,      *)
(* functions and slots released and taken again, full tables, driving away *)
(* from the programming track, a consist, and the other commands.          *)
(***************************************************************************)
EXTENDS WiThrottle

MCClients == {1, 2}
MCLetters == {"0", "1"}
MCCabs == {3, 4, 300}

M(throttle, do, lors, cab) == [op |-> "M", throttle |-> throttle, do |-> do, lors |-> lors, cab |-> cab]
Act(throttle, cab, aval, value, on) ==
  [op |-> "M", throttle |-> throttle, do |-> "A", lors |-> "*", cab |-> cab,
   aval |-> aval, value |-> value, on |-> on]
Beat(on) == [op |-> "*", on |-> on]
NoConsist == [c \in {} |-> 0]
NoRoster == [c \in {} |-> 0]

Base == [maxMyLoco |-> 2, estopSeconds |-> 0, locoSlots |-> 3, leader |-> NoConsist,
         roster |-> NoRoster, turnouts |-> {}, others |-> 1, driven |-> {3}, found |-> {},
         disconnects |-> FALSE, linkChanges |-> 0, budget |-> [c \in MCClients |-> 3],
         commands |-> [c \in MCClients |-> {}]]

\* Two phones on one loco, both with the heartbeat on, either may vanish; the
\* link may go away for a while or for good.
Shared == [Base EXCEPT !.disconnects = TRUE, !.linkChanges = 2, !.estopSeconds = 1, !.budget = <<3, 3>>,
  !.maxMyLoco = 1, !.others = 0,
  !.commands = [c \in MCClients |->
     {Beat(TRUE), M("0", "+", "S", 3), Act("0", -1, "V", 10, TRUE)}
     \cup (IF c = 1 THEN {Act("0", 3, "X", 0, TRUE), [op |-> "Q"]} ELSE {})]]

\* Slots taken, released and taken again, under two letters, while functions
\* change: loco 3 has roster keys F0 and F1 (F1 momentary), loco 300 none.
Slots == [Base EXCEPT !.budget = <<4, 0>>, !.driven = {3}, !.others = 1,
  !.roster = [c \in {3} |-> [keys |-> {0, 1}, starred |-> {1}]],
  !.commands = [c \in MCClients |->
     {M("0", "+", "S", 3), M("1", "+", "L", 300), M("1", "+", "S", 3), M("0", "-", "*", -1),
      Act("0", -1, "F", 1, TRUE), Act("0", -1, "F", 1, FALSE), Act("1", -1, "F", 0, TRUE),
      Act("1", 300, "F", 2, TRUE), Act("1", -1, "f", 2, FALSE), Act("1", -1, "q", 0, TRUE)}]]

\* Tables too small for the locos asked for; refused addresses.
Full == [Base EXCEPT !.locoSlots = 2, !.maxMyLoco = 1, !.budget = <<3, 1>>, !.driven = {300},
  !.others = 0,
  !.commands = [c \in MCClients |->
     {M("0", "+", "S", 3), M("0", "+", "L", 300), M("0", "+", "S", 4), Act("0", -1, "V", 10, TRUE),
      Act("0", -1, "R", 0, FALSE)}
     \cup (IF c = 1 THEN {M("0", "+", "L", 3), M("0", "+", "S", 0), M("0", "+", "L", 20000),
                          M("0", "-", "S", 3)} ELSE {})]]

\* The loco on the programming track, driven away by the client that asked.
Drive == [Base EXCEPT !.found = {-1, 3, 300 + LONG_ADDR_MARKER, 3 + LONG_ADDR_MARKER},
  !.budget = <<4, 1>>, !.others = 0, !.maxMyLoco = 1,
  !.commands = [c \in MCClients |->
     {M("0", "+", "*", -1)}
     \cup (IF c = 1 THEN {Act("0", -1, "V", 10, TRUE), Beat(TRUE), Act("0", -1, "I", 0, TRUE)} ELSE {})]]

\* Metadata, turnouts and routes.
Meta == [Base EXCEPT !.turnouts = {1, 9}, !.budget = <<4, 0>>,
  !.commands = [c \in MCClients |->
     {[op |-> "HU"], [op |-> "N"], [op |-> "PRA2", on |-> TRUE], [op |-> "PRA2", on |-> FALSE],
      [op |-> "PPA", on |-> TRUE], M("0", "+", "S", 3)}
     \cup {[op |-> "PTA", id |-> i, how |-> h] : i \in {1, 9}, h \in {"T", "C", "2", ""}}]]

\* Loco 4 follows loco 3; one client holds each.
Consist == [Base EXCEPT !.leader = [c \in {4} |-> 3], !.disconnects = TRUE, !.maxMyLoco = 1, !.others = 0,
  !.commands = [c \in MCClients |->
     {M("0", "+", "S", 2 + c), Act("0", -1, "V", 10, TRUE), Beat(TRUE)}]]

\* (The LET keeps the coverage statistics of TLC from entering the sessions at every use.)
AllSessions ==
  LET all ==
    [shared |-> Shared, slots |-> Slots, full |-> Full, drive |-> Drive,
    meta |-> Meta, consist |-> Consist]
  IN  all
============================================================================
