--------------------------------- MODULE MCDCC ---------------------------------
(* Values of DCC's constants for TLC. *)
EXTENDS DCC

ThreeLocos == {3, 4, 5}
\* Two groups, a DC frequency bit and a function without a slot.
SomeFns == {0, 28, 30, 40}
SlowOrDefault == {1, 255}
\* F0 and F2, F5 and F7, F9, F13, F21 and F28.
SomeFnBytes == {<<146>>, <<181>>, <<161>>, <<222, 1>>, <<223, 129>>}

Users(ops, locos, revs, speeds, dirs, n, longest) ==
    [ops |-> ops, locos |-> locos, revs |-> revs, speeds |-> speeds, dirs |-> dirs, cmds |-> n,
     gap |-> longest]

\* More locos than slots; the estop lock with everything that may drive a loco;
\* momentum, with time passing; consists driven and locked; functions
\* one by one and by groups.
\* (The LET keeps the coverage statistics of TLC from entering the sessions at every use.)
AllSessions ==
    LET all ==
      [table |-> Users({"throttle", "consist", "add", "forget"}, {3, 4, 5}, {FALSE}, {3}, {TRUE},
                       4, 0),
       lock |-> Users({"throttle", "estop", "lock", "consist", "save", "dc", "forget"},
                      {3, 4}, {TRUE}, {0, 3}, BOOLEAN, 3, 0),
       ramp |-> Users({"throttle", "momentum"}, {3}, {}, {-1, 0, 3}, BOOLEAN, 3, 1),
       defaults |-> Users({"throttle", "momentum", "default"}, {3}, {}, {3}, BOOLEAN, 3, 1),
       together |-> Users({"throttle", "consist", "add", "lock"}, {3, 4}, BOOLEAN, {3}, BOOLEAN,
                          4, 0),
       functions |-> Users({"function", "freq", "forget"}, {3, 4}, {}, {}, {}, 3, 0),
       groups |-> Users({"group", "forget"}, {3}, {}, {}, {}, 2, 0)]
    IN  all

\* dccalize undoes normalize on every speed code the table holds, the
\* top reverse one, which dccalize reaches through its clamp, included.
ASSUME NormalizeRoundTrip == \A c \in SpeedCode : dccalize(normalize(c)) = c
=============================================================================
