--------------------------- MODULE MCNetworkClients ---------------------------
(***************************************************************************)
(* Two ids and up to three connections.  The rings are a few bytes longer  *)
(* than one or two messages, so that they wrap in every session; in `at`   *)
(* the reply of command 3 does not fit and is thrown away.                 *)
(***************************************************************************)
EXTENDS NetworkClients

MCFlashAt == [a \in {7} |-> <<4, 8>>]

MCCommands ==
    [b \in {3, 5, 6, 9, 11, 12, 14} |->
        CASE b = 3  -> [kind |-> "reply", n |-> 7]
          [] b = 5  -> [kind |-> "reply", n |-> 2]
          [] b = 6  -> [kind |-> "flash", n |-> 1]
          [] b = 9  -> [kind |-> "change", n |-> 1]
          [] b = 11 -> [kind |-> "drive", n |-> 1]
          [] b = 12 -> [kind |-> "later", n |-> 1]
          [] b = 14 -> [kind |-> "screen", n |-> 0]]

Cmd(b) == <<60, b>>
Throttle(b) == <<78, b>>
Upgrade == <<71, 83, 107, 7, CR, LF, CR>>
Frame(b) == <<129, 32, 60 ^^ 32, b ^^ 32>>
Ping == <<137, 32>>
Bye == <<136, 32>>
Line(b) == <<60, b, 62>>
Quoted(b) == <<60, b, 34, 62, 60, 34, 62>>
Long == <<60, 50, 50, 50, 50, 50, 50, 50, 50, 50, 62>>

Nothing == [busy |-> 0, link |-> 0, lease |-> 0, broadcast |-> 0, screen |-> 0]
Quiet == <<>>

\* (The LET keeps the coverage statistics of TLC from entering the sessions at every use.)
AllSessions ==
    LET all ==
      [at    |-> [front |-> "at", len |-> 9, inbound |-> 9, chunks |-> {3, 5}, closes |-> {2}, lines |-> Quiet,
                  packets |-> <<<<Cmd(3), Cmd(5)>>, <<Throttle(6)>>>>,
                  left |-> [Nothing EXCEPT !.busy = 1]],
       atWeb |-> [front |-> "at", len |-> 20, inbound |-> 10, chunks |-> {5}, closes |-> {}, lines |-> Quiet,
                  packets |-> <<<<Upgrade, Frame(5)>>, <<Cmd(14)>>>>,
                  left |-> [Nothing EXCEPT !.busy = 1, !.screen = 1]],
       atLater |-> [front |-> "at", len |-> 24, inbound |-> 12, chunks |-> {3, 4}, closes |-> {}, lines |-> <<Line(9)>>,
                  packets |-> <<<<Cmd(12)>>, <<Throttle(11)>>>>,
                  left |-> Nothing],
       ether |-> [front |-> "ethernet", len |-> 40, inbound |-> 0, chunks |-> {}, closes |-> {1}, lines |-> Quiet,
                  packets |-> <<<<Cmd(14)>>, <<Throttle(6)>>, <<Cmd(12)>>>>,
                  left |-> [Nothing EXCEPT !.link = 1, !.lease = 1, !.screen = 1]],
       lease |-> [front |-> "ethernet", len |-> 40, inbound |-> 0, chunks |-> {}, closes |-> {1, 2}, lines |-> Quiet,
                  packets |-> <<<<Cmd(5), Cmd(12)>>, <<Throttle(6)>>>>,
                  left |-> [Nothing EXCEPT !.lease = 1]],
       stm32 |-> [front |-> "stm32", len |-> 40, inbound |-> 0, chunks |-> {}, closes |-> {1, 2}, lines |-> Quiet,
                  packets |-> <<<<Cmd(9)>>, <<Throttle(11)>>, <<Cmd(5)>>>>,
                  left |-> [Nothing EXCEPT !.broadcast = 1]],
       esp   |-> [front |-> "esp32", len |-> 40, inbound |-> 0, chunks |-> {}, closes |-> {1}, lines |-> Quiet,
                  packets |-> <<<<Upgrade, Frame(9), Ping, Bye>>, <<Cmd(12)>>, <<Throttle(5)>>>>,
                  left |-> [Nothing EXCEPT !.link = 1]],
       line  |-> [front |-> "esp32", len |-> 40, inbound |-> 0, chunks |-> {}, closes |-> {}, packets |-> <<<<Cmd(5)>>>>,
                  lines |-> <<Line(14), Quoted(9), Long, Line(12), Line(11)>>,
                  left |-> [Nothing EXCEPT !.broadcast = 1]]]
    IN  all
=============================================================================
