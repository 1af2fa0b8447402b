----------------------------- MODULE MCTrackPower -----------------------------
(* Instances of TrackPower for TLC. *)
EXTENDS TrackPower

Users(tracks, common, loads, hasty, programs, n, low, high, current, alertGood, allGood, wait, most) ==
    [tracks |-> tracks, commonFault |-> common, loads |-> loads, hasty |-> hasty,
     programs |-> programs, commands |-> n, IGNORE_FAULT_LOW |-> low, IGNORE_FAULT_HIGH |-> high,
     IGNORE_CURRENT |-> current, ALERT_GOOD |-> alertGood, ALL_GOOD |-> allGood,
     OVERLOAD_WAIT |-> wait, RETRY_MAX |-> most]

\* One track with every load and different limits; one track and commands at
\* any moment; two tracks; two tracks on one fault pin, with waits that differ;
\* programs on a main and a programming track, and on a track with shorts.
\* (The LET keeps the coverage statistics of TLC from entering the sessions at every use.)
AllSessions ==
    LET all ==
      [one |-> Users({0}, {}, LOAD, FALSE, FALSE, 4, 3, 1, 2, 2, 3, 2, 5),
       hasty |-> Users({0}, {}, {"none", "fault", "short"}, TRUE, FALSE, 4, 2, 1, 1, 1, 1, 1, 2),
       two |-> Users({0, 1}, {}, {"none", "short"}, FALSE, FALSE, 2, 1, 1, 1, 1, 1, 1, 1),
       common |-> Users({0, 1}, {0, 1}, {"none", "short"}, TRUE, FALSE, 1, 1, 1, 1, 1, 1, 1, 2),
       service |-> Users({0, 1}, {}, {"none"}, TRUE, TRUE, 3, 1, 1, 1, 1, 1, 1, 1),
       shorted |-> Users({0}, {}, {"none", "short"}, TRUE, TRUE, 3, 1, 1, 1, 1, 1, 1, 1)]
    IN  all
=============================================================================
