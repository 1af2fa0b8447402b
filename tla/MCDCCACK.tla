------------------------------ MODULE MCDCCACK ------------------------------
(* Values of DCCACK's constants for TLC. *)
EXTENDS DCCACK

Req(user, kind, cv, bit, val) ==
    [user |-> user, kind |-> kind, cv |-> cv, bit |-> bit, val |-> val,
     params |-> 0]
Parser(kind, cv, bit, val) == Req("parser", kind, cv, bit, val)
WiThrottle == Req("WiThrottle", "getDriveawayLocoId", 0, 0, 0)
Exrail == Req("EXRAIL", "getDriveawayLocoId", 0, 0, 0)

ReadId == {Parser("getLocoId", 0, 0, 0)}
ReadConsistId == {Parser("getConsistId", 0, 0, 0)}
ReadDriveaway == {Parser("getDriveawayLocoId", 0, 0, 0)}
SetIds ==
    {Parser("setLocoId", 0, 0, id) : id \in {0, 3, 127, 128, 10239, 10240}}
    \union {Parser("setConsistId", 0, 0, id) : id \in {-1, 0, 99, 127, 128, 10239}}
    \union {Parser("setConsistIdReverse", 0, 0, id) : id \in {0, 100, 1201}}
ByteRequests ==
    {Parser("readCV", cv, 0, 0) : cv \in {5, 6}}
    \union {Parser("verifyCVByte", 5, 0, v) : v \in {0, 170}}
    \union {Parser("writeCVByte", cv, 0, 85) : cv \in {5, 6}}
BitRequests ==
    {Parser(k, 5, b, v) : k \in {"verifyCVBit", "writeCVBit"}, b \in {0, 7, 8},
                          v \in {0, 1}}
    \union {Parser("readCVBit", 5, b, 0) : b \in {0, 7, 8}}
AllRequests ==
    ReadId \union ReadConsistId \union ReadDriveaway \union SetIds
    \union ByteRequests \union BitRequests
\* Requests whose answers do not depend on an acknowledgement that stays away.
LossyRequests == SetIds \union ByteRequests \union BitRequests

\* One CV, with values that exercise the first and the last bits.
OneCV == {[n \in {5} |-> v] : v \in {0, 1, 64, 127, 128, 170, 254, 255}}

\* A loco decoder: address, consist, and whether it has CVs 19 and 20.
Loco(id, c19, c20, has) ==
    [n \in {1, 17, 18, 29} \union has |->
        CASE n = 1 -> IF id <= 127 THEN id ELSE 3
          [] n = 17 -> IF id <= 127 THEN 192 ELSE 192 + (id \div 256)
          [] n = 18 -> IF id <= 127 THEN 0 ELSE id % 256
          [] n = 29 -> IF id <= 127 THEN 6 ELSE 38
          [] n = 19 -> c19
          [] n = 20 -> c20]
LocoDecoders ==
    {Loco(id, c19, c20, has) :
        id \in {3, 128, 10239}, c19 \in {0, 128, 227}, c20 \in {0, 12, 255},
        has \in {{}, {19}, {19, 20}}}
FewLocos ==
    {Loco(id, c19, c20, {19, 20}) : id \in {3, 1000}, c19 \in {0, 227},
                                    c20 \in {0, 12}}
AllDecoders == OneCV \union LocoDecoders
LossyDecoders == {d \in OneCV : d[5] \in {0, 128, 170, 255}} \union FewLocos
PlainLoco == {Loco(3, 0, 0, {19, 20})}
SmallDecoders == {[n \in {5} |-> 1]}

AnyTrack == {"ok", "none", "nosense"}
On == {[power |-> "ON", joined |-> FALSE]}
\* Joined and off is a joined track that SET_POWER switched off.
AnyRails == [power : {"ON", "OFF"}, joined : BOOLEAN]

\* Short programs for the sessions about power, join and users.
ShortRequests ==
    {Parser("readCVBit", 5, 0, 0), Parser("readCVBit", 6, 0, 0),
     Parser("writeCVBit", 5, 0, 0), Parser("readCVBit", 5, 8, 0)}
W3 == [Parser("writeCVByte", 5, 0, 1) EXCEPT !.params = 3]
ManyUsers ==
    {WiThrottle, Exrail, Parser("writeCVBit", 5, 0, 0),
     Parser("writeCVBit", 1, 0, 0), W3}

Session(requests, decoders, ackers, tracks, rails, n, retries, nLosses, nFaults, nCmds) ==
    [requests |-> requests, decoders |-> decoders, writeAckers |-> ackers,
     tracks |-> tracks, rails |-> rails, maxRequests |-> n, ackRetry |-> retries,
     maxLosses |-> nLosses, maxFaults |-> nFaults, maxCmds |-> nCmds]

\* Every request on every decoder; acknowledgements missed; power commands and
\* overloads in the middle of a program; users that break into each other.
\* (The LET keeps the coverage statistics of TLC from entering the sessions at every use.)
AllSessions ==
    LET all ==
      [values |-> Session(AllRequests, AllDecoders, BOOLEAN, {"ok"}, On, 1, 0, 0, 0, 0),
       lossy |-> Session(LossyRequests, LossyDecoders, BOOLEAN, {"ok"}, On, 1, 1, 2, 0, 0),
       power |-> Session(ShortRequests, SmallDecoders, {TRUE}, AnyTrack, AnyRails, 2, 1, 0, 1, 1),
       users |-> Session(ManyUsers, PlainLoco, {TRUE}, AnyTrack, AnyRails,
                         3, 0, 0, 0, 0)]
    IN  all
=============================================================================
