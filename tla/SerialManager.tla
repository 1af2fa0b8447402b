---------------------------- MODULE SerialManager ----------------------------
(***************************************************************************)
(* SerialManager.cpp: commands from a serial line.  line holds the command *)
(* being collected: payload is 0 outside a command, 1 in it, more in a     *)
(* string.  typed is the commands of the line not yet obeyed; one that is  *)
(* obeyed and was not typed so is added to strange.                        *)
(***************************************************************************)
EXTENDS CommandDistributor

CONSTANT
    COMMAND_BUFFER_SIZE

ASSUME SerialAssumption == COMMAND_BUFFER_SIZE \in Nat \ {0, 1}

NewLine == [line |-> [payload |-> 0, buffer |-> <<>>], typed |-> <<>>]

Typed(x, cmd) ==
    LET at == {i \in DOMAIN x.typed : x.typed[i] = cmd}
    IN  IF at = {} THEN [x EXCEPT !.strange = @ \cup {<<cmd>>}]
        ELSE [x EXCEPT !.typed = SubSeq(@, Min(at) + 1, Len(@))]

\* The whole command is there: it is parsed with its trailing '>'.
parseLine(x) ==
    LET y == Typed(x, x.line.buffer)
    IN  [ObeyAll(y, FALSE, x.line.buffer) EXCEPT !.line.payload = 0]

\* A character inside a command, when there is room for it.
collect(x, ch) ==
    LET y == [x EXCEPT !.line.buffer = Append(@, ch)]
        long == x.line.payload > COMMAND_BUFFER_SIZE \div 2
    IN  IF x.line.payload > 1 /\ long THEN parseLine(y)
        ELSE IF x.line.payload > 1 THEN [y EXCEPT !.line.payload = IF ch = 34 THEN 1 ELSE @ + 1]
        ELSE IF ch = 62 THEN parseLine(y)
        ELSE [y EXCEPT !.line.payload = IF ch = 34 THEN 2 ELSE @]

readLine(x, ch) ==
    IF x.line.payload = 0
    THEN IF ch = 60 THEN [x EXCEPT !.line = [payload |-> 1, buffer |-> <<>>]] ELSE x
    ELSE IF Len(x.line.buffer) < COMMAND_BUFFER_SIZE - 1 THEN collect(x, ch)
    ELSE [x EXCEPT !.line.payload = 0]

\* loop2 of the line: what has arrived is read up to the end of a command.
loopLine(x, bytes) ==
    FoldLeft(LAMBDA s, ch : IF s.parsed THEN [s EXCEPT !.rest = Append(@, ch)]
                            ELSE LET y == readLine(s.x, ch)
                                 IN  [s EXCEPT !.x = y, !.parsed = s.x.line.payload > 0 /\ y.line.payload = 0],
             [x |-> x, parsed |-> FALSE, rest |-> <<>>], bytes)
=============================================================================
