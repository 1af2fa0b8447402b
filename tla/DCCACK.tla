-------------------------------- MODULE DCCACK --------------------------------
(***************************************************************************)
(* DCCACK.cpp: the ack manager, which runs the programs of AckProgs on the *)
(* programming track, and its users: the <W V B R> commands of             *)
(* DCCEXParser, the M+* command of WiThrottle and READ_LOCO of EXRAIL.     *)
(*                                                                         *)
(* One call of loop() runs operations until one of them returns; inLoop is *)
(* TRUE between two operations of the same call, when no other code of the *)
(* main program can run.  Interrupts come at any time.  The reset counter  *)
(* is kept as ready: as many resets were sent as the next operation waits  *)
(* for.  POWERMODE::ALERT is counted as ON.                                *)
(***************************************************************************)
EXTENDS AckProgs, FiniteSetsExt

Modes == {"ON", "OFF", "OVERLOAD"}

CONSTANT
    Sessions      \* bound: the kinds of behaviour

\* A behaviour is one session, Sessions[session], a record of
\*   requests       the requests the users may make, at most maxRequests of them;
\*   decoders       the decoders that may be on the track, as their CVs;
\*   writeAckers    a subset of BOOLEAN: does the decoder acknowledge writes?
\*   tracks         a subset of {"ok", "none", "nosense"}: the prog track;
\*   rails          [power, joined] records: the rails when it begins;
\*   ackRetry       retries of a failed program (2);
\*   maxLosses, maxFaults, maxCmds
\*                  bounds: acknowledgements missed, overloads, power commands.

\* The users only make requests that DCC.cpp has a wrapper for, with numbers as
\* parameters, on a track in one of its power modes.
ASSUME RequestAssumption ==
    \A s \in DOMAIN Sessions :
        /\ \A r \in Sessions[s].requests : r.kind \in Kinds /\ r.bit \in Int /\ r.val \in Int
        /\ \A r \in Sessions[s].rails : r.power \in Modes /\ r.joined \in BOOLEAN

NULL == "NULL"

VARIABLES
    m,              \* the ackManager... variables, autoPowerOff and ackReceived
    callbackState,
    elapsed,        \* millis() - callbackStart, as far as callback looks
    ack,            \* getAck(): 0 no ack, 1 ack, 2 still waiting
    ackComes,       \* the decoder acknowledges the packet on the track
    ready,
    inLoop,
    power, joined,  \* of the prog track
    session,
    cvs, ackWrites, track,
    stashBusy,      \* DCCEXParser::stashBusy
    asked,          \* the requests so far
    answers,        \* the callbacks so far: [id, value]
    losses, faults, cmds,
    before,         \* the rails when the manager was last idle, whether only the
                    \* manager has touched them since (clean), and whether no
                    \* second request has broken into the program (alone)
    since,          \* ms since the power was switched, as far as it matters
    offFor,         \* ms of the last power cut since a packet was sent
    held            \* ms since the last write was sent

isrVars == <<ack, ackComes, ready>>
railVars == <<power, joined, since, offFor>>
writeVars == <<cvs, held, losses>>
decoderVars == <<session, cvs, ackWrites, track, held>>
userVars == <<stashBusy, asked, answers>>
bounds == <<losses, faults, cmds>>
vars == <<m, callbackState, elapsed, isrVars, inLoop, railVars, decoderVars,
          userVars, bounds, before>>

S == Sessions[session]

Idle == m.prog = NULL

Init ==
    /\ session \in DOMAIN Sessions
    /\ m = [prog |-> NULL, pc |-> 1, cv |-> 0, byte |-> 0, verify |-> 0,
            bit |-> 0, stash |-> 0, word |-> 0, retry |-> 0, got |-> FALSE,
            rejoin |-> FALSE, autoOff |-> FALSE, cb |-> 0]
    /\ callbackState = "READY" /\ elapsed = 0
    /\ ack = 0 /\ ackComes = FALSE /\ ready = FALSE /\ inLoop = FALSE
    /\ \E r \in S.rails : power = r.power /\ joined = r.joined
    /\ since = 100 /\ offFor = 0 /\ held = 100
    /\ cvs \in S.decoders /\ ackWrites \in S.writeAckers /\ track \in S.tracks
    /\ stashBusy = FALSE /\ asked = <<>> /\ answers = <<>>
    /\ losses = 0 /\ faults = 0 /\ cmds = 0
    /\ before = [power |-> power, joined |-> joined, clean |-> TRUE, alone |-> TRUE]

-----------------------------------------------------------------------------
(* The rails. *)

\* MotorDriver::setPower; switching on clears the resets of the prog track.
setPower(p) ==
    /\ power' = p
    /\ since' = IF p = power THEN since ELSE 0
    /\ offFor' = IF power = "OFF" /\ p = "ON" THEN since ELSE offFor
    /\ ready' = (ready /\ (p = power \/ p # "ON"))

\* <1 PROG>, <0 PROG> and <1 JOIN>, and SET_POWER of EXRAIL, which can switch a
\* track off without ending the join.
powerCommand ==
    /\ ~inLoop /\ cmds < S.maxCmds /\ track = "ok"
    /\ \E p \in {"ON", "OFF"}, j \in BOOLEAN :
          /\ j => p = "ON" \/ joined
          /\ setPower(p) /\ joined' = j
    /\ cmds' = cmds + 1
    /\ before' = [before EXCEPT !.clean = FALSE]
    /\ UNCHANGED <<m, callbackState, elapsed, ack, ackComes, inLoop, decoderVars,
                   userVars, losses, faults>>

\* MotorDriver::checkPowerOverload cuts the power ...
overload ==
    /\ ~inLoop /\ faults < S.maxFaults /\ power = "ON" /\ track = "ok"
    /\ setPower("OVERLOAD")
    /\ faults' = faults + 1
    /\ before' = [before EXCEPT !.clean = FALSE]
    /\ UNCHANGED <<m, callbackState, elapsed, ack, ackComes, inLoop, joined,
                   decoderVars, userVars, losses, cmds>>

\* ... and tries again later.
overloadOver ==
    /\ ~inLoop /\ power = "OVERLOAD"
    /\ setPower("ON")
    /\ before' = [before EXCEPT !.clean = FALSE]
    /\ UNCHANGED <<m, callbackState, elapsed, ack, ackComes, inLoop, joined,
                   decoderVars, userVars, bounds>>

-----------------------------------------------------------------------------
(* Requests. *)

\* The callback of request id is called with value v, the rails being p and j.
\* WiThrottle::getLocoCallback joins the tracks to drive a found loco away;
\* the parser's callbacks all end in commitAsyncReplyStream.
DriveAway(id, v) ==
    /\ asked'[id].user = "WiThrottle"
    /\ v > 0 /\ (v < LONG_ADDR_MARKER \/ v - LONG_ADDR_MARKER > HIGHEST_SHORT_ADDR)

Answer(id, v, p, j) ==
    /\ answers' = Append(answers, [id |-> id, value |-> v])
    /\ stashBusy' = (stashBusy /\ asked'[id].user # "parser")
    /\ setPower(IF DriveAway(id, v) THEN "ON" ELSE p)
    /\ joined' = (j \/ DriveAway(id, v))

\* DCCACK::Setup; its first lines take the prog track out of the join.
SetupNow(r, id) ==
    /\ track = "ok"
    /\ m' = [m EXCEPT !.rejoin = joined, !.autoOff = (power = "OFF"),
                      !.cv = Job(r).cv, !.prog = Job(r).prog, !.pc = 1,
                      !.retry = S.ackRetry, !.byte = Job(r).byte,
                      !.verify = Job(r).byte, !.bit = Job(r).byte, !.cb = id,
                      !.word = IF Job(r).word = {} THEN @
                               ELSE CHOOSE w \in Job(r).word : TRUE]
    /\ LET p == IF power = "OFF" THEN "ON" ELSE power
       IN  /\ power' = p
           /\ since' = IF p = power THEN since ELSE 0
           /\ offFor' = IF p = power THEN offFor ELSE since
           /\ ready' = (ready /\ p = power /\ ~joined)
    /\ joined' = FALSE
    /\ before' = IF Idle THEN [power |-> power, joined |-> joined, clean |-> TRUE,
                               alone |-> TRUE]
                 ELSE [before EXCEPT !.alone = FALSE]
    /\ stashBusy' = (stashBusy \/ r.user = "parser")
    /\ UNCHANGED answers

\* No prog track, or one that cannot measure current: the callback is called
\* at once and the manager is left as it was, but for ackManagerRejoin.
SetupFails(r, id) ==
    /\ track # "ok"
    /\ m' = [m EXCEPT !.rejoin = joined]
    /\ IF track = "none" THEN Answer(id, -3, power, FALSE)
                         ELSE Answer(id, -2, power, joined)
    /\ UNCHANGED before

\* The wrappers of DCC.cpp answer at once to a bit or an address out of range.
Reject(r, id) == Answer(id, -1, power, joined) /\ UNCHANGED <<m, before>>

\* A user asks.  The parser refuses while its stash is taken; the other users
\* do not look whether the manager is busy.
request ==
    /\ ~inLoop /\ Len(asked) < S.maxRequests
    /\ \E r \in S.requests :
          /\ r.user = "parser" => ~stashBusy
          /\ asked' = Append(asked, r)
          /\ \/ Rejected(r) /\ Reject(r, Len(asked) + 1)
             \/ ~Rejected(r) /\ r.params # 3 /\ SetupNow(r, Len(asked) + 1)
             \/ ~Rejected(r) /\ r.params # 3 /\ SetupFails(r, Len(asked) + 1)
             \* <W CV VALUE CALLBACKNUM> takes the stash, then leaves with <X>.
             \/ /\ r.params = 3
                /\ stashBusy' = TRUE
                /\ UNCHANGED <<m, answers, ready, railVars, before>>
    /\ UNCHANGED <<callbackState, elapsed, ack, ackComes, inLoop, decoderVars,
                   bounds>>

-----------------------------------------------------------------------------
(* DCCACK::callback, called with value v and the manager being mm. *)

\* Mutant: retries without counting them.
retry_Forever(mm, v) ==
    /\ v = -1 /\ mm.retry > 0
    /\ m' = [mm EXCEPT !.pc = 1]
    /\ UNCHANGED <<callbackState, elapsed, ready, railVars, userVars>>

retry(mm, v) ==
    /\ v = -1 /\ mm.retry > 0
    /\ m' = [mm EXCEPT !.retry = @ - 1, !.pc = 1]
    /\ UNCHANGED <<callbackState, elapsed, ready, railVars, userVars>>

wait(state) ==
    /\ callbackState' = state /\ elapsed' = 0
    /\ UNCHANGED userVars

cutPower == setPower("OFF") /\ UNCHANGED joined /\ wait("WAITING_30")

toReady(p) ==
    /\ callbackState' = "READY"
    /\ setPower(p)
    /\ UNCHANGED <<joined, elapsed, userVars>>

afterRead(mm) ==
    /\ callbackState = "AFTER_READ"
    /\ IF mm.rejoin /\ ~mm.autoOff THEN cutPower ELSE toReady(power)

afterWrite(mm) ==
    /\ callbackState = "AFTER_WRITE"
    /\ IF mm.rejoin \/ mm.autoOff
       THEN wait("WAITING_100") /\ UNCHANGED <<railVars, ready>>
       ELSE toReady(power)

\* elapsed is too short: stay.
waiting ==
    /\ \/ callbackState = "WAITING_100" /\ elapsed < 100
       \/ callbackState = "WAITING_30" /\ elapsed < 30
    /\ UNCHANGED <<callbackState, elapsed, ready, railVars, userVars>>

waited100(mm) ==
    /\ callbackState = "WAITING_100" /\ elapsed >= 100
    /\ IF mm.autoOff THEN toReady(power) ELSE cutPower

waited30 == callbackState = "WAITING_30" /\ elapsed >= 30 /\ toReady("ON")

\* Mutant: the join is not restored.
finish_NoRejoin(mm, v) ==
    /\ callbackState = "READY"
    /\ UNCHANGED <<callbackState, elapsed, asked>>
    /\ Answer(mm.cb, v, IF mm.autoOff THEN "OFF" ELSE power, joined)

\* The callback: power and join are restored first.
finish(mm, v) ==
    /\ callbackState = "READY"
    /\ UNCHANGED <<callbackState, elapsed, asked>>
    /\ Answer(mm.cb, v, IF mm.autoOff THEN "OFF" ELSE power, joined \/ mm.rejoin)

\* Mutant: the program is not ended.
Ended_Again(mm) == mm

\* ackManagerProg after the call: NULL once the callback was called.
Ended(mm) == IF callbackState = "READY" THEN [mm EXCEPT !.prog = NULL] ELSE mm

callback(mm, v) ==
    /\ inLoop' = FALSE
    /\ \/ retry(mm, v)
       \/ /\ ~(v = -1 /\ mm.retry > 0)
          /\ m' = Ended(mm)
          /\ \/ afterRead(mm) \/ afterWrite(mm) \/ waiting
             \/ waited100(mm) \/ waited30 \/ finish(mm, v)

-----------------------------------------------------------------------------
(* DCCACK::loop: one operation. *)

Op == Programs[m.prog][m.pc]
At(names) == ~Idle /\ Op[1] \in names

loopVars == <<callbackState, elapsed, ready, railVars, userVars>>

\* return: stay on the same operation.
Return == inLoop' = FALSE /\ UNCHANGED <<m, ack, ackComes, loopVars, writeVars>>

\* break: step to the next operation.
Break(mm) ==
    /\ m' = [mm EXCEPT !.pc = @ + 1] /\ inLoop' = TRUE
    /\ UNCHANGED <<ack, ackComes, loopVars, writeVars>>

Skip(mm) == Break([mm EXCEPT !.pc = SkipFrom(Programs[mm.prog], @)])

Call(mm, v) == callback(mm, v) /\ UNCHANGED <<ack, ackComes, writeVars>>

\* With a rejoin or a power off to come it waits for 20 resets, over 100 ms.
BASELINE ==
    /\ At({"BASELINE"})
    /\ \/ (power = "OVERLOAD" \/ ~ready) /\ Return
       \/ /\ power # "OVERLOAD" /\ ready
          /\ callbackState' = "AFTER_READ"
          /\ held' = IF m.autoOff \/ m.rejoin THEN 100 ELSE held
          /\ m' = [m EXCEPT !.pc = @ + 1] /\ inLoop' = TRUE
          /\ UNCHANGED <<ack, ackComes, elapsed, ready, railVars, userVars, cvs,
                         losses>>

Writes == {"W0", "W1", "WB"}

\* Schedule the packet and open the ack window.  The decoder hears it on a
\* powered track that is not joined; the acknowledgement may be missed.
packet ==
    /\ At(Writes \union {"V0", "V1", "VB"})
    /\ \/ ~ready /\ Return
       \/ /\ ready /\ ready' = FALSE /\ ack' = 2 /\ offFor' = 0
          /\ LET hears == power = "ON" /\ ~joined
                 acks == /\ hears /\ Agrees(cvs, Op[1], m.cv, m.bit, m.byte)
                         /\ Op[1] \in Writes => ackWrites
             IN  /\ cvs' = IF hears THEN Written(cvs, Op[1], m.cv, m.bit, m.byte)
                           ELSE cvs
                 /\ \/ ackComes' = acks /\ UNCHANGED losses
                    \/ /\ acks /\ losses < S.maxLosses
                       /\ ackComes' = FALSE /\ losses' = losses + 1
          /\ IF Op[1] \in Writes
             THEN callbackState' = "AFTER_WRITE" /\ held' = 0
             ELSE UNCHANGED <<callbackState, held>>
          /\ m' = [m EXCEPT !.pc = @ + 1] /\ inLoop' = TRUE
          /\ UNCHANGED <<elapsed, power, joined, since, userVars>>

WACK ==
    /\ At({"WACK"})
    /\ \/ ack = 2 /\ Return
       \/ ack # 2 /\ Break([m EXCEPT !.got = (ack = 1)])

\* Mutant: a verified byte is cut to 7 bits.
Result_Cut(op) ==
    CASE op = "ITC0" -> 0
      [] op = "ITC1" -> 1
      [] op \in {"ITCB", "ITCBV", "ITCB7"} -> m.byte % 128
      [] op \in {"NAKFAIL", "CALLFAIL"} -> -1

\* What the operations that may call back answer.
Result(op) ==
    CASE op = "ITC0" -> 0
      [] op = "ITC1" -> 1
      [] op \in {"ITCB", "ITCBV"} -> m.byte
      [] op = "ITCB7" -> m.byte % 128
      [] op \in {"NAKFAIL", "CALLFAIL"} -> -1

ifAck ==
    /\ At({"ITC0", "ITC1", "ITCB", "ITCBV", "ITCB7"})
    /\ \/ m.got /\ Call(m, Result(Op[1]))
       \/ ~m.got /\ Break(m)

ifNak ==
    /\ At({"NAKFAIL", "CALLFAIL"})
    /\ \/ (Op[1] = "CALLFAIL" \/ ~m.got) /\ Call(m, Result(Op[1]))
       \/ Op[1] = "NAKFAIL" /\ m.got /\ Break(m)

COMBINELOCOID ==
    /\ At({"COMBINELOCOID"})
    /\ Call(m, LONG_ADDR_MARKER + m.byte + (m.stash - 192) * 256)

COMBINE1920 ==
    /\ At({"COMBINE1920"})
    /\ LET b == (m.byte % 128) % 100
       IN  Call([m EXCEPT !.byte = b], m.stash * 100 + b)

FAIL_IF_NONZERO_NAK ==
    /\ At({"FAIL_IF_NONZERO_NAK"})
    /\ \/ m.byte = 0 /\ Break(m)
       \/ m.byte # 0 /\ Call(m, -4)

\* MERGE: the answer of a bit test is shifted into the byte.
Merged ==
    [m EXCEPT !.byte = (2 * @ + (IF m.got THEN 0 ELSE 1)) % 256, !.bit = (@ - 1) % 256]

\* The operations on the manager's registers.
Assign(op) ==
    CASE op[1] = "BIV" -> [m EXCEPT !.byte = m.verify]
      [] op[1] = "STARTMERGE" -> [m EXCEPT !.bit = 7, !.byte = 0]
      [] op[1] = "MERGE" -> Merged
      [] op[1] = "SETBIT" -> [m EXCEPT !.bit = op[2]]
      [] op[1] = "SETCV" -> [m EXCEPT !.cv = op[2]]
      [] op[1] = "SETBYTE" -> [m EXCEPT !.byte = op[2]]
      [] op[1] = "SETBYTEH" -> [m EXCEPT !.byte = m.word \div 256]
      [] op[1] = "SETBYTEL" -> [m EXCEPT !.byte = m.word % 256]
      [] op[1] = "STASHLOCOID" -> [m EXCEPT !.stash = m.byte]
      [] op[1] = "SKIPTARGET" -> m

assign ==
    /\ At({"BIV", "STARTMERGE", "MERGE", "SETBIT", "SETCV", "SETBYTE", "SETBYTEH",
           "SETBYTEL", "STASHLOCOID", "SKIPTARGET"})
    /\ Break(Assign(Op))

Skips(op) ==
    \/ op = "ITSKIP" /\ m.got
    \/ op = "NAKSKIP" /\ ~m.got
    \/ op = "BAD20SKIP" /\ m.byte > 120

skip ==
    /\ At({"ITSKIP", "NAKSKIP", "BAD20SKIP"})
    /\ \/ Skips(Op[1]) /\ Skip(m)
       \/ ~Skips(Op[1]) /\ Break(m)

loop ==
    /\ \/ BASELINE \/ packet \/ WACK \/ ifAck \/ ifNak \/ COMBINELOCOID
       \/ COMBINE1920 \/ FAIL_IF_NONZERO_NAK \/ assign \/ skip
    /\ UNCHANGED <<session, ackWrites, track, faults, cmds, before>>

-----------------------------------------------------------------------------
(* Interrupts and time. *)

\* DCCACK::checkAck closes the ack window.
checkAck ==
    /\ ack = 2
    /\ ack' = IF ackComes /\ power = "ON" THEN 1 ELSE 0
    /\ UNCHANGED <<m, callbackState, elapsed, ackComes, ready, inLoop, railVars,
                   decoderVars, userVars, bounds, before>>

\* The waveform has sent as many resets as the next operation waits for.
resetsSent ==
    /\ ack # 2 /\ ~ready /\ ready' = TRUE
    /\ UNCHANGED <<m, callbackState, elapsed, ack, ackComes, inLoop, railVars,
                   decoderVars, userVars, bounds, before>>

Later(t) == IF t = 0 THEN 30 ELSE 100

Tick ==
    /\ callbackState \in {"WAITING_100", "WAITING_30"} /\ elapsed < 100
    /\ elapsed' = Later(elapsed) /\ since' = Later(since) /\ held' = Later(held)
    /\ UNCHANGED <<m, callbackState, isrVars, inLoop, power, joined, offFor,
                   session, cvs, ackWrites, track, userVars, bounds, before>>

Next == request \/ powerCommand \/ overload \/ overloadOver \/ loop
        \/ checkAck \/ resetsSent \/ Tick

Spec == Init /\ [][Next]_vars

\* loop() is called for ever, the waveform interrupt never stops, and an
\* overloaded track is tried again.
FairSpec ==
    /\ Spec
    /\ WF_vars(loop) /\ WF_vars(checkAck) /\ WF_vars(resetsSent)
    /\ WF_vars(Tick) /\ WF_vars(overloadOver)
-----------------------------------------------------------------------------
(* Properties. *)

Last(s) == s[Len(s)]
Answers(id) == {k \in DOMAIN answers : answers[k].id = id}
MostRequests == Max({Sessions[s].maxRequests : s \in DOMAIN Sessions})
Open == {id \in DOMAIN asked : Answers(id) = {}}

\* Only the parser has asked, and never with <W CV VALUE CALLBACKNUM>.
ParserOnly == \A id \in DOMAIN asked : asked[id].user = "parser" /\ asked[id].params # 3

\* No callback is called twice for one request, however the requests, the
\* retries and the delays of DCCACK::callback interleave; and with the parser as
\* the only user, its stash is taken exactly while one of its requests is
\* unanswered, and that request is the one being run.
AnsweredOnce ==
    /\ \A j, k \in DOMAIN answers : answers[j].id = answers[k].id => j = k
    /\ ParserOnly =>
          /\ stashBusy <=> Open # {}
          /\ Open # {} => ~Idle /\ Open = {m.cb}

\* An answer that is not an error is true of the decoder when it is given: what
\* was read is what the CVs hold, what was written is in the CVs, as long as no
\* second user breaks into a program.
AnswerTrue ==
    [][answers' # answers =>
          LET a == Last(answers')
          IN  ParserOnly' /\ a.value >= 0 => True(asked'[a.id], a.value, cvs')]_vars

\* When the manager has answered it leaves the power and the join as it found
\* them (DCCACK.cpp "Restore <1 JOIN> to state before BASELINE"), unless someone
\* else changed them, a second request broke in or WiThrottle drives the loco
\* away.  On the way DCCACK::callback cuts the power only after 100 ms of power
\* since the last write, and rejoins a powered track only after 30 ms off since
\* the last packet, unless someone else switched the power meanwhile or
\* WiThrottle drives the loco away.
Restored ==
    /\ [][(~Idle /\ m'.prog = NULL /\ before.clean /\ before.alone
             /\ ~DriveAway(m.cb, Last(answers').value))
             => power' = before.power /\ joined' = before.joined]_vars
    /\ [][loop /\ before.clean =>
             /\ (power = "ON" /\ power' = "OFF") => held >= 100
             /\ (~joined /\ joined' /\ m.rejoin /\ power' = "ON"
                   /\ ~DriveAway(m.cb, Last(answers').value)) => offFor >= 30]_vars

\* Every request of the parser is answered in the end, whatever the decoder does
\* and whether or not the track is overloaded for a while.
Answered ==
    \A id \in 1..MostRequests :
        id \in DOMAIN asked ~> Answers(id) # {} \/ ~ParserOnly

=============================================================================
