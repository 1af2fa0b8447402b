--------------------------- MODULE DCCACKRailProofs ---------------------------
(***************************************************************************)
(* The ack manager stays inside its programs, and restores the power and   *)
(* the join of the programming track in time, for any requests, decoders,  *)
(* tracks, rails, retries and bounds.                                      *)
(***************************************************************************)
EXTENDS DCCACKProofs

-----------------------------------------------------------------------------
(* The rails.                                                              *)

Times == {0, 30, 100}

RailTypes ==
    /\ power \in Modes /\ joined \in BOOLEAN
    /\ since \in Times /\ offFor \in Times /\ held \in Times /\ elapsed \in Times
    /\ DOMAIN before = {"power", "joined", "clean", "alone"}
    /\ before.power \in Modes /\ before.joined \in BOOLEAN

\* The value v makes DCCACK::callback run the program again.
Again(v) == v = -1 /\ m.retry > 0

\* The operation at pc calls back, to answer and not to run the program again.
Calling ==
    \/ At({"ITC0", "ITC1", "ITCB", "ITCBV", "ITCB7"}) /\ m.got /\ ~Again(Result(Op[1]))
    \/ At({"NAKFAIL", "CALLFAIL"}) /\ (Op[1] = "CALLFAIL" \/ ~m.got) /\ ~Again(Result(Op[1]))
    \/ At({"COMBINELOCOID"}) /\ ~Again(LONG_ADDR_MARKER + m.byte + (m.stash - 192) * 256)
    \/ At({"COMBINE1920"}) /\ ~Again(m.stash * 100 + ((m.byte % 128) % 100))
    \/ At({"FAIL_IF_NONZERO_NAK"}) /\ m.byte # 0 /\ ~Again(-4)

\* BASELINE is behind the manager.
Begun == ~Idle /\ m.pc # 1

\* Only an operation that calls back finds callbackState past the programs' own.
Waits ==
    /\ Idle => callbackState = "READY"
    /\ ~Idle => track = "ok"
    /\ Begun /\ callbackState \in {"READY", "WAITING_100", "WAITING_30"} => Calling

\* How long the power has been on since the last write, and off since the last packet.
Delays ==
    /\ callbackState = "WAITING_100" => elapsed <= held
    /\ Begun /\ callbackState = "AFTER_READ" /\ (m.rejoin \/ m.autoOff) => held >= 100
    /\ Begun /\ callbackState = "READY" /\ m.autoOff => held >= 100
    /\ Begun /\ callbackState = "WAITING_30" => ~m.autoOff
    /\ Begun /\ callbackState = "WAITING_30" /\ before.clean => power = "OFF" /\ since >= elapsed
    /\ Begun /\ callbackState = "READY" /\ before.clean /\ m.rejoin /\ ~m.autoOff
         /\ power = "ON" => offFor >= 30

\* While it runs alone on rails that nobody else touches, the manager remembers the
\* rails as they were, and has them on and not joined, but for the cut before a rejoin.
Remembers ==
    ~Idle /\ before.clean /\ before.alone =>
        /\ m.rejoin <=> before.joined
        /\ m.autoOff <=> before.power = "OFF"
        /\ ~joined
        /\ callbackState = "WAITING_30" => power = "OFF" /\ before.power = "ON" /\ m.pc # 1
        /\ callbackState # "WAITING_30" =>
             power = IF before.power = "OFF" THEN "ON" ELSE before.power
        /\ callbackState # "READY" => before.power # "OVERLOAD"

RailInv == Control /\ RailTypes /\ Waits /\ Delays /\ Remembers
-----------------------------------------------------------------------------
(* What one operation of a program does to the rails.                      *)

RailLeft == UNCHANGED <<callbackState, elapsed, railVars, held>>
Kept == m'.prog = m.prog /\ m'.rejoin = m.rejoin /\ m'.autoOff = m.autoOff

\* Nothing; another operation or another try; BASELINE; a packet; a call back that
\* waits or answers.
ReturnStep == m' = m /\ RailLeft

BreakStep == Begun /\ ~Calling /\ Kept /\ RailLeft

BaseStep ==
    /\ ~Idle /\ ~Calling /\ Kept
    /\ power # "OVERLOAD"
    /\ callbackState' = "AFTER_READ"
    /\ held' = IF m.autoOff \/ m.rejoin THEN 100 ELSE held
    /\ UNCHANGED <<elapsed, railVars>>

PacketStep ==
    /\ Begun /\ ~Calling /\ Kept
    /\ \/ callbackState' = "AFTER_WRITE" /\ held' = 0
       \/ UNCHANGED <<callbackState, held>>
    /\ offFor' = 0
    /\ UNCHANGED <<elapsed, power, joined, since>>

WaitStep ==
    /\ Begun /\ Calling /\ Kept /\ Begun' /\ Calling'
    /\ UNCHANGED held
    /\ afterRead(m) \/ afterWrite(m) \/ waiting \/ waited100(m) \/ waited30

AnswerStep ==
    /\ Begun /\ Calling /\ callbackState = "READY"
    /\ m'.prog = NULL
    /\ UNCHANGED <<callbackState, elapsed, held>>
    /\ LET drive == DriveAway(m.cb, Last(answers').value)
       IN  /\ setPower(IF drive THEN "ON" ELSE IF m.autoOff THEN "OFF" ELSE power)
           /\ joined' = ((joined \/ m.rejoin) \/ drive)

OpStep ==
    \/ ReturnStep \/ BreakStep \/ BaseStep \/ PacketStep \/ WaitStep \/ AnswerStep

\* Registers mm with which the manager's program goes on.
Regs(mm) ==
    /\ Fields \subseteq DOMAIN mm
    /\ mm.prog = m.prog /\ mm.rejoin = m.rejoin /\ mm.autoOff = m.autoOff /\ mm.cb = m.cb
    /\ mm.byte \in Int /\ mm.verify \in Int /\ mm.word \in Int

Running(mm) ==
    Regs(mm) /\ mm.pc \in DOMAIN Programs[m.prog]

\* The first operation is BASELINE.
LEMMA FirstOp ==
    ASSUME Control, ~Idle, m.pc = 1
    PROVE  Op[1] = "BASELINE"
<1>1. Begins(Programs[m.prog])
  BY ProgramsFit DEF Control, WellFormed
<1> QED
  BY <1>1 DEF Begins, Op

LEMMA RunsOn ==
    ASSUME Control, ~Idle, session' = session, Running(m')
    PROVE  Control' /\ Kept /\ ~Idle'
  BY DEF Control, Running, Regs, Kept, Fields, Idle

LEMMA BreakRuns ==
    ASSUME Control, ~Idle, session' = session,
           NEW mm, Running(mm), Programs[m.prog][mm.pc][1] # "CALLFAIL",
           m' = [mm EXCEPT !.pc = @ + 1]
    PROVE  Control' /\ Kept
<1>1. m.prog \in DOMAIN Programs
  BY DEF Control
<1>2. mm.pc + 1 \in DOMAIN Programs[m.prog]
  BY <1>1, NextOp DEF Running
<1>3. Regs(m') /\ m'.pc = mm.pc + 1
  BY DEF Running, Regs, Fields
<1>4. Running(m')
  BY <1>2, <1>3 DEF Running
<1> QED
  BY <1>4, RunsOn

LEMMA RunningSelf == ASSUME Control, ~Idle PROVE Running(m)
  BY SMTT(30) DEF Control, Running, Regs, Fields

LEMMA CallingSame == ASSUME Calling, m' = m PROVE Calling'
  BY ZenonT(30) DEF Calling, At, Op, Idle, Again, Result

LEMMA AnswerLast ==
    ASSUME TypeOK, NEW id, NEW v, answers' = Append(answers, [id |-> id, value |-> v])
    PROVE  Last(answers').value = v
<1> DEFINE a == [id |-> id, value |-> v]
<1>1. a.value = v /\ answers' = Append(answers, a)
  OBVIOUS
<1> HIDE DEF a
<1>2. PICK A : answers \in Seq(A)
  BY DEF TypeOK
<1>3. answers' \in Seq(A \union {a}) /\ answers'[Len(answers) + 1] = a /\ Len(answers) \in Nat
      /\ DOMAIN answers' = 1..(Len(answers) + 1)
  BY <1>1, <1>2, AppendFacts
<1>4. Len(answers') = Len(answers) + 1
  BY <1>3
<1> QED
  BY <1>1, <1>3, <1>4 DEF Last

\* DCCACK::callback with registers mm and the value v.
LEMMA CallRuns ==
    ASSUME TypeOK, Control, Begun, session' = session,
           NEW mm, Running(mm), mm.pc = m.pc, mm.retry = m.retry, NEW v, Call(mm, v),
           Calling <=> ~Again(v),
           ~Again(v) /\ m' = mm => Calling'
    PROVE  Control' /\ (BreakStep \/ WaitStep \/ AnswerStep)
<1>1. callback(mm, v) /\ held' = held /\ ~Idle
  BY DEF Call, writeVars, Begun
<1>2. CASE retry(mm, v)
  <2>1. m' = [mm EXCEPT !.retry = @ - 1, !.pc = 1]
    BY <1>2 DEF retry
  <2>2. Regs(m') /\ m'.pc = 1
    BY <2>1 DEF Running, Regs, Fields
  <2>3. Running(m')
    BY <1>1, <2>2, FirstInside DEF Running, Control
  <2>4. ~Calling
    BY <1>2 DEF retry, Again
  <2>5. RailLeft
    BY <1>1, <1>2 DEF retry, RailLeft
  <2> QED
    BY <1>1, <2>3, <2>4, <2>5, RunsOn DEF BreakStep
<1>3. CASE /\ ~Again(v) /\ m' = Ended(mm)
           /\ afterRead(mm) \/ afterWrite(mm) \/ waiting \/ waited100(mm) \/ waited30
  <2>1. callbackState # "READY"
    BY <1>3 DEF afterRead, afterWrite, waiting, waited100, waited30
  <2>2. m' = mm
    BY <1>3, <2>1 DEF Ended
  <2>3. Control' /\ Kept /\ ~Idle'
    BY <1>1, <2>2, RunsOn
  <2>4. Begun' /\ Calling'
    BY <1>3, <2>2, <2>3 DEF Begun
  <2>5. mm.rejoin = m.rejoin /\ mm.autoOff = m.autoOff
    BY DEF Running, Regs
  <2>6. (afterRead(mm) => afterRead(m)) /\ (afterWrite(mm) => afterWrite(m))
        /\ (waited100(mm) => waited100(m))
    BY <2>5 DEF afterRead, afterWrite, waited100
  <2> QED
    BY <1>1, <1>3, <2>3, <2>4, <2>6 DEF WaitStep
<1>4. CASE ~Again(v) /\ m' = Ended(mm) /\ finish(mm, v)
  <2>1. callbackState = "READY" /\ m' = [mm EXCEPT !.prog = NULL]
    BY <1>4 DEF finish, Ended
  <2>2. m'.prog = NULL /\ m'.byte \in Int /\ m'.verify \in Int /\ m'.word \in Int
        /\ m'.rejoin = m.rejoin /\ m'.autoOff = m.autoOff /\ Fields \subseteq DOMAIN m'
    BY <2>1 DEF Running, Regs, Fields
  <2>3. Control'
    BY <2>2 DEF Control, Idle
  <2>4. mm.rejoin = m.rejoin /\ mm.autoOff = m.autoOff /\ mm.cb = m.cb
    BY DEF Running, Regs
  <2>5. Answer(m.cb, v, IF m.autoOff THEN "OFF" ELSE power, joined \/ m.rejoin)
        /\ UNCHANGED <<callbackState, elapsed>>
    BY <1>4, <2>4 DEF finish
  <2> QED
    BY <1>1, <1>4, <2>1, <2>2, <2>3, <2>5, AnswerLast DEF AnswerStep, Answer
<1> QED
  BY <1>1, <1>2, <1>3, <1>4 DEF callback, Again

\* The registers that an operation on them leaves.
LEMMA AssignRuns ==
    ASSUME Control, assign
    PROVE  Running(Assign(Op)) /\ Assign(Op).pc = m.pc
<1>1. /\ ~Idle /\ Running(m) /\ m.prog \in DOMAIN Programs /\ m.pc \in DOMAIN Programs[m.prog]
      /\ Op[1] \in {"BIV", "STARTMERGE", "MERGE", "SETBIT", "SETCV", "SETBYTE", "SETBYTEH",
                    "SETBYTEL", "STASHLOCOID", "SKIPTARGET"}
  BY RunningSelf DEF assign, At, Control
<1>2. Op[1] = "SETBYTE" => Op[2] \in Int
  BY <1>1, OpTypes DEF Op, Operands
<1>3. m.word \div 256 \in Int /\ m.word % 256 \in Int
      /\ (2 * m.byte + (IF m.got THEN 0 ELSE 1)) % 256 \in Int
  BY DEF Control
<1>4. \A b \in Int : Running([m EXCEPT !.byte = b]) /\ [m EXCEPT !.byte = b].pc = m.pc
  BY <1>1 DEF Running, Regs, Fields
<1>5. \A b : /\ Running([m EXCEPT !.bit = b]) /\ [m EXCEPT !.bit = b].pc = m.pc
             /\ Running([m EXCEPT !.cv = b]) /\ [m EXCEPT !.cv = b].pc = m.pc
             /\ Running([m EXCEPT !.stash = b]) /\ [m EXCEPT !.stash = b].pc = m.pc
  BY <1>1 DEF Running, Regs, Fields
<1>7. CASE Op[1] = "BIV"
  <2>1. Assign(Op) = [m EXCEPT !.byte = m.verify]
    BY <1>7 DEF Assign
  <2> QED
    BY <1>4, <2>1 DEF Control
<1>8. CASE Op[1] = "STARTMERGE"
  <2> DEFINE mm == [m EXCEPT !.bit = 7, !.byte = 0]
  <2>1. Assign(Op) = mm
    BY <1>8 DEF Assign
  <2>2. Running(mm) /\ mm.pc = m.pc
    BY <1>1 DEF Running, Regs, Fields
  <2> HIDE DEF mm
  <2> QED
    BY <2>1, <2>2
<1>9. CASE Op[1] = "MERGE"
  <2> DEFINE b == (2 * m.byte + (IF m.got THEN 0 ELSE 1)) % 256
             n == (m.bit - 1) % 256
             mm == [m EXCEPT !.byte = b, !.bit = n]
  <2>1. Assign(Op) = mm
    BY <1>9 DEF Assign, Merged
  <2>2. b \in Int
    BY <1>3
  <2> HIDE DEF b, n
  <2>3. Running(mm) /\ mm.pc = m.pc
    BY <1>1, <2>2 DEF Running, Regs, Fields
  <2> HIDE DEF mm
  <2> QED
    BY <2>1, <2>3
<1>10. CASE Op[1] = "SETBIT"
  <2>1. Assign(Op) = [m EXCEPT !.bit = Op[2]]
    BY <1>10 DEF Assign
  <2> QED
    BY <1>5, <2>1, Zenon
<1>11. CASE Op[1] = "SETCV"
  <2>1. Assign(Op) = [m EXCEPT !.cv = Op[2]]
    BY <1>11 DEF Assign
  <2> QED
    BY <1>5, <2>1, Zenon
<1>12. CASE Op[1] = "SETBYTE"
  <2>1. Assign(Op) = [m EXCEPT !.byte = Op[2]]
    BY <1>12 DEF Assign
  <2> QED
    BY <1>2, <1>4, <1>12, <2>1
<1>13. CASE Op[1] = "SETBYTEH"
  <2>1. Assign(Op) = [m EXCEPT !.byte = m.word \div 256]
    BY <1>13 DEF Assign
  <2> QED
    BY <1>3, <1>4, <2>1
<1>14. CASE Op[1] = "SETBYTEL"
  <2>1. Assign(Op) = [m EXCEPT !.byte = m.word % 256]
    BY <1>14 DEF Assign
  <2> QED
    BY <1>3, <1>4, <2>1
<1>15. CASE Op[1] = "STASHLOCOID"
  <2>1. Assign(Op) = [m EXCEPT !.stash = m.byte]
    BY <1>15 DEF Assign
  <2> QED
    BY Zenon, <1>5, <2>1
<1>16. CASE Op[1] = "SKIPTARGET"
  <2>1. Assign(Op) = m
    BY <1>16 DEF Assign
  <2> QED
    BY <1>1, <2>1
<1> QED
  BY <1>1, <1>7, <1>8, <1>9, <1>10, <1>11, <1>12, <1>13, <1>14, <1>15, <1>16

CallOps == {"ITC0", "ITC1", "ITCB", "ITCBV", "ITCB7", "NAKFAIL", "CALLFAIL", "COMBINELOCOID",
            "COMBINE1920", "FAIL_IF_NONZERO_NAK"}

LEMMA NotCalling == ASSUME ~Idle, Op[1] \notin CallOps PROVE ~Calling
  BY DEF Calling, At, CallOps

LEMMA LoopSteps == ASSUME TypeOK, Control, loop PROVE Control' /\ OpStep
<1>1. ~Idle /\ session' = session /\ Running(m) /\ m.pc \in DOMAIN Programs[m.prog]
      /\ m.prog \in DOMAIN Programs /\ Op = Programs[m.prog][m.pc]
  <2>1. ~Idle /\ session' = session
    BY Zenon DEF loop, BASELINE, packet, WACK, ifAck, ifNak, COMBINELOCOID, COMBINE1920,
           FAIL_IF_NONZERO_NAK, assign, skip, At
  <2> QED
    BY <2>1, RunningSelf DEF Control, Op
<1>2. ASSUME Return PROVE Control' /\ OpStep
  <2>1. m' = m /\ RailLeft
    BY <1>2 DEF Return, RailLeft, loopVars, writeVars
  <2> QED
    BY <1>1, <2>1 DEF Control, OpStep, ReturnStep, Idle
<1>3. Op[1] # "BASELINE" => Begun
  BY <1>1, FirstOp DEF Begun
<1>4. ASSUME NEW mm, Running(mm), Programs[m.prog][mm.pc][1] # "CALLFAIL", Break(mm),
             Begun, ~Calling
      PROVE  Control' /\ OpStep
  <2>1. m' = [mm EXCEPT !.pc = @ + 1] /\ RailLeft
    BY <1>4 DEF Break, RailLeft, loopVars, writeVars
  <2>2. Control' /\ Kept
    BY <1>1, <1>4, <2>1, BreakRuns
  <2> QED
    BY <1>4, <2>1, <2>2 DEF OpStep, BreakStep
<1>5. ASSUME NEW v, Call(m, v), Begun, Calling <=> ~Again(v) PROVE Control' /\ OpStep
  <2>1. ~Again(v) /\ m' = m => Calling'
    BY <1>5, CallingSame
  <2> QED
    BY <1>1, <1>5, <2>1, CallRuns DEF OpStep
<1>6. CASE BASELINE
  <2>1. Op[1] = "BASELINE"
    BY <1>6 DEF BASELINE, At
  <2>2. ~Calling
    BY <1>1, <2>1, NotCalling DEF CallOps
  <2>3. CASE /\ power # "OVERLOAD" /\ callbackState' = "AFTER_READ"
             /\ held' = (IF m.autoOff \/ m.rejoin THEN 100 ELSE held)
             /\ m' = [m EXCEPT !.pc = @ + 1] /\ UNCHANGED <<elapsed, railVars>>
    <3>1. Control' /\ Kept
      BY <1>1, <2>1, <2>3, BreakRuns
    <3> QED
      BY <1>1, <2>2, <2>3, <3>1 DEF OpStep, BaseStep
  <2> QED
    BY <1>2, <1>6, <2>3 DEF BASELINE
<1>7. CASE packet
  <2>1. Op[1] \in {"W0", "W1", "WB", "V0", "V1", "VB"}
    BY <1>7 DEF packet, At, Writes
  <2>2. ~Calling /\ Begun /\ Op[1] # "CALLFAIL"
    BY <1>1, <1>3, <2>1, NotCalling DEF CallOps
  <2>3. CASE /\ m' = [m EXCEPT !.pc = @ + 1] /\ offFor' = 0
             /\ (callbackState' = "AFTER_WRITE" /\ held' = 0) \/ UNCHANGED <<callbackState, held>>
             /\ UNCHANGED <<elapsed, power, joined, since>>
    <3>1. Control' /\ Kept
      BY <1>1, <2>2, <2>3, BreakRuns
    <3> QED
      BY <2>2, <2>3, <3>1 DEF OpStep, PacketStep
  <2> QED
    BY Zenon, <1>2, <1>7, <2>3 DEF packet
<1>8. CASE WACK
  <2>1. Op[1] = "WACK"
    BY <1>8 DEF WACK, At
  <2>2. ~Calling /\ Begun
    BY <1>1, <1>3, <2>1, NotCalling DEF CallOps
  <2> DEFINE mm == [m EXCEPT !.got = (ack = 1)]
  <2>3. Running(mm) /\ mm.pc = m.pc
    BY <1>1 DEF Running, Regs, Fields
  <2>4. Return \/ Break(mm)
    BY <1>8 DEF WACK
  <2> HIDE DEF mm
  <2> QED
    BY <1>1, <1>2, <1>4, <2>1, <2>2, <2>3, <2>4
<1>9. CASE ifAck
  <2>1. At({"ITC0", "ITC1", "ITCB", "ITCBV", "ITCB7"})
    BY <1>9 DEF ifAck
  <2>2. Op[1] \in {"ITC0", "ITC1", "ITCB", "ITCBV", "ITCB7"} /\ Begun
    BY <1>3, <2>1 DEF At
  <2>3. Calling <=> m.got /\ ~Again(Result(Op[1]))
    BY <2>1, <2>2 DEF Calling, At
  <2>4. CASE m.got /\ Call(m, Result(Op[1]))
    BY <1>5, <2>2, <2>3, <2>4
  <2>5. CASE ~m.got /\ Break(m)
    BY <1>1, <1>4, <2>2, <2>3, <2>5
  <2> QED
    BY <1>9, <2>4, <2>5 DEF ifAck
<1>10. CASE ifNak
  <2>1. At({"NAKFAIL", "CALLFAIL"})
    BY <1>10 DEF ifNak
  <2>2. Op[1] \in {"NAKFAIL", "CALLFAIL"} /\ Begun
    BY <1>3, <2>1 DEF At
  <2>3. Calling <=> (Op[1] = "CALLFAIL" \/ ~m.got) /\ ~Again(Result(Op[1]))
    BY <2>1, <2>2 DEF Calling, At
  <2>4. CASE (Op[1] = "CALLFAIL" \/ ~m.got) /\ Call(m, Result(Op[1]))
    BY <1>5, <2>2, <2>3, <2>4
  <2>5. CASE Op[1] = "NAKFAIL" /\ m.got /\ Break(m)
    BY <1>1, <1>4, <2>2, <2>3, <2>5
  <2> QED
    BY <1>10, <2>4, <2>5 DEF ifNak
<1>11. CASE COMBINELOCOID
  <2> DEFINE v == LONG_ADDR_MARKER + m.byte + (m.stash - 192) * 256
  <2>1. At({"COMBINELOCOID"}) /\ Call(m, v)
    BY <1>11 DEF COMBINELOCOID
  <2>2. Op[1] = "COMBINELOCOID" /\ Begun
    BY <1>3, <2>1 DEF At
  <2>3. Calling <=> ~Again(v)
    BY <2>1, <2>2 DEF Calling, At
  <2> HIDE DEF v
  <2> QED
    BY <1>5, <2>1, <2>2, <2>3
<1>12. CASE COMBINE1920
  <2> DEFINE b == (m.byte % 128) % 100
             mm == [m EXCEPT !.byte = b]
             v == m.stash * 100 + b
  <2>1. At({"COMBINE1920"}) /\ Call(mm, v)
    BY <1>12 DEF COMBINE1920
  <2>2. Op[1] = "COMBINE1920" /\ Begun
    BY <1>3, <2>1 DEF At
  <2>3. Calling <=> ~Again(v)
    BY <2>1, <2>2 DEF Calling, At
  <2>4. b \in Int /\ (b % 128) % 100 = b
    BY DEF Control
  <2>5. /\ Running(mm) /\ mm.pc = m.pc /\ mm.retry = m.retry /\ mm.byte = b
        /\ mm.stash = m.stash /\ mm.prog = m.prog
    BY <1>1, <2>4 DEF Running, Regs, Fields
  <2>6. ~Again(v) /\ m' = mm => Calling'
    <3> HIDE DEF b
    <3> SUFFICES ASSUME ~Again(v), m' = mm PROVE Calling'
      OBVIOUS
    <3> HIDE DEF mm
    <3>1. Op' = Op /\ ~Idle' /\ m'.byte = b /\ m'.stash = m.stash /\ m'.retry = m.retry
      BY <1>1, <2>5 DEF Op, Idle
    <3>2. m'.stash * 100 + ((m'.byte % 128) % 100) = v
      BY <2>4, <3>1
    <3>3. At({"COMBINE1920"})'
      BY <2>2, <3>1 DEF At
    <3>4. ~(m'.stash * 100 + ((m'.byte % 128) % 100) = -1 /\ m'.retry > 0)
      BY <3>1, <3>2 DEF Again
    <3> QED
      BY <3>3, <3>4 DEF Calling, Again
  <2> HIDE DEF b, mm, v
  <2> QED
    BY <1>1, <2>1, <2>2, <2>3, <2>5, <2>6, CallRuns DEF OpStep
<1>13. CASE FAIL_IF_NONZERO_NAK
  <2>1. At({"FAIL_IF_NONZERO_NAK"})
    BY <1>13 DEF FAIL_IF_NONZERO_NAK
  <2>2. Op[1] = "FAIL_IF_NONZERO_NAK" /\ Begun
    BY <1>3, <2>1 DEF At
  <2>3. Calling <=> m.byte # 0 /\ ~Again(-4)
    BY <2>1, <2>2 DEF Calling, At
  <2>4. CASE m.byte # 0 /\ Call(m, -4)
    BY <1>5, <2>2, <2>3, <2>4
  <2>5. CASE m.byte = 0 /\ Break(m)
    BY <1>1, <1>4, <2>2, <2>3, <2>5
  <2> QED
    BY <1>13, <2>4, <2>5 DEF FAIL_IF_NONZERO_NAK
<1>14. CASE assign
  <2>1. Op[1] \in {"BIV", "STARTMERGE", "MERGE", "SETBIT", "SETCV", "SETBYTE", "SETBYTEH",
                    "SETBYTEL", "STASHLOCOID", "SKIPTARGET"}
    BY <1>14 DEF assign, At
  <2>2. ~Calling /\ Begun /\ Op[1] # "CALLFAIL"
    BY <1>1, <1>3, <2>1, NotCalling DEF CallOps
  <2>3. Running(Assign(Op)) /\ Assign(Op).pc = m.pc
    BY <1>14, AssignRuns
  <2>4. Break(Assign(Op))
    BY <1>14 DEF assign
  <2> QED
    BY <1>1, <1>4, <2>2, <2>3, <2>4
<1>15. CASE skip
  <2>1. Op[1] \in SkipNames
    BY <1>15 DEF skip, At, SkipNames
  <2>2. ~Calling /\ Begun /\ Op[1] # "CALLFAIL"
    BY <1>1, <1>3, <2>1, NotCalling DEF CallOps, SkipNames
  <2> DEFINE t == SkipFrom(Programs[m.prog], m.pc)
             mm == [m EXCEPT !.pc = t]
  <2>3. t \in DOMAIN Programs[m.prog] /\ Programs[m.prog][t][1] = "SKIPTARGET"
    BY <1>1, <2>1, SkipLands
  <2>4. Skip(m) => Break(mm)
    BY DEF Skip
  <2> HIDE DEF t
  <2>5. Running(mm) /\ mm.pc = t
    BY <1>1, <2>3 DEF Running, Regs, Fields
  <2>6. Break(m) \/ Break(mm)
    BY <1>15, <2>4 DEF skip
  <2> HIDE DEF mm
  <2> QED
    BY <1>1, <1>4, <2>2, <2>3, <2>5, <2>6
<1> QED
  BY <1>6, <1>7, <1>8, <1>9, <1>10, <1>11, <1>12, <1>13, <1>14, <1>15 DEF loop
-----------------------------------------------------------------------------
(* The operations keep the invariant, and switch the rails in time.        *)

\* What setPower does to the times.
LEMMA SetPowerTimes ==
    ASSUME RailTypes, NEW p \in Modes, setPower(p)
    PROVE  /\ power' = p /\ since' \in Times /\ offFor' \in Times
           /\ p = power => since' = since /\ offFor' = offFor
           /\ power = "OFF" /\ p = "ON" => offFor' = since
           /\ p # "ON" => offFor' = offFor
  BY DEF setPower, RailTypes, Times, Modes

LEMMA BeforeSame ==
    ASSUME RailTypes, before' = before, power' \in Modes, joined' \in BOOLEAN, since' \in Times,
           offFor' \in Times, held' \in Times, elapsed' \in Times
    PROVE  RailTypes'
  BY DEF RailTypes

\* The steps of a program that do not call back.
LEMMA QuietOps ==
    ASSUME RailInv, Control', before' = before, track' = track,
           BreakStep \/ BaseStep \/ PacketStep
    PROVE  RailInv' /\ power' = power /\ joined' = joined /\ m'.prog # NULL
<1>1. /\ ~Idle /\ ~Idle' /\ ~Calling /\ Kept
      /\ power' = power /\ joined' = joined /\ since' = since /\ elapsed' = elapsed
  BY DEF BreakStep, BaseStep, PacketStep, Kept, Idle, Begun, RailLeft, railVars
<1>2. offFor' \in Times /\ held' \in Times
  BY DEF BreakStep, BaseStep, PacketStep, RailLeft, railVars, RailInv, RailTypes, Times
<1>3. RailTypes'
  BY <1>1, <1>2, BeforeSame DEF RailInv, RailTypes
<1>4. Begun => callbackState \notin {"READY", "WAITING_100", "WAITING_30"}
  BY <1>1 DEF RailInv, Waits
\* BASELINE is also run when a program begins, and then callbackState may be anything.
<1>5. callbackState' \notin {"READY", "WAITING_100", "WAITING_30"}
  BY <1>4 DEF BreakStep, BaseStep, PacketStep, RailLeft
<1>6. Waits'
  BY <1>1, <1>5 DEF Waits, RailInv
<1>7. Delays'
  <2>1. ASSUME callbackState' = "AFTER_READ", m.rejoin \/ m.autoOff PROVE held' >= 100
    <3>1. CASE BaseStep
      BY <2>1, <3>1 DEF BaseStep
    <3>2. CASE BreakStep \/ PacketStep
      <4>1. Begun /\ callbackState = "AFTER_READ" /\ held' = held
        BY <2>1, <3>2 DEF BreakStep, PacketStep, RailLeft
      <4> QED
        BY <2>1, <4>1 DEF RailInv, Delays
    <3> QED
      BY <3>1, <3>2
  <2> QED
    BY <1>1, <1>5, <2>1 DEF Delays, Kept
<1>8. Remembers'
  <2> SUFFICES ASSUME before.clean, before.alone PROVE
          /\ m'.rejoin <=> before.joined
          /\ m'.autoOff <=> before.power = "OFF"
          /\ ~joined'
          /\ power' = IF before.power = "OFF" THEN "ON" ELSE before.power
          /\ before.power # "OVERLOAD"
    BY <1>1, <1>5 DEF Remembers
  <2>1. /\ m.rejoin <=> before.joined
        /\ m.autoOff <=> before.power = "OFF"
        /\ ~joined
        /\ callbackState = "WAITING_30" => power = "OFF" /\ before.power = "ON" /\ m.pc # 1
        /\ callbackState # "WAITING_30" =>
             power = IF before.power = "OFF" THEN "ON" ELSE before.power
        /\ callbackState # "READY" => before.power # "OVERLOAD"
    BY <1>1 DEF RailInv, Remembers
  <2>2. callbackState # "WAITING_30"
    BY <1>1, <1>4, <2>1 DEF Begun
  <2>3. before.power # "OVERLOAD"
    <3>1. CASE BaseStep
      BY <2>1, <2>2, <3>1 DEF BaseStep
    <3>2. CASE BreakStep \/ PacketStep
      BY <1>4, <2>1, <3>2 DEF BreakStep, PacketStep
    <3> QED
      BY <3>1, <3>2
  <2> QED
    BY <1>1, <2>1, <2>2, <2>3 DEF Kept
<1> QED
  BY <1>1, <1>3, <1>6, <1>7, <1>8 DEF RailInv, Idle

\* A call back that waits, or goes on to the state from which it answers.
LEMMA WaitOps ==
    ASSUME RailInv, Control', before' = before, track' = track, WaitStep
    PROVE  /\ RailInv' /\ joined' = joined /\ m'.prog # NULL
           /\ power = "ON" /\ power' = "OFF" => held >= 100
<1>1. /\ Begun /\ ~Idle /\ Calling /\ Kept /\ Begun' /\ ~Idle' /\ Calling' /\ held' = held
      /\ m'.prog # NULL
  BY DEF WaitStep, Begun, Idle
<1>2. Waits'
  BY <1>1 DEF Waits, RailInv
<1>3. m'.rejoin = m.rejoin /\ m'.autoOff = m.autoOff /\ before' = before
  BY <1>1 DEF Kept
<1>4. /\ RailTypes /\ Control /\ held \in Times /\ elapsed \in Times /\ power \in Modes
      /\ since \in Times /\ offFor \in Times
  BY DEF RailInv, RailTypes
<1>5. before.clean /\ before.alone =>
        /\ m.rejoin <=> before.joined
        /\ m.autoOff <=> before.power = "OFF"
        /\ ~joined
        /\ callbackState = "WAITING_30" => power = "OFF" /\ before.power = "ON" /\ m.pc # 1
        /\ callbackState # "WAITING_30" =>
             power = IF before.power = "OFF" THEN "ON" ELSE before.power
        /\ callbackState # "READY" => before.power # "OVERLOAD"
  BY <1>1 DEF RailInv, Remembers
\* The three ways out of a state.
<1>6. ASSUME cutPower, ~m.autoOff, callbackState \in {"AFTER_READ", "WAITING_100"}, held >= 100
      PROVE  RailInv' /\ joined' = joined
  <2>1. /\ power' = "OFF" /\ since' \in Times /\ offFor' \in Times /\ joined' = joined
        /\ callbackState' = "WAITING_30" /\ elapsed' = 0
    BY <1>4, <1>6, SetPowerTimes DEF cutPower, wait, Modes
  <2>2. RailTypes'
    BY <1>1, <1>4, <2>1, BeforeSame DEF RailTypes, Times, Modes
  <2>3. Delays'
    BY <1>3, <1>6, <2>1 DEF Delays, Times
  <2>4. Remembers'
    BY <1>1, <1>3, <1>4, <1>5, <1>6, <2>1 DEF Remembers, Begun, RailTypes, Modes
  <2> QED
    BY <1>2, <2>1, <2>2, <2>3, <2>4 DEF RailInv
<1>7. ASSUME toReady(power), callbackState # "WAITING_30", m.autoOff => held >= 100,
             m.rejoin => m.autoOff, callbackState # "READY"
      PROVE  RailInv' /\ joined' = joined /\ power' = power
  <2>1. /\ power' = power /\ since' = since /\ offFor' = offFor /\ joined' = joined
        /\ callbackState' = "READY" /\ elapsed' = elapsed
    BY <1>4, <1>7, SetPowerTimes DEF toReady
  <2>2. RailTypes'
    BY <1>1, <1>4, <2>1, BeforeSame DEF RailTypes
  <2>3. Delays'
    BY <1>1, <1>3, <1>7, <2>1 DEF Delays
  <2>4. Remembers'
    BY <1>1, <1>3, <1>5, <1>7, <2>1 DEF Remembers
  <2> QED
    BY <1>2, <2>1, <2>2, <2>3, <2>4 DEF RailInv
<1>8. CASE afterRead(m)
  <2>1. m.rejoin \/ m.autoOff => held >= 100
    BY <1>1, <1>8 DEF afterRead, RailInv, Delays
  <2>2. CASE m.rejoin /\ ~m.autoOff
    <3>1. cutPower /\ callbackState = "AFTER_READ"
      BY <1>8, <2>2 DEF afterRead
    <3> QED
      BY <1>1, <1>6, <2>1, <2>2, <3>1
  <2>3. CASE ~(m.rejoin /\ ~m.autoOff)
    <3>1. toReady(power) /\ callbackState = "AFTER_READ"
      BY <1>8, <2>3 DEF afterRead
    <3>2. RailInv' /\ joined' = joined /\ power' = power
      BY <1>7, <2>1, <2>3, <3>1
    <3> QED
      BY <1>1, <3>2
  <2> QED
    BY <2>2, <2>3
<1>9. CASE afterWrite(m)
  <2>1. CASE m.rejoin \/ m.autoOff
    <3>1. /\ callbackState = "AFTER_WRITE" /\ callbackState' = "WAITING_100" /\ elapsed' = 0
          /\ power' = power /\ joined' = joined /\ since' = since /\ offFor' = offFor
      BY <1>9, <2>1 DEF afterWrite, wait, railVars
    <3>2. RailTypes'
      BY <1>1, <1>4, <3>1, BeforeSame DEF RailTypes, Times
    <3>3. Delays'
      BY <1>1, <1>4, <3>1 DEF Delays, Times
    <3>4. Remembers'
      BY <1>1, <1>3, <1>5, <3>1 DEF Remembers
    <3> QED
      BY <1>1, <1>2, <3>1, <3>2, <3>3, <3>4 DEF RailInv
  <2>2. CASE ~m.rejoin /\ ~m.autoOff
    <3>1. toReady(power) /\ callbackState = "AFTER_WRITE"
      BY <1>9, <2>2 DEF afterWrite
    <3>2. RailInv' /\ joined' = joined /\ power' = power
      BY <1>7, <2>2, <3>1
    <3> QED
      BY <1>1, <3>2
  <2> QED
    BY <2>1, <2>2
<1>10. CASE waiting
  <2>1. UNCHANGED <<callbackState, elapsed, power, joined, since, offFor>>
    BY <1>10 DEF waiting, railVars
  <2>2. RailTypes'
    BY <1>1, <1>4, <2>1, BeforeSame DEF RailTypes
  <2>3. Delays'
    BY <1>1, <1>3, <2>1 DEF Delays, RailInv
  <2>4. Remembers'
    BY <1>1, <1>3, <1>5, <2>1 DEF Remembers, Begun
  <2> QED
    BY <1>1, <1>2, <2>1, <2>2, <2>3, <2>4 DEF RailInv
<1>11. CASE waited100(m)
  <2>1. callbackState = "WAITING_100" /\ held >= 100
    BY <1>4, <1>11 DEF waited100, RailInv, Delays, Times
  <2>2. CASE m.autoOff
    <3>1. toReady(power)
      BY <1>11, <2>2 DEF waited100
    <3>2. RailInv' /\ joined' = joined /\ power' = power
      BY <1>7, <2>1, <2>2, <3>1
    <3> QED
      BY <1>1, <3>2
  <2>3. CASE ~m.autoOff
    <3>1. cutPower
      BY <1>11, <2>3 DEF waited100
    <3> QED
      BY <1>1, <1>6, <2>1, <2>3, <3>1
  <2> QED
    BY <2>2, <2>3
<1>12. CASE waited30
  <2>1. /\ callbackState = "WAITING_30" /\ elapsed >= 30 /\ ~m.autoOff
        /\ before.clean => power = "OFF" /\ since >= elapsed
    BY <1>1, <1>12 DEF waited30, RailInv, Delays
  <2>2. /\ power' = "ON" /\ since' \in Times /\ offFor' \in Times /\ joined' = joined
        /\ callbackState' = "READY" /\ elapsed' = elapsed
        /\ power = "OFF" => offFor' = since
    BY <1>4, <1>12, SetPowerTimes DEF waited30, toReady, Modes
  <2>3. RailTypes'
    BY <1>1, <1>4, <2>2, BeforeSame DEF RailTypes, Modes
  <2>4. Delays'
    BY <1>3, <1>4, <2>1, <2>2 DEF Delays, Times
  <2>5. Remembers'
    BY <1>1, <1>3, <1>5, <2>1, <2>2 DEF Remembers
  <2> QED
    BY <1>1, <1>2, <2>2, <2>3, <2>4, <2>5 DEF RailInv
<1> QED
  BY <1>8, <1>9, <1>10, <1>11, <1>12 DEF WaitStep

Drives == DriveAway(m.cb, Last(answers').value)

\* The answer itself.
LEMMA AnswerOps ==
    ASSUME RailInv, Control', before' = before, track' = track, AnswerStep
    PROVE  /\ RailInv'
           /\ before.clean /\ before.alone /\ ~Drives =>
                power' = before.power /\ joined' = before.joined
           /\ power = "ON" /\ power' = "OFF" => held >= 100
           /\ before.clean /\ ~joined /\ joined' /\ m.rejoin /\ power' = "ON" /\ ~Drives =>
                offFor >= 30
<1> DEFINE d == Drives
           p == IF d THEN "ON" ELSE IF m.autoOff THEN "OFF" ELSE power
<1>1. /\ Begun /\ ~Idle /\ callbackState = "READY" /\ callbackState' = "READY" /\ Idle'
      /\ elapsed' = elapsed /\ held' = held /\ setPower(p)
      /\ joined' = ((joined \/ m.rejoin) \/ d)
  BY DEF AnswerStep, Begun, Idle, Drives
<1>2. RailTypes /\ Control /\ power \in Modes /\ joined \in BOOLEAN /\ before.joined \in BOOLEAN
  BY DEF RailInv, RailTypes
<1> HIDE DEF d
<1>3. p \in Modes
  BY <1>2 DEF Modes
<1> HIDE DEF p
<1>4. power' = p /\ since' \in Times /\ offFor' \in Times
  BY <1>1, <1>2, <1>3, SetPowerTimes
<1>5. joined' \in BOOLEAN
  BY <1>1
<1>6. RailTypes'
  BY <1>1, <1>2, <1>3, <1>4, <1>5, BeforeSame DEF RailTypes
<1>7. Waits' /\ Delays' /\ Remembers'
  BY <1>1 DEF Waits, Delays, Remembers, Begun
<1>8. power = "ON" /\ power' = "OFF" => held >= 100
  <2>1. m.autoOff => held >= 100
    BY <1>1 DEF RailInv, Delays
  <2>2. power = "ON" /\ p = "OFF" => m.autoOff
    BY DEF p
  <2> QED
    BY <1>4, <2>1, <2>2
<1>9. ASSUME before.clean, m.rejoin, power' = "ON", ~d PROVE offFor >= 30
  <2>1. ~m.autoOff /\ power = "ON"
    BY <1>4, <1>9 DEF p
  <2> QED
    BY <1>1, <1>9, <2>1 DEF RailInv, Delays
<1>10. ASSUME before.clean, before.alone, ~d
       PROVE  power' = before.power /\ joined' = before.joined
  <2>1. /\ m.rejoin <=> before.joined
        /\ m.autoOff <=> before.power = "OFF"
        /\ ~joined
        /\ power = IF before.power = "OFF" THEN "ON" ELSE before.power
    BY <1>1, <1>10 DEF RailInv, Remembers
  <2>2. power' = before.power
    BY <1>4, <1>10, <2>1 DEF p
  <2>3. joined' <=> before.joined
    BY Zenon, <1>1, <1>10, <2>1
  <2>4. joined' = before.joined
    BY <1>2, <1>5, <2>3
  <2> QED
    BY <2>2, <2>4
<1> QED
  BY SMTT(30), <1>6, <1>7, <1>8, <1>9, <1>10 DEF RailInv, d

RestoredStep ==
    (~Idle /\ m'.prog = NULL /\ before.clean /\ before.alone
       /\ ~DriveAway(m.cb, Last(answers').value))
       => power' = before.power /\ joined' = before.joined

InTimeStep ==
    loop /\ before.clean =>
       /\ (power = "ON" /\ power' = "OFF") => held >= 100
       /\ (~joined /\ joined' /\ m.rejoin /\ power' = "ON"
             /\ ~DriveAway(m.cb, Last(answers').value)) => offFor >= 30

LEMMA LoopKeeps == ASSUME TypeOK, RailInv, loop PROVE RailInv' /\ RestoredStep /\ InTimeStep
<1>1. before' = before /\ track' = track
  BY DEF loop
<1>2. Control' /\ OpStep
  BY LoopSteps DEF RailInv
<1>3. CASE ReturnStep
  <2>1. m' = m /\ UNCHANGED <<callbackState, elapsed, power, joined, since, offFor, held>>
    BY <1>3 DEF ReturnStep, RailLeft, railVars
  <2>2. RailTypes'
    BY <1>1, <2>1 DEF RailInv, RailTypes
  <2>3. Calling => Calling'
    BY <2>1, CallingSame
  <2>4. Waits'
    BY <1>1, <2>1, <2>3 DEF RailInv, Waits, Idle, Begun
  <2>5. Delays' /\ Remembers'
    BY <1>1, <2>1 DEF RailInv, Delays, Remembers, Idle, Begun
  <2> QED
    BY <1>2, <2>1, <2>2, <2>4, <2>5 DEF RailInv, RestoredStep, InTimeStep, Idle
<1>4. CASE BreakStep \/ BaseStep \/ PacketStep
  <2>1. RailInv' /\ power' = power /\ joined' = joined /\ m'.prog # NULL
    BY <1>1, <1>2, <1>4, QuietOps
  <2> QED
    BY <2>1 DEF RestoredStep, InTimeStep
<1>5. CASE WaitStep
  <2>1. /\ RailInv' /\ joined' = joined /\ m'.prog # NULL
        /\ power = "ON" /\ power' = "OFF" => held >= 100
    BY <1>1, <1>2, <1>5, WaitOps
  <2> QED
    BY <2>1 DEF RestoredStep, InTimeStep
<1>6. CASE AnswerStep
  <2>1. /\ RailInv'
        /\ before.clean /\ before.alone /\ ~Drives =>
             power' = before.power /\ joined' = before.joined
        /\ power = "ON" /\ power' = "OFF" => held >= 100
        /\ before.clean /\ ~joined /\ joined' /\ m.rejoin /\ power' = "ON" /\ ~Drives =>
             offFor >= 30
    BY <1>1, <1>2, <1>6, AnswerOps
  <2> QED
    BY <2>1 DEF RestoredStep, InTimeStep, Drives
<1> QED
  BY <1>2, <1>3, <1>4, <1>5, <1>6 DEF OpStep

-----------------------------------------------------------------------------
(* Everyone else.                                                          *)

LEMMA ControlSame == ASSUME Control, m' = m, session' = session PROVE Control'
  BY DEF Control, Idle

LEMMA SameKeeps ==
    ASSUME RailInv, m' = m,
           UNCHANGED <<callbackState, elapsed, held, session, track, before>>,
           UNCHANGED <<power, joined, since, offFor>>
    PROVE  RailInv'
<1>1. RailTypes'
  BY DEF RailInv, RailTypes
<1>2. Control' /\ (Calling => Calling')
  BY ControlSame, CallingSame DEF RailInv
<1>3. Waits'
  BY <1>2 DEF RailInv, Waits, Idle, Begun
<1>4. Delays' /\ Remembers'
  BY DEF RailInv, Delays, Remembers, Idle, Begun
<1> QED
  BY <1>1, <1>2, <1>3, <1>4 DEF RailInv

\* Someone else switches the rails.
LEMMA SwitchKeeps ==
    ASSUME RailInv, powerCommand \/ overload \/ overloadOver PROVE RailInv' /\ m' = m
<1>1. /\ m' = m /\ UNCHANGED <<callbackState, elapsed, held, session, track>>
      /\ before' = [before EXCEPT !.clean = FALSE]
      /\ joined' = joined \/ joined' \in BOOLEAN
  BY DEF powerCommand, overload, overloadOver, decoderVars
<1>2. PICK p \in Modes : setPower(p)
  BY DEF powerCommand, overload, overloadOver, Modes
<1>3. power' \in Modes /\ since' \in Times /\ offFor' \in Times
  BY <1>2, SetPowerTimes DEF RailInv
<1>4. /\ ~before'.clean /\ DOMAIN before' = {"power", "joined", "clean", "alone"}
      /\ before'.power = before.power /\ before'.joined = before.joined
  BY <1>1 DEF RailInv, RailTypes
<1>5. RailTypes'
  BY <1>1, <1>3, <1>4 DEF RailInv, RailTypes
<1>6. Control' /\ (Calling => Calling')
  BY <1>1, ControlSame, CallingSame DEF RailInv
<1>7. Waits'
  BY <1>1, <1>6 DEF RailInv, Waits, Idle, Begun
<1>8. Delays' /\ Remembers'
  BY <1>1, <1>4 DEF RailInv, Delays, Remembers, Idle, Begun
<1> QED
  BY <1>1, <1>5, <1>6, <1>7, <1>8 DEF RailInv

LEMMA InterruptKeeps ==
    ASSUME RailInv, checkAck \/ resetsSent \/ UNCHANGED vars PROVE RailInv' /\ m' = m
<1>1. /\ m' = m /\ UNCHANGED <<callbackState, elapsed, held, session, track, before>>
      /\ UNCHANGED <<power, joined, since, offFor>>
  BY DEF checkAck, resetsSent, vars, decoderVars, railVars
<1> QED
  BY <1>1, SameKeeps

LEMMA TickKeeps == ASSUME RailInv, Tick PROVE RailInv' /\ m' = m
<1>1. /\ m' = m /\ UNCHANGED <<callbackState, session, track, before, power, joined, offFor>>
      /\ callbackState \in {"WAITING_100", "WAITING_30"}
      /\ elapsed' = Later(elapsed) /\ since' = Later(since) /\ held' = Later(held)
  BY DEF Tick
<1>2. \A t \in Times : Later(t) \in Times
  BY DEF Later, Times
<1>3. \A t, u \in Times : t <= u => Later(t) <= Later(u)
  BY DEF Later, Times
<1>4. RailTypes'
  BY <1>1, <1>2 DEF RailInv, RailTypes
<1>5. Control' /\ (Calling => Calling')
  BY <1>1, ControlSame, CallingSame DEF RailInv
<1>6. Waits'
  BY <1>1, <1>5 DEF RailInv, Waits, Idle, Begun
<1>7. since \in Times /\ elapsed \in Times /\ held \in Times
  BY DEF RailInv, RailTypes
<1>8. (elapsed <= held => elapsed' <= held') /\ (since >= elapsed => since' >= elapsed')
  <2>1. since \in Int /\ elapsed \in Int /\ since' \in Int /\ elapsed' \in Int
    BY <1>1, <1>2, <1>7 DEF Times
  <2>2. (elapsed <= held => elapsed' <= held') /\ (elapsed <= since => elapsed' <= since')
    BY SMTT(30), <1>1, <1>3, <1>7
  <2> QED
    BY <2>1, <2>2
<1>9. Delays' /\ Remembers'
  BY <1>1, <1>8 DEF RailInv, Delays, Remembers, Idle, Begun
<1> QED
  BY <1>1, <1>4, <1>5, <1>6, <1>9 DEF RailInv

-----------------------------------------------------------------------------
(* Requests.                                                               *)

\* DCCACK::Setup: the manager starts at the first operation of a program, and
\* remembers the rails.
LEMMA SetupKeeps ==
    ASSUME RailInv, NEW r, r.kind \in Kinds, r.bit \in Int, r.val \in Int, NEW id,
           SetupNow(r, id),
           UNCHANGED <<callbackState, elapsed, held, session, track>>
    PROVE  RailInv' /\ m'.prog # NULL
<1> DEFINE j == Job(r)
           w == IF j.word = {} THEN m.word ELSE CHOOSE x \in j.word : TRUE
<1>1. m' = [m EXCEPT !.rejoin = joined, !.autoOff = (power = "OFF"),
                     !.cv = j.cv, !.prog = j.prog, !.pc = 1,
                     !.retry = S.ackRetry, !.byte = j.byte,
                     !.verify = j.byte, !.bit = j.byte, !.cb = id,
                     !.word = w]
  BY DEF SetupNow
<1>2. JobTyped(j) /\ j.prog # NULL
  BY JobTypes, JobHasProgram
<1>3. Fields \subseteq DOMAIN m /\ m.word \in Int /\ session \in DOMAIN Sessions
  BY DEF RailInv, Control
<1>4. w \in Int
  <2>1. j.word = {} \/ \E x \in Int : j.word = {x}
    BY <1>2 DEF JobTyped
  <2> HIDE DEF j
  <2>2. \A x : (CHOOSE y \in {x} : TRUE) = x
    OBVIOUS
  <2>3. CASE j.word = {}
    BY Zenon, <1>3, <2>3
  <2>4. CASE \E x \in Int : j.word = {x}
    <3>1. PICK x \in Int : j.word = {x}
      BY <2>4
    <3>2. w = x
      BY Zenon, <2>2, <3>1
    <3> QED
      BY Zenon, <3>2
  <2> QED
    BY <2>1, <2>3, <2>4
<1> HIDE DEF j, w
<1>5. /\ DOMAIN m' = DOMAIN m /\ m'.prog = j.prog /\ m'.pc = 1 /\ m'.rejoin = joined
      /\ m'.autoOff = (power = "OFF") /\ m'.byte = j.byte /\ m'.verify = j.byte /\ m'.word = w
  BY Zenon, <1>1, <1>3 DEF Fields
<1>6. joined \in BOOLEAN /\ (power = "OFF") \in BOOLEAN
  BY DEF RailInv, RailTypes
<1>7. 1 \in DOMAIN Programs[j.prog]
  BY <1>2, FirstInside DEF JobTyped
<1>8. Control'
  BY <1>2, <1>3, <1>4, <1>5, <1>6, <1>7 DEF Control, Idle, JobTyped
<1>9. ~Idle' /\ ~Begun' /\ track' = "ok" /\ m'.prog # NULL
  BY Zenon, <1>2, <1>5 DEF Idle, Begun, SetupNow
<1>10. /\ power' = (IF power = "OFF" THEN "ON" ELSE power) /\ power' \in Modes
       /\ since' \in Times /\ offFor' \in Times /\ joined' = FALSE
  BY DEF SetupNow, RailInv, RailTypes, Modes, Times
<1>11. /\ DOMAIN before' = {"power", "joined", "clean", "alone"}
       /\ before'.power \in Modes /\ before'.joined \in BOOLEAN
       /\ Idle => before'.power = power /\ before'.joined = joined
       /\ ~Idle => before'.alone = FALSE
  <2>1. CASE Idle
    <3>1. before' = [power |-> power, joined |-> joined, clean |-> TRUE, alone |-> TRUE]
      BY <2>1 DEF SetupNow
    <3> QED
      BY <2>1, <3>1 DEF RailInv, RailTypes
  <2>2. CASE ~Idle
    <3>1. before' = [before EXCEPT !.alone = FALSE]
      BY <2>2 DEF SetupNow
    <3> QED
      BY <2>2, <3>1 DEF RailInv, RailTypes
  <2> QED
    BY Zenon, <2>1, <2>2
<1>12. RailTypes'
  BY ZenonT(30), <1>10, <1>11 DEF RailInv, RailTypes
<1>13. Waits'
  BY <1>9 DEF Waits
<1>14. Delays'
  BY <1>9 DEF RailInv, Delays
<1>15. Remembers'
  <2>1. CASE Idle
    <3>1. callbackState' = "READY"
      BY <2>1 DEF RailInv, Waits
    <3> QED
      BY Zenon, <1>5, <1>6, <1>10, <1>11, <2>1, <3>1 DEF Remembers
  <2>2. CASE ~Idle
    BY <1>11, <2>2 DEF Remembers
  <2> QED
    BY <2>1, <2>2
<1> QED
  BY <1>8, <1>9, <1>12, <1>13, <1>14, <1>15 DEF RailInv

\* An answer of -1, -2 or -3 drives no loco away: the power is as it was.
LEMMA ErrorAnswers ==
    ASSUME RailTypes, NEW id, NEW v \in {-1, -2, -3}, NEW j \in BOOLEAN, Answer(id, v, power, j)
    PROVE  UNCHANGED <<power, since, offFor>> /\ joined' = j
<1>1. ~DriveAway(id, v)
  BY DEF DriveAway
<1>2. setPower(power) /\ joined' = j
  BY Zenon, <1>1 DEF Answer
<1> QED
  BY <1>2 DEF setPower, RailTypes, Modes

\* Setup without a track that it can use changes only ackManagerRejoin.
LEMMA FailedSetupKeeps ==
    ASSUME RailInv, NEW r, NEW id, SetupFails(r, id),
           UNCHANGED <<callbackState, elapsed, held, session, track>>
    PROVE  RailInv' /\ m'.prog = m.prog
<1>1. Idle /\ callbackState = "READY" /\ joined \in BOOLEAN /\ RailTypes
  BY DEF SetupFails, RailInv, Waits, RailTypes
<1>2. m' = [m EXCEPT !.rejoin = joined] /\ before' = before
  BY DEF SetupFails
<1>3. Fields \subseteq DOMAIN m
  BY DEF RailInv, Control
<1>4. /\ DOMAIN m' = DOMAIN m /\ m'.prog = m.prog /\ m'.rejoin = joined
      /\ m'.autoOff = m.autoOff /\ m'.byte = m.byte /\ m'.verify = m.verify /\ m'.word = m.word
  BY <1>2, <1>3 DEF Fields
<1>5. Idle' /\ ~Begun'
  BY <1>1, <1>4 DEF Idle, Begun
<1>6. UNCHANGED <<power, since, offFor>> /\ joined' \in BOOLEAN
  BY ZenonT(30), <1>1, ErrorAnswers DEF SetupFails
<1>7. Control'
  BY <1>1, <1>3, <1>4, <1>5 DEF RailInv, Control
<1>8. RailTypes'
  BY <1>2, <1>6 DEF RailInv, RailTypes
<1>9. Waits' /\ Delays' /\ Remembers'
  BY <1>1, <1>5 DEF Waits, Delays, Remembers
<1> QED
  BY <1>4, <1>7, <1>8, <1>9 DEF RailInv

LEMMA RequestRails ==
    ASSUME RailInv, request PROVE RailInv' /\ (m'.prog = m.prog \/ m'.prog # NULL)
<1>1. PICK r \in S.requests :
          \/ Reject(r, Len(asked) + 1)
          \/ SetupNow(r, Len(asked) + 1)
          \/ SetupFails(r, Len(asked) + 1)
          \/ UNCHANGED <<m, railVars, before>>
  BY DEF request
<1> DEFINE n == Len(asked) + 1
<1> HIDE DEF n
<1>2. UNCHANGED <<callbackState, elapsed, held, session, track>>
  BY DEF request, decoderVars
<1>3. r.kind \in Kinds /\ r.bit \in Int /\ r.val \in Int
  BY RequestAssumption DEF RailInv, Control, S
<1>4. CASE Reject(r, n)
  <2>1. m' = m /\ before' = before /\ Answer(n, -1, power, joined)
    BY <1>4 DEF Reject
  <2>2. UNCHANGED <<power, joined, since, offFor>>
    BY <2>1, ErrorAnswers DEF RailInv, RailTypes
  <2> QED
    BY <1>2, <2>1, <2>2, SameKeeps
<1>5. CASE SetupNow(r, n)
  BY <1>2, <1>3, <1>5, SetupKeeps
<1>6. CASE SetupFails(r, n)
  BY <1>2, <1>6, FailedSetupKeeps
<1>7. CASE UNCHANGED <<m, railVars, before>>
  BY <1>2, <1>7, SameKeeps DEF railVars
<1> QED
  BY ZenonT(30), <1>1, <1>4, <1>5, <1>6, <1>7 DEF n

LEMMA InitRails == ASSUME Init PROVE RailInv
<1>1. /\ m = [prog |-> NULL, pc |-> 1, cv |-> 0, byte |-> 0, verify |-> 0,
              bit |-> 0, stash |-> 0, word |-> 0, retry |-> 0, got |-> FALSE,
              rejoin |-> FALSE, autoOff |-> FALSE, cb |-> 0]
      /\ session \in DOMAIN Sessions /\ callbackState = "READY"
      /\ elapsed = 0 /\ since = 100 /\ offFor = 0 /\ held = 100
      /\ before = [power |-> power, joined |-> joined, clean |-> TRUE, alone |-> TRUE]
      /\ \E r \in S.rails : power = r.power /\ joined = r.joined
  BY Zenon DEF Init
<1>2. power \in Modes /\ joined \in BOOLEAN
  BY Zenon, <1>1, RequestAssumption DEF S
<1>3. /\ Fields \subseteq DOMAIN m /\ Idle /\ m.byte \in Int /\ m.verify \in Int
      /\ m.word \in Int /\ m.rejoin \in BOOLEAN /\ m.autoOff \in BOOLEAN
  BY <1>1 DEF Fields, Idle
<1>4. Control
  BY ZenonT(30), <1>1, <1>3 DEF Control
<1>5. RailTypes
  BY <1>1, <1>2 DEF RailTypes, Times
<1>6. Waits /\ Delays /\ Remembers
  BY Zenon, <1>1, <1>3 DEF Waits, Delays, Remembers, Begun
<1> QED
  BY Zenon, <1>4, <1>5, <1>6 DEF RailInv

LEMMA RailsKept ==
    ASSUME IInv, RailInv, [Next]_vars PROVE RailInv' /\ RestoredStep /\ InTimeStep
<1>1. TypeOK
  BY DEF IInv
<1>2. CASE loop
  BY <1>1, <1>2, LoopKeeps
<1>3. CASE ~loop
  <2>1. InTimeStep
    BY <1>3 DEF InTimeStep
  <2>2. RailInv' /\ (m'.prog = m.prog \/ m'.prog # NULL)
    BY <1>3, RequestRails, SwitchKeeps, InterruptKeeps, TickKeeps DEF Next
  <2> QED
    BY <2>1, <2>2 DEF RestoredStep, Idle
<1> QED
  BY <1>2, <1>3

-----------------------------------------------------------------------------

\* A program that runs has an operation to run.
InProgram == ~Idle => m.prog \in DOMAIN Programs /\ m.pc \in DOMAIN Programs[m.prog]

\* The program counter of the ack manager never leaves its program: no skip and no
\* break runs past the last operation, whatever the decoder acknowledges
\* (ackManagerProg++ and the SKIPTARGET loop of DCCACK::loop).
THEOREM StaysInProgram == Spec => []InProgram
<1>1. Init => IInv /\ RailInv
  BY InitAnswers, InitRails
<1>2. IInv /\ RailInv /\ [Next]_vars => (IInv /\ RailInv)'
  BY AnswersKept, RailsKept
<1>3. RailInv => InProgram
  BY DEF RailInv, Control, InProgram
<1> QED
  BY <1>1, <1>2, <1>3, PTL DEF Spec

\* DCCACK::callback leaves the power and the join of the programming track as
\* DCCACK::Setup found them, and on the way it leaves the decoder powered for 100 ms
\* after a write and unpowered for 30 ms before a powered track is joined again.
THEOREM RailsRestored == Spec => Restored
<1>1. Init => IInv /\ RailInv
  BY InitAnswers, InitRails
<1>2. IInv /\ RailInv /\ [Next]_vars => (IInv /\ RailInv)'
  BY AnswersKept, RailsKept
<1>3. IInv /\ RailInv /\ [Next]_vars => [RestoredStep]_vars /\ [InTimeStep]_vars
  BY RailsKept
<1>4. Spec => [][RestoredStep]_vars /\ [][InTimeStep]_vars
  BY <1>1, <1>2, <1>3, PTL DEF Spec
<1>5. ([][RestoredStep]_vars /\ [][InTimeStep]_vars) => Restored
  BY PTL DEF Restored, RestoredStep, InTimeStep
<1> QED
  BY <1>4, <1>5, PTL
=============================================================================
