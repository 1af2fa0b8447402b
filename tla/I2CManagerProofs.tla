--------------------------- MODULE I2CManagerProofs ---------------------------
(***************************************************************************)
(* The I2C manager implements the service, for any request blocks, devices,*)
(* multiplexers, processors, faults, retries and timeouts.                 *)
(***************************************************************************)
EXTENDS I2CManager, SequenceTheorems, TLAPS

States == {"FREE", "ACTIVE", "COMPLETED"}

\* What the service sees of a manager x, and what it must be able to rely on: x
\* has its registers, and its blocks have their statuses.
TypeOK(x) ==
  /\ {"queue", "rb", "state", "completionStatus", "overallStatus", "currentRequest", "doing"}
       \subseteq DOMAIN x
  /\ x.queue \in Seq(Requests)
  /\ DOMAIN x.rb = Requests
  /\ \A r \in Requests : "status" \in DOMAIN x.rb[r]
  /\ \A r \in Requests : x.rb[r].status \in Statuses \union {"PENDING"}
  /\ x.state \in States
  /\ x.completionStatus \in Statuses /\ x.overallStatus \in Statuses

\* A transaction is for the first request of the queue; without one, or when it is
\* over, the bus is idle.
Working(x) ==
  /\ x.state # "FREE" => x.queue # <<>> /\ x.currentRequest = Head(x.queue)
  /\ x.state # "ACTIVE" => x.doing = "idle"

Sound(x) == TypeOK(x) /\ Working(x)

IInv ==
  /\ session \in DOMAIN Sessions
  /\ Sound(i)
  /\ S.platform = "wire" => i.queue = <<>>

Status(x) == [r \in Requests |-> x.rb[r].status]

\* y differs from x neither for the service nor in the request it works on.
Same(x, y) ==
  /\ TypeOK(y)
  /\ y.queue = x.queue /\ Status(y) = Status(x)
  /\ y.currentRequest = x.currentRequest

\* A part of an interrupt: the transaction goes on, or it is over.
Part(x, y) ==
  Same(x, y) /\ (y.state = x.state \/ (y.state = "COMPLETED" /\ y.doing = "idle"))

LEMMA PartTrans ==
  ASSUME NEW x, NEW y, NEW z, Part(x, y), y.state = x.state, Part(y, z) PROVE Part(x, z)
  BY DEF Part, Same

LEMMA PartSelf == ASSUME NEW x, TypeOK(x) PROVE Part(x, x)
  BY DEF Part, Same

-----------------------------------------------------------------------------
(* The bus and the processors' handlers: nothing they do touches the queue *)
(* or the status of a block.                                               *)

LEMMA BeginPart == ASSUME NEW x, TypeOK(x) PROVE Part(x, Begin(x)) /\ Begin(x).state = x.state
  BY DEF Begin, Part, Same, TypeOK, Status

LEMMA TakePart == ASSUME NEW x, TypeOK(x) PROVE Part(x, Take(x)) /\ Take(x).state = x.state
  BY DEF Take, Part, Same, TypeOK, Status

LEMMA OfferPart == ASSUME NEW x, TypeOK(x) PROVE Part(x, Offer(x)) /\ Offer(x).state = x.state
  BY DEF Offer, Part, Same, TypeOK, Status

LEMMA StorePart == ASSUME NEW x, TypeOK(x) PROVE Part(x, Store(x)) /\ Store(x).state = x.state
  BY DEF Store, Part, Same, TypeOK, Status

LEMMA SendStartPart == ASSUME NEW x, TypeOK(x) PROVE Part(x, I2C_sendStart(x))
  BY DEF I2C_sendStart, Part, Same, TypeOK, Status

LEMMA CompletedPart ==
  ASSUME NEW x, TypeOK(x), NEW status \in Statuses PROVE Part(x, Completed(x, status))
  BY DEF Completed, I2C_sendStop, Part, Same, TypeOK, Status, States

LEMMA SendBytePart == ASSUME NEW x, TypeOK(x) PROVE Part(x, SendByte(x))
  BY DEF SendByte, Part, Same, TypeOK, Status

LEMMA LoadPart == ASSUME NEW x, TypeOK(x) PROVE Part(x, stmLoad(x)) /\ stmLoad(x).state = x.state
  BY DEF stmLoad, Part, Same, TypeOK, Status

\* The arms of the handlers.
LEMMA GoesOn ==
  ASSUME NEW x, TypeOK(x), NEW d, NEW a, NEW t
  PROVE  /\ Part(x, [x EXCEPT !.doing = d])
         /\ Part(x, [x EXCEPT !.address = a, !.doing = d])
         /\ Part(x, [x EXCEPT !.doing = d, !.transactionState = t])
         /\ Part(x, [x EXCEPT !.transactionState = t])
  BY DEF Part, Same, TypeOK, Status

LEMMA Ends ==
  ASSUME NEW x, TypeOK(x)
  PROVE  /\ Part(x, Completed(x, x.completionStatus))
         /\ \A st \in {"OK", "NEGATIVE_ACKNOWLEDGE", "TRANSMIT_ERROR", "BUS_ERROR"} :
              Part(x, Completed(x, st))
<1>1. x.completionStatus \in Statuses
      /\ {"OK", "NEGATIVE_ACKNOWLEDGE", "TRANSMIT_ERROR", "BUS_ERROR"} \subseteq Statuses
  BY DEF TypeOK, Statuses
<1> QED
  BY <1>1, CompletedPart

\* A byte is stored, and then something else is done.
LEMMA StoreThen ==
  ASSUME NEW x, TypeOK(x)
  PROVE  /\ TypeOK(Store(x))
         /\ \A z : Part(Store(x), z) => Part(x, z)
         /\ Part(x, Completed(Store(x), x.completionStatus))
         /\ Part(x, Completed(Store(x), "OK"))
<1>1. Part(x, Store(x)) /\ Store(x).state = x.state /\ TypeOK(Store(x))
  BY StorePart DEF Part, Same
<1>2. \A z : Part(Store(x), z) => Part(x, z)
  BY <1>1, PartTrans
<1>3. x.completionStatus \in Statuses /\ "OK" \in Statuses
  BY DEF TypeOK, Statuses
<1>4. \A st \in Statuses : Part(Store(x), Completed(Store(x), st))
  BY <1>1, CompletedPart
<1> QED
  BY <1>1, <1>2, <1>3, <1>4

LEMMA AvrPart ==
  ASSUME NEW x, TypeOK(x), NEW ev PROVE Part(x, avrHandle(x, ev))
<1>1. Part(x, avrAck(x))
  BY Ends, SendBytePart, GoesOn DEF avrAck
<1>2. Part(x, Store(x)) /\ Part(x, I2C_sendStart(x))
  BY StorePart, SendStartPart
<1>3. \A d : Part(x, [x EXCEPT !.doing = d])
  BY GoesOn
<1> QED
  BY <1>1, <1>2, <1>3, Ends, StoreThen DEF avrHandle

LEMMA Mega4809Part ==
  ASSUME NEW x, TypeOK(x), NEW ev PROVE Part(x, mega4809Handle(x, ev))
<1>1. Part(x, I2C_sendStart(x)) /\ Part(x, SendByte(x)) /\ Part(x, x)
  BY SendStartPart, SendBytePart, PartSelf
<1>2. \A d, a : Part(x, [x EXCEPT !.address = a, !.doing = d])
  BY GoesOn
<1> DEFINE y == IF x.bytesToReceive > 0 THEN Store(x) ELSE x
<1>3. TypeOK(y) /\ \A z : Part(y, z) => Part(x, z)
  BY StoreThen
<1>4. Part(x, Completed(y, x.completionStatus)) /\ Part(x, [y EXCEPT !.doing = "read"])
  <2>1. Part(y, [y EXCEPT !.doing = "read"])
    BY <1>3, GoesOn
  <2> QED
    BY <1>3, <2>1, StoreThen, Ends
<1> HIDE DEF y
<1>5. CASE ev = "BYTE"
  BY <1>4, <1>5 DEF mega4809Handle, y
<1>6. CASE ev # "BYTE"
  BY <1>1, <1>2, <1>6, Ends DEF mega4809Handle
<1> QED
  BY <1>5, <1>6

LEMMA SamdPart ==
  ASSUME NEW x, TypeOK(x), NEW ev PROVE Part(x, samdHandle(x, ev))
<1>1. Part(x, I2C_sendStart(x)) /\ Part(x, SendByte(x)) /\ Part(x, x)
  BY SendStartPart, SendBytePart, PartSelf
<1>2. \A d, a : Part(x, [x EXCEPT !.address = a, !.doing = d])
  BY GoesOn
<1>3. Part(x, [Store(x) EXCEPT !.doing = "read"])
  <2>1. Part(Store(x), [Store(x) EXCEPT !.doing = "read"])
    BY StoreThen, GoesOn
  <2> QED
    BY <2>1, StoreThen
<1> QED
  BY <1>1, <1>2, <1>3, Ends, StoreThen DEF samdHandle

LEMMA StmPart ==
  ASSUME NEW x, TypeOK(x), NEW ev PROVE Part(x, stmHandle(x, ev))
<1>1. Part(x, I2C_sendStart(x)) /\ Part(x, x)
  BY SendStartPart, PartSelf
<1>2. \A d, t : Part(x, [x EXCEPT !.doing = d, !.transactionState = t])
  BY GoesOn
<1>3. Part(x, stmAddressed(x))
  <2> DEFINE one == stmLoad(x)
             two == IF one.bytesToSend > 0 THEN stmLoad(one) ELSE one
  <2>1. Part(x, one) /\ one.state = x.state /\ TypeOK(one)
    BY LoadPart DEF Part, Same
  <2>2. Part(x, two) /\ two.state = x.state /\ TypeOK(two)
    <3>1. Part(one, stmLoad(one)) /\ stmLoad(one).state = one.state
      BY <2>1, LoadPart
    <3> HIDE DEF one
    <3>2. Part(x, stmLoad(one)) /\ stmLoad(one).state = x.state
      BY <2>1, <3>1, PartTrans
    <3> QED
      BY <2>1, <3>2 DEF Part, Same
  <2>3. \A t : Part(x, [two EXCEPT !.transactionState = t])
    BY <2>2, GoesOn, PartTrans
  <2> QED
    BY <2>3, Ends DEF stmAddressed
<1>4. Part(x, stmTXE(x))
  <2> DEFINE y == stmLoad(x)
  <2>1. Part(x, y) /\ y.state = x.state /\ TypeOK(y)
    BY LoadPart DEF Part, Same
  <2>2. Part(x, [y EXCEPT !.transactionState = "W_STOP"])
    BY <2>1, GoesOn, PartTrans
  <2> QED
    BY <2>1, <2>2 DEF stmTXE
<1>5. Part(x, stmBTF(x))
  <2>1. \A t : Part(x, [Store(x) EXCEPT !.transactionState = t])
    BY StoreThen, GoesOn
  <2>2. Part(x, Completed(Store(Store(x)), "OK"))
    BY StoreThen
  <2> QED
    BY <1>1, <2>1, <2>2, Ends DEF stmBTF
<1> QED
  BY <1>1, <1>2, <1>3, <1>4, <1>5, Ends, StoreThen DEF stmHandle

LEMMA HandlerPart ==
  ASSUME NEW x, TypeOK(x), NEW ev, S.platform \in {"avr", "mega4809", "samd", "stm32"}
  PROVE  Part(x, I2C_handleInterrupt(x, ev))
  BY AvrPart, Mega4809Part, SamdPart, StmPart DEF I2C_handleInterrupt

LEMMA BusPart ==
  ASSUME NEW x, TypeOK(x), NEW ev PROVE Part(x, Bus(x, ev)) /\ Bus(x, ev).state = x.state
<1>1. TypeOK(Begin(x)) /\ Part(x, Begin(x)) /\ Begin(x).state = x.state
  BY BeginPart DEF Part, Same
<1>2. Part(x, Offer(Begin(x))) /\ Offer(Begin(x)).state = x.state
  BY <1>1, OfferPart, PartTrans
<1> QED
  BY <1>1, <1>2, TakePart, OfferPart, PartSelf DEF Bus

-----------------------------------------------------------------------------
(* The queue. *)

\* The steps of the service, between two managers.
Stutter(x, y) == y.queue = x.queue /\ Status(y) = Status(x)
Answered(x, y) ==
  /\ x.queue # <<>>
  /\ \E st \in Statuses : Status(y) = [Status(x) EXCEPT ![Head(x.queue)] = st]
  /\ y.queue = Tail(x.queue)

LEMMA PayloadSame ==
  ASSUME NEW x, TypeOK(x), NEW phase
  PROVE  Same(x, payload(x, phase)) /\ payload(x, phase).state = x.state
<1> DEFINE y == [x EXCEPT !.muxPhase = phase, !.deviceAddress = Req(x.currentRequest).dev,
                          !.sendBuffer = Req(x.currentRequest).write,
                          !.bytesToSend = Len(Req(x.currentRequest).write),
                          !.bytesToReceive = Req(x.currentRequest).readLen,
                          !.operation = Req(x.currentRequest).op]
<1>1. Same(x, y) /\ y.state = x.state
  BY DEF Same, TypeOK, Status
<1>2. payload(x, phase) = I2C_sendStart(y)
  BY DEF payload
<1> HIDE DEF y
<1>3. Same(y, I2C_sendStart(y)) /\ I2C_sendStart(y).state = y.state
  BY <1>1 DEF I2C_sendStart, Same, TypeOK, Status
<1> QED
  BY <1>1, <1>2, <1>3 DEF Same

LEMMA SelectSame ==
  ASSUME NEW x, TypeOK(x), NEW phase, NEW bus
  PROVE  Same(x, selectBus(x, phase, bus)) /\ selectBus(x, phase, bus).state = x.state
<1> DEFINE y == [x EXCEPT !.muxPhase = phase, !.sendBuffer = <<bus>>, !.bytesToSend = 1,
                          !.deviceAddress = I2C_MUX_BASE_ADDRESS + Req(x.currentRequest).mux,
                          !.bytesToReceive = 0, !.operation = "SEND"]
<1>1. Same(x, y) /\ y.state = x.state
  BY DEF Same, TypeOK, Status
<1>2. selectBus(x, phase, bus) = I2C_sendStart(y)
  BY DEF selectBus
<1> HIDE DEF y
<1>3. Same(y, I2C_sendStart(y)) /\ I2C_sendStart(y).state = y.state
  BY <1>1 DEF I2C_sendStart, Same, TypeOK, Status
<1> QED
  BY <1>1, <1>2, <1>3 DEF Same

\* The next transaction is for the first request; nothing is answered.
LEMMA StartStutters ==
  ASSUME NEW x, Sound(x) PROVE Sound(startTransaction(x)) /\ Stutter(x, startTransaction(x))
<1> DEFINE r == Head(x.queue)
           y == [takeClock(x) EXCEPT !.state = "ACTIVE", !.completionStatus = "OK",
                                     !.currentRequest = r, !.rb[r].tries = @ + 1]
<1>1. CASE x.state # "FREE" \/ x.queue = <<>>
  BY <1>1 DEF startTransaction, Stutter
<1>2. CASE x.state = "FREE" /\ x.queue # <<>>
  <2>1. TypeOK(y) /\ Stutter(x, y) /\ y.state = "ACTIVE" /\ y.currentRequest = Head(y.queue)
    <3>1. TypeOK(takeClock(x)) /\ Stutter(x, takeClock(x))
      BY DEF takeClock, Stutter, Sound, TypeOK, Status
    <3> DEFINE c == takeClock(x)
    <3>2. c.queue = x.queue
      BY <3>1 DEF Stutter
    <3> HIDE DEF c
    <3>3. y = [c EXCEPT !.state = "ACTIVE", !.completionStatus = "OK",
                        !.currentRequest = r, !.rb[r].tries = @ + 1]
      BY DEF c
    <3>4. TypeOK(c) /\ Stutter(x, c)
      BY <3>1 DEF c
    <3> HIDE DEF y
    <3> QED
      BY <3>2, <3>3, <3>4 DEF Stutter, TypeOK, Status, States, Statuses
  <2> HIDE DEF y
  <2>2. ASSUME NEW z, Same(y, z), z.state = y.state PROVE Sound(z) /\ Stutter(x, z)
    BY <1>2, <2>1, <2>2 DEF Same, Sound, Working, Stutter
  <2>3. Sound(payload(y, "OFF")) /\ Stutter(x, payload(y, "OFF"))
    BY <2>1, <2>2, PayloadSame
  <2>4. \A bus : Sound(selectBus(y, "PROLOG", bus)) /\ Stutter(x, selectBus(y, "PROLOG", bus))
    BY <2>1, <2>2, SelectSame
  <2> QED
    BY <1>2, <2>3, <2>4 DEF startTransaction, y
<1> QED
  BY <1>1, <1>2

LEMMA DequeueAnswers ==
  ASSUME NEW x, TypeOK(x), x.queue # <<>>, x.doing = "idle", NEW st \in Statuses
  PROVE  /\ Sound(dequeue(x, st)) /\ Answered(x, dequeue(x, st))
         /\ dequeue(x, st).state = "FREE" /\ dequeue(x, st).doing = "idle"
<1>1. Head(x.queue) \in Requests /\ Tail(x.queue) \in Seq(Requests)
  BY DEF TypeOK
<1> DEFINE h == Head(x.queue)
           y == dequeue(x, st)
<1> HIDE DEF h
<1>2. y = [x EXCEPT !.queue = Tail(x.queue), !.rb[h].status = st,
                    !.currentRequest = 0, !.state = "FREE"]
  BY DEF dequeue, h
<1>3. h \in Requests
  BY <1>1 DEF h
<1> HIDE DEF y
<1>4. TypeOK(y) /\ y.queue = Tail(x.queue) /\ y.state = "FREE" /\ y.doing = "idle"
  BY <1>1, <1>2, <1>3 DEF TypeOK, States
<1>5. Status(y) = [Status(x) EXCEPT ![h] = st]
  BY <1>2, <1>3 DEF TypeOK, Status
<1> QED
  BY <1>4, <1>5 DEF Sound, Working, Answered, h, y

\* A counter, a buffer or a clock is changed: nobody sees it.
Unseen(x, y) == Same(x, y) /\ y.state = x.state /\ y.doing = x.doing

LEMMA Bookkeeping ==
  ASSUME NEW x, NEW n, TypeOK(x)
  PROVE  /\ Unseen(x, [x EXCEPT !.retryCounter = n])
         /\ Unseen(x, [x EXCEPT !.bytesToSend = 0, !.bytesToReceive = 0, !.clock = n])
         /\ Unseen(x, setPendingClock(x, n))
         /\ Unseen(x, [x EXCEPT !.clockSpeed = n])
         /\ Unseen(x, [x EXCEPT !.clockSpeed = n, !.clockFixed = TRUE])
         /\ Unseen(x, [x EXCEPT !.found = n, !.scanned = TRUE])
         /\ n \in Statuses => Unseen(x, [x EXCEPT !.overallStatus = n])
  BY DEF Unseen, Same, TypeOK, Status, setPendingClock

LEMMA UnseenKeeps ==
  ASSUME NEW x, NEW y, Unseen(x, y)
  PROVE  /\ TypeOK(y)
         /\ Sound(x) => Sound(y)
         /\ Stutter(x, y)
         /\ \A z : Stutter(y, z) => Stutter(x, z)
         /\ \A z : Answered(y, z) => Answered(x, z)
  BY DEF Unseen, Same, Sound, Working, Stutter, Answered

\* What a step may do to the service: nothing, or answer the first request.
Serves(x, y) == Sound(y) /\ (Stutter(x, y) \/ Answered(x, y))

\* A transaction that is over: the next phase of the request, or its answer.
LEMMA FinishedServes ==
  ASSUME NEW x, Sound(x), x.state = "COMPLETED" PROVE Serves(x, finished(x))
<1> DEFINE st == IF x.muxPhase = "EPILOG" THEN x.overallStatus ELSE x.completionStatus
           y == [x EXCEPT !.overallStatus = st]
           a == [y EXCEPT !.state = "ACTIVE"]
           e == dequeue(y, y.overallStatus)
           end == [e EXCEPT !.retryCounter = 0]
<1>1. st \in Statuses /\ TypeOK(x)
  BY DEF Sound, TypeOK
<1>2. Unseen(x, y) /\ y.overallStatus = st
  <2> HIDE DEF st
  <2> QED
    BY <1>1, Bookkeeping DEF TypeOK
<1> HIDE DEF st
<1>3. Sound(y) /\ TypeOK(y) /\ y.state = "COMPLETED"
  BY <1>2, UnseenKeeps DEF Unseen
<1> HIDE DEF y
<1>4. y.queue # <<>> /\ y.currentRequest = Head(y.queue) /\ y.doing = "idle"
  BY <1>3 DEF Sound, Working
<1>5. Sound(end) /\ Answered(x, end)
  <2>1. Sound(e) /\ Answered(y, e)
    BY <1>1, <1>2, <1>3, <1>4, DequeueAnswers
  <2> HIDE DEF e
  <2>2. Unseen(e, end)
    BY <2>1, Bookkeeping DEF Sound
  <2>3. Answered(y, end)
    BY <2>1, <2>2 DEF Unseen, Same, Answered
  <2> QED
    BY <1>2, <2>1, <2>2, <2>3, UnseenKeeps
<1>6. TypeOK(a) /\ Same(y, a) /\ a.state = "ACTIVE"
  BY <1>3 DEF Same, TypeOK, Status, States
<1>7. ASSUME NEW z, Same(a, z), z.state = a.state PROVE Sound(z) /\ Stutter(x, z)
  <2>1. Stutter(y, z) /\ Sound(z)
    BY <1>4, <1>6, <1>7 DEF Same, Sound, Working, Stutter
  <2> QED
    BY <1>2, <2>1, UnseenKeeps
<1> HIDE DEF a, e, end
<1>8. Sound(payload(a, "PAYLOAD")) /\ Stutter(x, payload(a, "PAYLOAD"))
  BY <1>6, <1>7, PayloadSame
<1>9. Sound(selectBus(a, "EPILOG", None)) /\ Stutter(x, selectBus(a, "EPILOG", None))
  BY <1>6, <1>7, SelectSame
<1>10. finished(x) \in {payload(a, "PAYLOAD"), selectBus(a, "EPILOG", None), end}
  BY DEF finished, a, e, end, y, st
<1> QED
  BY <1>5, <1>8, <1>9, <1>10 DEF Serves

LEMMA StartServes ==
  ASSUME NEW x, NEW y, Serves(x, y) PROVE Serves(x, startTransaction(y))
<1>1. Sound(startTransaction(y)) /\ Stutter(y, startTransaction(y))
  BY StartStutters DEF Serves
<1> QED
  BY <1>1 DEF Serves, Stutter, Answered

LEMMA InterruptServes ==
  ASSUME NEW x0, Sound(x0), x0.state = "ACTIVE", NEW ev,
         S.platform \in {"avr", "mega4809", "samd", "stm32"}
  PROVE  Serves(x0, handleInterrupt(x0, ev))
<1> DEFINE x == I2C_handleInterrupt(x0, ev)
           counted == IF x.completionStatus = "OK" THEN x
                      ELSE [x EXCEPT !.retryCounter = x.retryCounter + 1]
           y == IF mayRetry(x) THEN retry(x) ELSE finished(counted)
<1>1. Part(x0, x)
  BY HandlerPart DEF Sound
<1> HIDE DEF x
<1>2. Sound(x) /\ Stutter(x0, x)
  BY <1>1 DEF Part, Same, Sound, Working, Stutter
<1>3. CASE x.state # "COMPLETED" \/ x.currentRequest = 0
  BY <1>2, <1>3 DEF handleInterrupt, Serves, x
<1>4. CASE x.state = "COMPLETED" /\ x.currentRequest # 0
  <2>1. Serves(x, retry(x))
    <3> DEFINE z == [x EXCEPT !.state = "FREE", !.retryCounter = x.retryCounter + 1]
    <3>1. retry(x) = z
      BY DEF retry
    <3>2. TypeOK(z) /\ Stutter(x, z) /\ z.state = "FREE" /\ z.doing = x.doing
      BY <1>2 DEF Sound, TypeOK, Stutter, Status, States
    <3> HIDE DEF z
    <3>3. x.doing = "idle"
      BY <1>2, <1>4 DEF Sound, Working
    <3> QED
      BY <3>1, <3>2, <3>3 DEF Serves, Sound, Working
  <2>2. Unseen(x, counted)
    <3>1. Unseen(x, x)
      BY <1>2 DEF Unseen, Same, Sound
    <3> QED
      BY <1>2, <3>1, Bookkeeping DEF Sound
  <2> HIDE DEF counted
  <2>3. Serves(counted, finished(counted))
    BY <1>2, <1>4, <2>2, UnseenKeeps, FinishedServes DEF Unseen
  <2>4. Serves(x, finished(counted))
    BY <2>2, <2>3, UnseenKeeps DEF Serves
  <2>5. Serves(x, y)
    BY <2>1, <2>4
  <2> HIDE DEF y
  <2>6. Serves(x, startTransaction(y))
    BY <2>5, StartServes
  <2>7. handleInterrupt(x0, ev) \in {y, startTransaction(y)}
    BY <1>4 DEF handleInterrupt, y, counted, x
  <2>8. Serves(x, handleInterrupt(x0, ev))
    BY <2>5, <2>6, <2>7
  <2> QED
    BY <1>2, <2>8 DEF Serves, Stutter, Answered
<1> QED
  BY <1>3, <1>4

LEMMA TimeoutServes ==
  ASSUME NEW x, Sound(x) PROVE Serves(x, checkForTimeout(x))
<1>1. CASE x.state # "ACTIVE" \/ x.queue = <<>> \/ Head(x.queue) # x.currentRequest
  BY <1>1 DEF checkForTimeout, Serves, Stutter
<1>2. CASE ~(x.state # "ACTIVE" \/ x.queue = <<>> \/ Head(x.queue) # x.currentRequest)
  <2> DEFINE s == I2C_sendStop(x)
             d == dequeue(s, "TIMEOUT")
             y == [d EXCEPT !.bytesToSend = 0, !.bytesToReceive = 0, !.clock = S.defaultClock]
             p == setPendingClock(y, x.clockSpeed)
  <2>1. TypeOK(s) /\ Stutter(x, s) /\ s.doing = "idle"
    BY DEF I2C_sendStop, Sound, TypeOK, Stutter, Status
  <2> HIDE DEF s
  <2>2. Sound(d) /\ Answered(s, d)
    BY <1>2, <2>1, DequeueAnswers DEF Stutter, Statuses
  <2> HIDE DEF d
  <2>3. Unseen(d, y)
    BY <2>2, Bookkeeping DEF Sound
  <2> HIDE DEF y
  <2>4. Unseen(y, p)
    BY <2>3, UnseenKeeps, Bookkeeping
  <2> HIDE DEF p
  <2>5. Sound(p) /\ Stutter(d, p)
    BY <2>2, <2>3, <2>4, UnseenKeeps
  <2>6. Serves(x, p)
    BY <2>1, <2>2, <2>5 DEF Serves, Stutter, Answered
  <2> QED
    BY <1>2, <2>6, StartServes DEF checkForTimeout, p, y, d, s
<1> QED
  BY <1>1, <1>2

\* A request is taken: its block waits, at the end of the queue.
Taken(x, y, r) ==
  /\ y.queue = Append(x.queue, r)
  /\ Status(y) = [Status(x) EXCEPT ![r] = "PENDING"]

LEMMA QueueTakes ==
  ASSUME NEW x, Sound(x), NEW r \in Requests
  PROVE  /\ Sound(queueRequest(x, r))
         /\ Stutter(x, queueRequest(x, r)) \/ Taken(x, queueRequest(x, r), r)
<1> DEFINE b == [Fresh EXCEPT !.status = "PENDING"]
           y == [x EXCEPT !.queue = Append(x.queue, r), !.rb[r] = b]
<1>1. CASE Req(r).op = "READ" /\ Req(r).readLen = 0
  BY <1>1 DEF queueRequest, Stutter
<1>2. CASE ~(Req(r).op = "READ" /\ Req(r).readLen = 0)
  <2>1. "status" \in DOMAIN b /\ b.status = "PENDING"
    BY DEF Fresh
  <2> HIDE DEF b
  <2>2. TypeOK(y) /\ Taken(x, y, r)
    <3> DEFINE q == Append(x.queue, r)
    <3>1. q \in Seq(Requests) /\ TypeOK(x)
      BY DEF Sound, TypeOK
    <3> HIDE DEF q
    <3>2. y = [x EXCEPT !.queue = q, !.rb[r] = b]
      BY DEF q
    <3> HIDE DEF y
    <3>3. y.queue = q /\ y.rb = [x.rb EXCEPT ![r] = b]
      BY <3>1, <3>2 DEF TypeOK
    <3>4. TypeOK(y)
      BY <2>1, <3>1, <3>2 DEF TypeOK
    <3>5. Status(y) = [Status(x) EXCEPT ![r] = "PENDING"]
      BY <2>1, <3>1, <3>3 DEF TypeOK, Status
    <3> QED
      BY <3>3, <3>4, <3>5 DEF Taken, q
  <2>3. y.queue # <<>> /\ (x.queue # <<>> => Head(y.queue) = Head(x.queue))
        /\ y.state = x.state /\ y.doing = x.doing /\ y.currentRequest = x.currentRequest
    <3>1. x.queue \in Seq(Requests)
      BY DEF Sound, TypeOK
    <3>2. Append(x.queue, r) # <<>>
          /\ (x.queue # <<>> => Head(Append(x.queue, r)) = Head(x.queue))
      <4> DEFINE q == x.queue
      <4>1. q \in Seq(Requests)
        BY <3>1
      <4> HIDE DEF q
      <4>2. Append(q, r) \in Seq(Requests) /\ Len(Append(q, r)) = Len(q) + 1 /\ Len(q) \in Nat
        BY <4>1
      <4>3. q # <<>> => Len(q) > 0 /\ Append(q, r)[1] = q[1]
        BY <4>1
      <4> QED
        BY <4>1, <4>2, <4>3 DEF q
    <3> QED
      BY <3>2 DEF Sound, TypeOK
  <2> HIDE DEF y
  <2>4. Sound(y)
    BY <2>2, <2>3 DEF Sound, Working
  <2>5. Sound(startTransaction(y)) /\ Stutter(y, startTransaction(y))
    BY <2>4, StartStutters
  <2> QED
    BY <1>2, <2>2, <2>5 DEF queueRequest, Stutter, Taken, y, b
<1> QED
  BY <1>1, <1>2

-----------------------------------------------------------------------------
(* The Wire library: the tries end with a status. *)

Tried(r, outcomes, k, before) ==
  CASE k = 0 -> [got |-> <<>>, wrote |-> <<>>, short |-> FALSE, status |-> ""]
    [] k > 1 /\ (before.status = "OK" \/ Req(r).noretry) -> before
    [] OTHER -> wireTry(before, r, outcomes[k])

IsTries(f, r, outcomes) ==
  f = [k \in 0..MAX_I2C_RETRIES + 1 |-> Tried(r, outcomes, k, f[k - 1])]

LEMMA TriesExist == ASSUME NEW r, NEW outcomes PROVE \E f : IsTries(f, r, outcomes)
<1> DEFINE T(k, t) == Tried(r, outcomes, k, t)
           t0 == T(0, 0)
           t1 == T(1, t0)
           t2 == T(2, t1)
           t3 == T(3, t2)
           f == [k \in 0..3 |-> IF k = 0 THEN t0 ELSE IF k = 1 THEN t1
                                ELSE IF k = 2 THEN t2 ELSE t3]
           g == [k \in 0..3 |-> T(k, f[k - 1])]
<1>1. \A t : T(0, t) = t0
  BY DEF Tried
<1> HIDE DEF T, t0
<1>2. f[0] = t0 /\ f[1] = T(1, t0) /\ f[2] = T(2, t1) /\ f[3] = T(3, t2)
      /\ f[1] = t1 /\ f[2] = t2
  OBVIOUS
<1> HIDE DEF t1, t2, t3
<1>3. ASSUME NEW k \in 0..3 PROVE f[k] = T(k, f[k - 1])
  <2>1. k = 0 \/ k = 1 \/ k = 2 \/ k = 3
    OBVIOUS
  <2> HIDE DEF f
  <2>2. 1 - 1 = 0 /\ 2 - 1 = 1 /\ 3 - 1 = 2
    OBVIOUS
  <2> QED
    BY <1>1, <1>2, <2>1, <2>2 DEF t1, t2
<1>4. f = g
  <2>1. f = [k \in 0..3 |-> f[k]]
    OBVIOUS
  <2> HIDE DEF f
  <2> QED
    BY <1>3, <2>1
<1>5. IsTries(f, r, outcomes)
  <2> HIDE DEF f
  <2>1. MAX_I2C_RETRIES + 1 = 3
    BY DEF MAX_I2C_RETRIES
  <2> QED
    BY <1>4, <2>1 DEF IsTries, T
<1> QED
  BY <1>5

LEMMA TryStatus ==
  ASSUME NEW a, NEW r, NEW o, o.mux \in Statuses, o.status \in Statuses
  PROVE  wireTry(a, r, o).status \in Statuses
<1> DEFINE st == wireTry(a, r, o).status
<1>1. st \in {o.mux, "TIMEOUT", "TRUNCATED", o.status, "OK"}
  BY DEF wireTry
<1> QED
  BY <1>1 DEF Statuses

LEMMA WireStatus ==
  ASSUME NEW r, NEW outcomes,
         \A k \in 1..MAX_I2C_RETRIES + 1 :
           outcomes[k].mux \in Statuses /\ outcomes[k].status \in Statuses
  PROVE  wireRequest(r, outcomes).status \in Statuses
<1> DEFINE f == CHOOSE h : IsTries(h, r, outcomes)
<1>1. IsTries(f, r, outcomes)
  BY TriesExist
<1>2. wireRequest(r, outcomes) = f[MAX_I2C_RETRIES + 1]
  BY DEF wireRequest, IsTries, Tried
<1> HIDE DEF f
<1>3. ASSUME NEW k \in 1..3, NEW t, k > 1 => t.status \in Statuses
      PROVE  Tried(r, outcomes, k, t).status \in Statuses
  <2>1. wireTry(t, r, outcomes[k]).status \in Statuses
    BY TryStatus DEF MAX_I2C_RETRIES
  <2> DEFINE stop == t.status = "OK" \/ Req(r).noretry
  <2>2. k # 0
    OBVIOUS
  <2>3. Tried(r, outcomes, k, t) = IF k > 1 /\ stop THEN t ELSE wireTry(t, r, outcomes[k])
    BY <2>2 DEF Tried
  <2> HIDE DEF stop
  <2>4. CASE k > 1 /\ stop
    BY <1>3, <2>3, <2>4
  <2>5. CASE ~(k > 1 /\ stop)
    BY <2>1, <2>3, <2>5
  <2> QED
    BY <2>4, <2>5
<1>4. /\ f[1] = Tried(r, outcomes, 1, f[0])
      /\ f[2] = Tried(r, outcomes, 2, f[1])
      /\ f[3] = Tried(r, outcomes, 3, f[2])
  BY <1>1 DEF IsTries, MAX_I2C_RETRIES
<1>5. f[1].status \in Statuses
  BY <1>3, <1>4
<1>6. f[2].status \in Statuses
  BY <1>3, <1>4, <1>5
<1>7. f[3].status \in Statuses
  BY <1>3, <1>4, <1>6
<1> QED
  BY <1>2, <1>7 DEF MAX_I2C_RETRIES

-----------------------------------------------------------------------------
(* Every step is a step of the service, and keeps the invariant. *)

ServiceStep ==
  \/ Stutter(i, i')
  \/ Answered(i, i')
  \/ \E r \in Requests : i.rb[r].status # "PENDING" /\ Taken(i, i', r)
  \/ /\ i.queue = <<>> /\ i'.queue = i.queue
     /\ \E r \in Requests, st \in Statuses : Status(i') = [Status(i) EXCEPT ![r] = st]

Good == IInv' /\ ServiceStep

\* An interrupt comes only while a transaction is under way.
LEMMA BusyIsActive ==
  ASSUME IInv, i.doing # "idle"
  PROVE  i.state = "ACTIVE" /\ S.platform \in {"avr", "mega4809", "samd", "stm32"}
<1>1. i.state = "ACTIVE" /\ i.queue # <<>>
  BY DEF IInv, Sound, Working
<1> QED
  BY <1>1, SessionAssumption DEF IInv, S

LEMMA ServesIsGood ==
  ASSUME IInv, session' = session, NEW y, i' = y, Serves(i, y),
         S.platform = "wire" => Stutter(i, y)
  PROVE  Good
  BY DEF IInv, Good, ServiceStep, Serves, Stutter, S

LEMMA SubmitIsGood == ASSUME IInv, NEW r \in Requests, Submit(r) PROVE Good
<1> DEFINE y == queueRequest(i, r)
<1>1. i' = y /\ session' = session /\ i.rb[r].status # "PENDING" /\ S.platform # "wire"
  BY DEF Submit
<1>2. Sound(y) /\ (Stutter(i, y) \/ Taken(i, y, r))
  BY QueueTakes DEF IInv
<1> HIDE DEF y
<1> QED
  BY <1>1, <1>2 DEF IInv, Good, ServiceStep, S

LEMMA SubmitWireIsGood == ASSUME IInv, NEW r \in Requests, SubmitWire(r) PROVE Good
<1>1. PICK outcomes \in [1..MAX_I2C_RETRIES + 1 -> S.outcomes] :
        \E a \in {wireRequest(r, outcomes)} :
          i' = [i EXCEPT !.rb[r] = [status |-> a.status, wrote |-> a.wrote, got |-> a.got,
                                    tries |-> 0, stray |-> FALSE, short |-> a.short]]
  BY DEF SubmitWire
<1> DEFINE a == wireRequest(r, outcomes)
           b == [status |-> a.status, wrote |-> a.wrote, got |-> a.got,
                 tries |-> 0, stray |-> FALSE, short |-> a.short]
<1>2. a.status \in Statuses
  <2>1. \A o \in S.outcomes : o.mux \in Statuses /\ o.status \in Statuses
    BY SessionAssumption DEF IInv, S
  <2> QED
    BY <2>1, WireStatus
<1>3. i' = [i EXCEPT !.rb[r] = b]
  BY <1>1
<1>4. "status" \in DOMAIN b /\ b.status = a.status
  OBVIOUS
<1> HIDE DEF a, b
<1>5. TypeOK(i)
  BY DEF IInv, Sound
<1>6. /\ TypeOK(i') /\ i'.queue = i.queue /\ i'.state = i.state /\ i'.doing = i.doing
      /\ i'.currentRequest = i.currentRequest
  BY <1>2, <1>3, <1>4, <1>5 DEF TypeOK
<1>7. Status(i') = [Status(i) EXCEPT ![r] = a.status]
  BY <1>3, <1>4, <1>5 DEF TypeOK, Status
<1>8. session' = session /\ i.queue = <<>>
  BY DEF SubmitWire, IInv
<1> QED
  BY <1>2, <1>6, <1>7, <1>8 DEF IInv, Sound, Working, Good, ServiceStep, S

LEMMA InterruptIsGood == ASSUME IInv, Interrupt \/ Fault PROVE Good
<1>1. i.doing # "idle"
  <2>1. S.arbitration \subseteq {"addrW", "addrR", "write"}
    BY SessionAssumption DEF IInv, S
  <2>2. ASSUME Interrupt PROVE i.doing # "idle"
    BY <2>2 DEF Interrupt, Outcomes
  <2>3. ASSUME Fault PROVE i.doing # "idle"
    BY <2>1, <2>3 DEF Fault, Faults
  <2> QED
    BY <2>2, <2>3
<1>2. i.state = "ACTIVE" /\ S.platform \in {"avr", "mega4809", "samd", "stm32"}
  BY <1>1, BusyIsActive
<1>3. ASSUME NEW ev, NEW b \in {i, Bus(i, ev)} PROVE Serves(i, handleInterrupt(b, ev))
  <2>1. Sound(i)
    BY DEF IInv
  <2>2. Part(i, b) /\ b.state = i.state
    BY <2>1, BusPart, PartSelf DEF Sound
  <2>3. Sound(b) /\ Stutter(i, b)
    BY <1>2, <2>1, <2>2 DEF Part, Same, Sound, Working, Stutter
  <2>4. Serves(b, handleInterrupt(b, ev))
    BY <1>2, <2>2, <2>3, InterruptServes
  <2> QED
    BY <2>3, <2>4 DEF Serves, Stutter, Answered
<1>4. session' = session /\ S.platform # "wire"
  BY <1>2 DEF Interrupt, Fault
<1>5. \E ev : \E b \in {i, Bus(i, ev)} : i' = handleInterrupt(b, ev)
  BY DEF Interrupt, Fault
<1> QED
  BY <1>3, <1>4, <1>5, ServesIsGood

LEMMA LoopIsGood == ASSUME IInv, Loop PROVE Good
<1>1. Serves(i, checkForTimeout(i))
  BY TimeoutServes DEF IInv
<1>2. S.platform = "wire" => checkForTimeout(i) = i
  BY DEF IInv, checkForTimeout
<1> QED
  BY <1>1, <1>2, ServesIsGood DEF Loop, Stutter

LEMMA UnseenIsGood ==
  ASSUME IInv, session' = session, NEW y, i' = y, Unseen(i, y) PROVE Good
  BY UnseenKeeps, ServesIsGood DEF IInv, Serves

LEMMA ClockIsGood == ASSUME IInv, Clock PROVE Good
<1>1. TypeOK(i) /\ session' = session
  BY DEF IInv, Sound, Clock
<1>2. ASSUME NEW y, Unseen(i, y), NEW v PROVE Unseen(i, setPendingClock(y, v))
  <2>1. Unseen(y, setPendingClock(y, v))
    BY <1>2, UnseenKeeps, Bookkeeping
  <2> QED
    BY <1>2, <2>1 DEF Unseen, Same
<1>3. Unseen(i, i)
  BY <1>1 DEF Unseen, Same
<1>4. \A v : Unseen(i, setClock(i, v))
  BY <1>1, <1>2, <1>3, Bookkeeping DEF setClock
<1>5. \A v : Unseen(i, forceClock(i, v))
  BY <1>1, <1>2, Bookkeeping DEF forceClock
<1> QED
  BY <1>1, <1>4, <1>5, UnseenIsGood DEF Clock

LEMMA NextIsGood == ASSUME IInv, [Next]_vars PROVE Good
<1>1. ASSUME begin PROVE Good
  <2> DEFINE y == [i EXCEPT !.found = scanForDevices(i.layout), !.scanned = TRUE]
  <2>1. Unseen(i, y)
    BY Bookkeeping DEF IInv, Sound
  <2>2. i' = y /\ session' = session
    BY <1>1 DEF begin
  <2> HIDE DEF y
  <2> QED
    BY <2>1, <2>2, UnseenIsGood
<1>2. ASSUME UNCHANGED <<session, i>> PROVE Good
  BY <1>2, UnseenIsGood DEF Unseen, Same, IInv, Sound
<1> QED
  BY <1>1, <1>2, SubmitIsGood, SubmitWireIsGood, InterruptIsGood, LoopIsGood, ClockIsGood
     DEF Next, Late, Rest, vars

\* The I2C manager implements the service that the drivers rely on: each request is
\* answered once, with a status, in the order of the queue, whatever the processor,
\* the retries, the multiplexers, the faults of the bus and the timeout do
\* (queueRequest, handleInterrupt, checkForTimeout, and I2CManager_Wire.h).
THEOREM ManagerImplementsService == Spec => ImplementsService
<1>1. Init => IInv /\ Service!Init
  <2> SUFFICES ASSUME Init PROVE IInv /\ Service!Init
    OBVIOUS
  <2>1. PICK layout :
          i = [queue |-> <<>>, state |-> "FREE", completionStatus |-> "OK", overallStatus |-> "OK",
               currentRequest |-> 0, txCount |-> 0, rxCount |-> 0, bytesToSend |-> 0,
               bytesToReceive |-> 0, operation |-> "SEND", muxPhase |-> "OFF", deviceAddress |-> 0,
               sendBuffer |-> <<>>, retryCounter |-> 0, transactionState |-> "IDLE",
               pendingClockSpeed |-> 0, clockSpeed |-> S.defaultClock, clockFixed |-> FALSE,
               rb |-> [r \in Requests |-> Fresh],
               doing |-> "idle", address |-> 0, pipe |-> <<>>, inbox |-> <<>>,
               selected |-> Deselected, clock |-> S.defaultClock,
               layout |-> layout, found |-> {}, scanned |-> FALSE]
    BY DEF Init
  <2>2. "status" \in DOMAIN Fresh /\ Fresh.status = "OK"
    BY DEF Fresh
  <2>3. TypeOK(i)
    BY <2>1, <2>2 DEF TypeOK, States, Statuses
  <2>4. i.queue = <<>> /\ i.state = "FREE" /\ i.doing = "idle" /\ i.rb = [r \in Requests |-> Fresh]
    BY <2>1
  <2>5. IInv
    BY <2>3, <2>4 DEF IInv, Sound, Working, Init
  <2>6. Service!Init
    BY <2>2, <2>4 DEF Service!Init, Statuses
  <2> QED
    BY <2>5, <2>6
<1>2. IInv /\ [Next]_vars => IInv' /\ [Service!Next]_(Service!serviceVars)
  <2>1. ASSUME IInv, [Next]_vars PROVE IInv' /\ ServiceStep
    BY <2>1, NextIsGood DEF Good
  <2>2. ServiceStep => [Service!Next]_(Service!serviceVars)
    BY DEF ServiceStep, Stutter, Answered, Taken, Status, Service!Next, Service!Answer,
       Service!Submit, Service!Immediate, Service!serviceVars
  <2> QED
    BY <2>1, <2>2
<1> QED
  BY <1>1, <1>2, PTL DEF Spec, ImplementsService, Service!Spec
===============================================================================
