---------------------------- MODULE I2CManager ----------------------------
(***************************************************************************)
(* The I2C manager (I2CManager*.h, I2CManager.cpp): a queue of request     *)
(* blocks worked off by an interrupt handler, with retries, multiplexers,  *)
(* a timeout, and one state machine per processor: AVR (TWI), Mega4809,    *)
(* SAMD and STM32. The Wire library variant carries each request out at    *)
(* once.                                                                   *)
(*                                                                         *)
(* The hardware takes one step at a time (a start, an address, a byte) and *)
(* interrupts with the outcome. What a device takes is recorded to compare *)
(* it with the request.                                                    *)
(***************************************************************************)
EXTENDS Integers, Sequences, FiniteSets, SequencesExt

CONSTANTS
  Sessions,   \* name |-> platform, devices, requests and faults of a scenario
  Requests    \* request blocks

VARIABLES
  session,  \* the scenario, chosen at the start
  i,        \* the manager with its request blocks, and the bus
  late,     \* the current try has lasted longer than the timeout
  astray,   \* a request was given up before its multiplexer was deselected
  left      \* submissions and faults that may still happen

vars == <<session, i, late, astray, left>>

S == Sessions[session]
Req(r) == S.requests[r]

MAX_I2C_RETRIES == 2
I2C_MUX_BASE_ADDRESS == 112
None == 255
Statuses == {"OK", "TRUNCATED", "NEGATIVE_ACKNOWLEDGE", "TRANSMIT_ERROR", "TIMEOUT", "BUS_ERROR"}

\* Scenarios name a processor of the code; arbitration is lost while the bus is
\* driven; the Wire library reports statuses.
ASSUME SessionAssumption ==
  \A s \in DOMAIN Sessions :
    /\ Sessions[s].platform \in {"avr", "mega4809", "samd", "stm32", "wire"}
    /\ Sessions[s].arbitration \subseteq {"addrW", "addrR", "write"}
    /\ \A o \in Sessions[s].outcomes : o.mux \in Statuses /\ o.status \in Statuses

(***************************************************************************)
(* The bus (external). A device answers when it is on the main bus or on a *)
(* sub-bus that its multiplexer has selected.                              *)
(***************************************************************************)
Visible(x, d) == d.mux = None \/ x.selected[d.mux] = d.bus
Reached(x) == {d \in S.devices : d.dev = x.address /\ Visible(x, d)}
ReachedMux(x) == {n \in S.muxes : x.address = I2C_MUX_BASE_ADDRESS + n}
Answers(x) == Reached(x) # {} \/ ReachedMux(x) # {}

\* The device a request is meant for.
Target(r) == [mux |-> Req(r).mux, bus |-> Req(r).bus, dev |-> Req(r).dev]

\* An address is acknowledged: with the write bit a new message begins. A
\* device that the request is not meant for is reached astray.
Begin(x) ==
  LET r == x.currentRequest
  IN  [x EXCEPT !.rb[r].wrote = IF x.doing = "addrW" /\ Target(r) \in Reached(x) THEN <<>> ELSE @,
                !.rb[r].stray = @ \/ Reached(x) \ {Target(r)} # {}]

\* A byte is taken by every device reached; a multiplexer switches.
Take(x) ==
  LET b == Head(x.pipe)
      r == x.currentRequest
  IN  [x EXCEPT !.selected = [n \in DOMAIN @ |-> IF n \in ReachedMux(x) THEN b ELSE @[n]],
                !.rb[r].wrote = IF Target(r) \in Reached(x) THEN Append(@, b) ELSE @,
                !.pipe = Tail(@)]

Offer(x) == [x EXCEPT !.inbox = Append(@, x.rxCount + Len(@) + 1)]

\* What the hardware has done when it interrupts.
Bus(x, ev) ==
  CASE ev = "ACK" /\ x.doing \in {"addrW", "addrR"} -> Begin(x)
    [] ev = "ACK" /\ x.doing = "write" -> Take(x)
    [] ev = "BYTE" /\ x.doing = "addrR" -> Offer(Begin(x))
    [] ev = "BYTE" /\ x.doing = "read" -> Offer(x)
    [] OTHER -> x

Outcomes(x) ==
  CASE x.doing = "start" -> {"STARTED"}
    [] x.doing = "write" -> {"ACK"}
    [] x.doing = "read" -> {"BYTE"}
    [] x.doing \in {"addrW", "addrR"} /\ ~Answers(x) -> {"NACK"}
    [] x.doing = "addrR" /\ S.platform \in {"mega4809", "samd"} -> {"BYTE"}
    [] x.doing \in {"addrW", "addrR"} -> {"ACK"}
    [] OTHER -> {}

Faults(x) ==
  (IF x.doing \in {"addrW", "addrR", "write"} THEN {"NACK", "BUS_ERROR"} ELSE {})
  \cup (IF x.doing \in S.arbitration THEN {"ARB_LOST"} ELSE {})

\* The oldest byte received goes to the receive buffer. The k-th byte that a
\* device sends is k.
Store(x) == [x EXCEPT !.rb[x.currentRequest].got = Append(SubSeq(@, 1, x.rxCount), Head(x.inbox)),
                      !.inbox = Tail(@), !.rxCount = @ + 1, !.bytesToReceive = @ - 1]

(***************************************************************************)
(* The interrupt handlers of the processors                                *)
(***************************************************************************)
Reading(x) == x.operation = "READ" \/ (x.operation = "REQUEST" /\ x.bytesToSend = 0)

\* On AVR and STM32 a start precedes the address; the others send both.
I2C_sendStart(x) ==
  [x EXCEPT !.txCount = 0, !.rxCount = 0, !.pipe = <<>>, !.inbox = <<>>,
            !.address = IF S.platform = "mega4809" THEN Req(x.currentRequest).dev
                        ELSE x.deviceAddress,
            !.doing = CASE S.platform \in {"avr", "stm32"} -> "start"
                        [] Reading(x) -> "addrR"
                        [] OTHER -> "addrW",
            !.transactionState = "START"]

I2C_sendStop(x) == [x EXCEPT !.doing = "idle"]

Completed(x, status) ==
  [I2C_sendStop(x) EXCEPT !.state = "COMPLETED", !.completionStatus = status,
                          !.transactionState = "IDLE"]

SendByte(x) ==
  [x EXCEPT !.doing = "write", !.pipe = <<x.sendBuffer[x.txCount + 1]>>,
            !.txCount = @ + 1, !.bytesToSend = @ - 1]

\* AVR: TWI status codes.
avrAck(x) ==
  CASE x.bytesToSend > 0 -> SendByte(x)
    [] x.bytesToSend = 0 /\ x.bytesToReceive > 0 -> [x EXCEPT !.doing = "start"]
    [] OTHER -> Completed(x, x.completionStatus)

avrHandle(x, ev) ==
  CASE ev = "ACK" /\ x.doing \in {"addrW", "write"} -> avrAck(x)
    [] ev = "ACK" /\ x.doing = "addrR" -> [x EXCEPT !.doing = "read"]
    [] ev = "BYTE" -> IF x.bytesToReceive > 1 THEN Store(x)
                      ELSE Completed(Store(x), x.completionStatus)
    [] ev = "STARTED" -> [x EXCEPT !.doing = IF Reading(x) THEN "addrR" ELSE "addrW"]
    [] ev = "NACK" -> Completed(x, "NEGATIVE_ACKNOWLEDGE")
    [] ev = "ARB_LOST" -> I2C_sendStart(x)
    [] OTHER -> Completed(x, "TRANSMIT_ERROR")

\* Mega4809: an acknowledged read address goes on to the first byte.
mega4809Handle(x, ev) ==
  CASE ev = "ARB_LOST" -> I2C_sendStart(x)
    [] ev = "BUS_ERROR" -> Completed(x, "BUS_ERROR")
    [] ev = "NACK" -> Completed(x, "NEGATIVE_ACKNOWLEDGE")
    [] ev = "ACK" /\ x.bytesToSend > 0 -> SendByte(x)
    [] ev = "ACK" /\ x.bytesToSend = 0 /\ x.bytesToReceive > 0 ->
         [x EXCEPT !.address = x.deviceAddress, !.doing = "addrR"]
    [] ev = "ACK" /\ x.bytesToSend = 0 /\ x.bytesToReceive = 0 -> Completed(x, x.completionStatus)
    [] ev = "BYTE" -> LET y == IF x.bytesToReceive > 0 THEN Store(x) ELSE x
                      IN  IF y.bytesToReceive > 0 THEN [y EXCEPT !.doing = "read"]
                          ELSE Completed(y, x.completionStatus)
    [] OTHER -> x

\* SAMD: the last byte is refused and the stop sent before it is stored.
samdHandle(x, ev) ==
  CASE ev = "ARB_LOST" -> I2C_sendStart(x)
    [] ev = "BUS_ERROR" -> Completed(x, "BUS_ERROR")
    [] ev = "NACK" -> Completed(x, "NEGATIVE_ACKNOWLEDGE")
    [] ev = "ACK" /\ x.bytesToSend > 0 -> SendByte(x)
    [] ev = "ACK" /\ x.bytesToSend = 0 /\ x.bytesToReceive > 0 ->
         [x EXCEPT !.address = x.deviceAddress, !.doing = "addrR"]
    [] ev = "ACK" /\ x.bytesToSend = 0 /\ x.bytesToReceive = 0 -> Completed(x, x.completionStatus)
    [] ev = "BYTE" /\ x.bytesToReceive = 1 -> Completed(Store(x), x.completionStatus)
    [] ev = "BYTE" /\ x.bytesToReceive > 1 -> [Store(x) EXCEPT !.doing = "read"]
    [] OTHER -> x

\* STM32: two bytes are under way at a time, in each direction.
stmLoad(x) == [x EXCEPT !.pipe = Append(@, x.sendBuffer[x.txCount + 1]), !.doing = "write",
                        !.txCount = @ + 1, !.bytesToSend = @ - 1]

stmAddressed(x) ==
  LET one == stmLoad(x)
      two == IF one.bytesToSend > 0 THEN stmLoad(one) ELSE one
  IN  IF x.bytesToSend = 0 THEN Completed(x, "OK")
      ELSE [two EXCEPT !.transactionState = IF two.bytesToSend = 0 THEN "W_STOP" ELSE "W_DATA"]

stmTXE(x) ==
  LET y == stmLoad(x)
  IN  IF y.bytesToSend = 0 THEN [y EXCEPT !.transactionState = "W_STOP"] ELSE y

stmBTF(x) ==
  CASE x.transactionState = "W_STOP" ->
         IF x.bytesToReceive > 0 THEN I2C_sendStart(x) ELSE Completed(x, "OK")
    [] x.transactionState = "R_DATA" ->
         [Store(x) EXCEPT !.transactionState = IF x.bytesToReceive = 3 THEN "R_STOP" ELSE @]
    [] x.transactionState = "R_STOP" -> Completed(Store(Store(x)), "OK")
    [] OTHER -> x

stmHandle(x, ev) ==
  CASE ev = "NACK" -> Completed(x, "NEGATIVE_ACKNOWLEDGE")
    [] ev = "ARB_LOST" -> I2C_sendStart(x)
    [] ev = "BUS_ERROR" -> Completed(x, "BUS_ERROR")
    [] ev = "STARTED" ->
         IF Reading(x) THEN [x EXCEPT !.doing = "addrR", !.transactionState = "R_ADDR"]
         ELSE [x EXCEPT !.doing = "addrW", !.transactionState = "W_ADDR"]
    [] ev = "ACK" /\ x.transactionState = "W_ADDR" -> stmAddressed(x)
    [] ev = "ACK" /\ x.transactionState = "W_DATA" -> stmTXE(x)
    [] ev = "ACK" /\ x.transactionState = "W_STOP" -> IF x.pipe = <<>> THEN stmBTF(x) ELSE x
    [] ev = "ACK" /\ x.transactionState = "R_ADDR" ->
         [x EXCEPT !.doing = "read",
                   !.transactionState = IF x.bytesToReceive <= 2 THEN "R_STOP" ELSE "R_DATA"]
    [] ev = "BYTE" ->
         CASE Len(x.inbox) = 2 -> stmBTF(x)
           [] Len(x.inbox) = 1 /\ x.bytesToReceive = 1 -> Completed(Store(x), "OK")
           [] OTHER -> x
    [] OTHER -> x

I2C_handleInterrupt(x, ev) ==
  CASE S.platform = "avr" -> avrHandle(x, ev)
    [] S.platform = "mega4809" -> mega4809Handle(x, ev)
    [] S.platform = "samd" -> samdHandle(x, ev)
    [] S.platform = "stm32" -> stmHandle(x, ev)

(***************************************************************************)
(* The queue                                                               *)
(***************************************************************************)
\* A clock speed asked for takes effect before the next transaction.
setPendingClock(x, speed) == [x EXCEPT !.pendingClockSpeed = speed]

takeClock(x) == [x EXCEPT !.clock = IF x.pendingClockSpeed # 0 THEN x.pendingClockSpeed ELSE @,
                          !.pendingClockSpeed = 0]

\* The request itself, on the main bus or once its sub-bus is selected.
payload(x, phase) ==
  LET r == x.currentRequest
  IN  I2C_sendStart([x EXCEPT !.muxPhase = phase, !.deviceAddress = Req(r).dev,
                              !.sendBuffer = Req(r).write, !.bytesToSend = Len(Req(r).write),
                              !.bytesToReceive = Req(r).readLen, !.operation = Req(r).op])

\* One byte to the multiplexer of the request.
selectBus(x, phase, bus) ==
  I2C_sendStart([x EXCEPT !.muxPhase = phase, !.sendBuffer = <<bus>>, !.bytesToSend = 1,
                          !.deviceAddress = I2C_MUX_BASE_ADDRESS + Req(x.currentRequest).mux,
                          !.bytesToReceive = 0, !.operation = "SEND"])

startTransaction(x) ==
  LET r == Head(x.queue)
      y == [takeClock(x) EXCEPT !.state = "ACTIVE", !.completionStatus = "OK",
                                !.currentRequest = r, !.rb[r].tries = @ + 1]
  IN  CASE x.state # "FREE" \/ x.queue = <<>> -> x
        [] x.state = "FREE" /\ x.queue # <<>> /\ Req(r).mux # None ->
             selectBus(y, "PROLOG", Req(r).bus)
        [] OTHER -> payload(y, "OFF")

\* A request block: its status and what came of it.  short: a try of the Wire
\* variant read some of the bytes and not all.
Fresh == [status |-> "OK", wrote |-> <<>>, got |-> <<>>, tries |-> 0, stray |-> FALSE, short |-> FALSE]

queueRequest(x, r) ==
  IF Req(r).op = "READ" /\ Req(r).readLen = 0 THEN x
  ELSE startTransaction([x EXCEPT !.queue = Append(@, r),
         !.rb[r] = [Fresh EXCEPT !.status = "PENDING"]])

dequeue(x, status) ==
  [x EXCEPT !.queue = Tail(@), !.rb[Head(x.queue)].status = status,
            !.currentRequest = 0, !.state = "FREE"]

\* Mutant: the sub-bus is left selected.
finished_NoEpilog(x) ==
  LET y == [x EXCEPT !.overallStatus = x.completionStatus]
  IN  IF x.muxPhase = "PROLOG" /\ x.completionStatus = "OK" /\ Req(x.currentRequest).dev # 0
      THEN payload([y EXCEPT !.state = "ACTIVE"], "PAYLOAD")
      ELSE [dequeue(y, y.overallStatus) EXCEPT !.retryCounter = 0]

\* A step of the transaction is over: the next phase, the end, or a retry.
finished(x) ==
  LET y == [x EXCEPT !.overallStatus = IF x.muxPhase = "EPILOG" THEN @ ELSE x.completionStatus]
      end == [dequeue(y, y.overallStatus) EXCEPT !.retryCounter = 0]
  IN  CASE x.muxPhase = "PROLOG" /\ x.completionStatus = "OK" /\ Req(x.currentRequest).dev # 0 ->
             payload([y EXCEPT !.state = "ACTIVE"], "PAYLOAD")
        [] x.muxPhase = "PAYLOAD" /\ Cardinality(S.muxes) # 1 ->
             selectBus([y EXCEPT !.state = "ACTIVE"], "EPILOG", None)
        [] OTHER -> end

\* Mutant: a failed request goes to the end of the queue.
retry_ToTail(x) == [x EXCEPT !.state = "FREE", !.retryCounter = @ + 1,
                             !.queue = Append(Tail(@), Head(@))]

retry(x) == [x EXCEPT !.state = "FREE", !.retryCounter = @ + 1]

mayRetry(x) == x.completionStatus # "OK" /\ x.retryCounter < MAX_I2C_RETRIES
               /\ ~Req(x.currentRequest).noretry

\* A failure counts against the retries whether or not it is retried.
handleInterrupt(x0, ev) ==
  LET x == I2C_handleInterrupt(x0, ev)
      counted == IF x.completionStatus = "OK" THEN x ELSE [x EXCEPT !.retryCounter = @ + 1]
      y == IF mayRetry(x) THEN retry(x) ELSE finished(counted)
  IN  IF x.state # "COMPLETED" \/ x.currentRequest = 0 THEN x
      ELSE IF y.state = "FREE" THEN startTransaction(y) ELSE y

\* Mutant: the next request is not started.
checkForTimeout_NoStart(x) ==
  IF x.state # "ACTIVE" \/ x.queue = <<>> \/ Head(x.queue) # x.currentRequest THEN x
  ELSE [dequeue(I2C_sendStop(x), "TIMEOUT") EXCEPT !.bytesToSend = 0, !.bytesToReceive = 0,
          !.clock = S.defaultClock, !.pendingClockSpeed = x.clockSpeed]

\* The loop drops a request that takes too long and starts the bus again.
checkForTimeout(x) ==
  IF x.state # "ACTIVE" \/ x.queue = <<>> \/ Head(x.queue) # x.currentRequest THEN x
  ELSE LET y == [dequeue(I2C_sendStop(x), "TIMEOUT") EXCEPT !.bytesToSend = 0, !.bytesToReceive = 0,
                   !.clock = S.defaultClock]
       IN  startTransaction(setPendingClock(y, x.clockSpeed))

\* The slowest speed any driver asks for, unless one was forced.
setClock(x, speed) ==
  LET y == IF speed < x.clockSpeed /\ ~x.clockFixed THEN [x EXCEPT !.clockSpeed = speed] ELSE x
  IN  setPendingClock(y, y.clockSpeed)

forceClock(x, speed) ==
  setPendingClock([x EXCEPT !.clockSpeed = speed, !.clockFixed = TRUE], speed)

(***************************************************************************)
(* The Wire library: every request is carried out when it is queued. What  *)
(* comes of the tries is given: the multiplexer's and the device's status, *)
(* whether the read timed out, and how many bytes it brought.              *)
(***************************************************************************)
Min2(a, b) == IF a < b THEN a ELSE b

\* The bytes of a try go behind those of the tries before it (nBytes).
wireTry(a, r, o) ==
  LET q == Req(r)
      mux == IF q.mux = None THEN "OK" ELSE o.mux
      wrote == mux = "OK" /\ q.dev # 0 /\ (q.op = "SEND" \/ q.write # <<>>)
      status == IF wrote THEN o.status ELSE "OK"
      reads == mux = "OK" /\ q.dev # 0 /\ q.op # "SEND" /\ status = "OK"
      n == IF reads /\ ~o.timeout THEN Min2(o.count, q.readLen - Len(a.got)) ELSE 0
      got == a.got \o [k \in 1..n |-> k]
  IN  [got |-> got,
       wrote |-> IF wrote /\ status = "OK" THEN q.write ELSE a.wrote,
       short |-> a.short \/ (n > 0 /\ Len(got) < q.readLen),
       status |-> CASE mux # "OK" -> mux
                    [] reads /\ o.timeout -> "TIMEOUT"
                    [] reads /\ ~o.timeout /\ Len(got) < q.readLen -> "TRUNCATED"
                    [] OTHER -> status]

wireRequest(r, outcomes) ==
  LET f[k \in 0..MAX_I2C_RETRIES + 1] ==
        CASE k = 0 -> [got |-> <<>>, wrote |-> <<>>, short |-> FALSE, status |-> ""]
          [] k > 1 /\ (f[k - 1].status = "OK" \/ Req(r).noretry) -> f[k - 1]
          [] OTHER -> wireTry(f[k - 1], r, outcomes[k])
  IN  f[MAX_I2C_RETRIES + 1]

(***************************************************************************)
(* The scan for devices at the start, by blocking probes                   *)
(***************************************************************************)
Seen(layout, selected, a) ==
  \E d \in layout : d.dev = a /\ (d.mux = None \/ selected[d.mux] = d.bus)

Deselected == [n \in S.muxes |-> None]

\* Addresses of a selected sub-bus that do not answer without it.
scanSubBus(layout, selected, n, bus) ==
  {a \in S.addresses : /\ Seen(layout, [selected EXCEPT ![n] = bus], a)
                       /\ ~Seen(layout, [selected EXCEPT ![n] = None], a)}

\* The multiplexer ends up with no sub-bus selected.
scanMux(layout, f, n) ==
  [selected |-> [f.selected EXCEPT ![n] = None],
   found |-> f.found \cup UNION {{[mux |-> n, bus |-> b, dev |-> a] :
               a \in scanSubBus(layout, f.selected, n, b)} : b \in S.buses}]

scanForDevices(layout) ==
  LET main == {[mux |-> None, bus |-> None, dev |-> a] :
                 a \in {b \in S.addresses : Seen(layout, Deselected, b)}}
      Mux(f, n) == scanMux(layout, f, n)
  IN  FoldLeft(Mux, [selected |-> Deselected, found |-> main], SetToSortSeq(S.muxes, <)).found

(***************************************************************************)
(* Behaviour                                                               *)
(***************************************************************************)
Init ==
  /\ session \in DOMAIN Sessions
  /\ \E layout \in S.layouts :
       i = [queue |-> <<>>, state |-> "FREE", completionStatus |-> "OK", overallStatus |-> "OK",
            currentRequest |-> 0, txCount |-> 0, rxCount |-> 0, bytesToSend |-> 0,
            bytesToReceive |-> 0, operation |-> "SEND", muxPhase |-> "OFF", deviceAddress |-> 0,
            sendBuffer |-> <<>>, retryCounter |-> 0, transactionState |-> "IDLE",
            pendingClockSpeed |-> 0, clockSpeed |-> S.defaultClock, clockFixed |-> FALSE,
            rb |-> [r \in Requests |-> Fresh],
            doing |-> "idle", address |-> 0, pipe |-> <<>>, inbox |-> <<>>,
            selected |-> Deselected, clock |-> S.defaultClock,
            layout |-> layout, found |-> {}, scanned |-> FALSE]
  /\ late = FALSE /\ astray = FALSE
  /\ left = [submits |-> S.submits, faults |-> S.faults, clocks |-> S.clocks]

\* startTransaction notes the time.
Timed(x) == late' = IF \E r \in Requests : x.rb[r].tries # i.rb[r].tries THEN FALSE ELSE late

\* A driver starts a request: write() and read() first wait for the block to
\* be free.
Submit(r) ==
  /\ S.platform # "wire" /\ left.submits > 0 /\ r \in DOMAIN S.requests
  /\ i.rb[r].status # "PENDING"
  /\ \E x \in {queueRequest(i, r)} : i' = x /\ Timed(x)
  /\ left' = [left EXCEPT !.submits = @ - 1]
  /\ UNCHANGED <<session, astray>>

SubmitWire(r) ==
  /\ S.platform = "wire" /\ left.submits > 0 /\ r \in DOMAIN S.requests
  /\ \E outcomes \in [1..MAX_I2C_RETRIES + 1 -> S.outcomes] :
       \E a \in {wireRequest(r, outcomes)} :
         i' = [i EXCEPT !.rb[r] = [status |-> a.status, wrote |-> a.wrote, got |-> a.got,
                                   tries |-> 0, stray |-> FALSE, short |-> a.short]]
  /\ left' = [left EXCEPT !.submits = @ - 1]
  /\ UNCHANGED <<session, late, astray>>

Interrupt ==
  /\ \E ev \in Outcomes(i) : \E x \in {handleInterrupt(Bus(i, ev), ev)} : i' = x /\ Timed(x)
  /\ UNCHANGED <<session, astray, left>>

\* A prologue or epilogue that fails at the last try ends its request.
Fault ==
  /\ left.faults > 0
  /\ \E ev \in Faults(i) : \E x \in {handleInterrupt(i, ev)} :
       /\ i' = x /\ Timed(x)
       /\ astray' = (astray \/ (i.muxPhase # "OFF" /\ x.queue # i.queue))
  /\ left' = [left EXCEPT !.faults = @ - 1]
  /\ UNCHANGED session

\* micros(): the current try has taken too long.
Late ==
  /\ S.slow /\ i.state = "ACTIVE" /\ ~late
  /\ late' = TRUE
  /\ UNCHANGED <<session, i, astray, left>>

\* I2CManager.loop(), called while anyone waits for a request.
Loop ==
  /\ late
  /\ i' = checkForTimeout(i) /\ late' = FALSE
  /\ astray' = (astray \/ (i.muxPhase # "OFF" /\ i'.queue # i.queue))
  /\ UNCHANGED <<session, left>>

Clock ==
  /\ left.clocks # <<>>
  /\ i' = IF Head(left.clocks).force THEN forceClock(i, Head(left.clocks).speed)
          ELSE setClock(i, Head(left.clocks).speed)
  /\ left' = [left EXCEPT !.clocks = Tail(@)]
  /\ UNCHANGED <<session, late, astray>>

begin ==
  /\ ~i.scanned /\ i.layout # {}
  /\ i' = [i EXCEPT !.found = scanForDevices(i.layout), !.scanned = TRUE]
  /\ UNCHANGED <<session, late, astray, left>>

Rest == i.doing = "idle" /\ UNCHANGED vars

Next == \/ \E r \in Requests : Submit(r) \/ SubmitWire(r)
        \/ Interrupt \/ Fault \/ Late \/ Loop \/ Clock \/ begin \/ Rest

\* Time passes, and whoever waits calls the loop. Of the bus nothing is
\* assumed, it may hang for ever, except in scenarios without timeouts.
Spec == Init /\ [][Next]_vars /\ WF_late(Late) /\ WF_late(Loop)
             /\ WF_i(~S.slow /\ Interrupt)

(***************************************************************************)
(* Properties                                                              *)
(***************************************************************************)
\* A request that ends with I2C_STATUS_OK was carried out: its device, and no
\* other, has taken the bytes to write, all and in order, and the bytes to
\* read are in the buffer, whatever retries, phases of a multiplexer and
\* requests of others came between (handleInterrupt and the processors'
\* I2C_handleInterrupt).  With several multiplexers another device may be
\* reached too once a prologue or epilogue has failed for good or timed out.  With the
\* Wire library the bytes are wrong when a try read some of them and a retry
\* the rest, as nBytes is not reset.  A scan has found every device where it is, on the
\* main bus or behind one bus of one multiplexer (_initialise).
OKMeansDone ==
  /\ \A r \in DOMAIN S.requests :
       i.rb[r].status = "OK" /\ (i.rb[r].tries > 0 \/ i.rb[r].wrote # <<>> \/ i.rb[r].got # <<>>) =>
         /\ Req(r).dev # 0 => i.rb[r].wrote = Req(r).write
         /\ ~i.rb[r].short => i.rb[r].got = [k \in 1..Req(r).readLen |-> k]
         /\ i.rb[r].stray => astray /\ Cardinality(S.muxes) > 1
  /\ i.scanned => i.found = i.layout

\* Every request is answered in the end, even when the bus hangs for ever
\* (checkForTimeout) or a device never answers (MAX_I2C_RETRIES).
Completes == \A r \in Requests : i.rb[r].status = "PENDING" ~> i.rb[r].status # "PENDING"

Service == INSTANCE I2CService WITH
  PENDING <- "PENDING", Results <- Statuses, queue <- i.queue,
  status <- [r \in Requests |-> i.rb[r].status]

\* Requests are answered once each and in order: the manager implements the
\* service the drivers rely on.
ImplementsService == Service!Spec
============================================================================
