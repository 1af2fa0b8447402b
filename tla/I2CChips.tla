------------------------------ MODULE I2CChips ------------------------------
(***************************************************************************)
(* The hardware the HAL drivers talk to, and the request block through     *)
(* which a driver talks to it.  A device is one record d: the fields every *)
(* IODevice has, those of its driver, and d.hw, the chip behind it.        *)
(*                                                                         *)
(*   d.state   _deviceState                                                *)
(*   d.due     the timers of the driver that have run out; "loop" is in it *)
(*             when _nextEntryTime has been reached                        *)
(*   d.rb      the status of the driver's request block                    *)
(*   d.asked   the request last queued on it                               *)
(*   d.buf     the driver's receive buffer                                 *)
(*   d.hw.up   the chip answers on the bus                                 *)
(*                                                                         *)
(* The chips are modelled from the registers the drivers use.              *)
(***************************************************************************)
EXTENDS Integers, Sequences, FiniteSets, TLC

Pins(d) == 0 .. d.n - 1

(* What the driver constructors have in common (IODevice's constructor).   *)
Device(kind, first, n, addr, own) ==
  [kind |-> kind, first |-> first, n |-> n, addr |-> addr, state |-> "DORMANT",
   due |-> {"loop"}, rb |-> "OK", asked |-> [what |-> "none"], buf |-> 0] @@ own

delayUntil(d) == [d EXCEPT !.due = @ \ {"loop"}]

After(d, timer) == [d EXCEPT !.due = @ \ {timer}]

Failed(d) == [d EXCEPT !.state = "FAILED"]

(* The level of a port pin: a PCF drives a low or leaves the pin to the    *)
(* world; the others have a direction register.                            *)
Level(d, p) ==
  IF d.kind \in {"PCF8574", "PCF8575"}
  THEN IF d.hw.out[p] = 1 THEN d.hw.ext[p] ELSE 0
  ELSE IF d.hw.dir[p] = 1 THEN d.hw.ext[p] ELSE d.hw.out[p]

(* What the chip answers to the request a, and what the request does to it.*)
Reply(d, a) ==
  CASE a.what = "port"     -> [p \in Pins(d) |-> Level(d, p)]
    [] a.what = "digital"  -> d.hw.digital
    [] a.what = "analogue" -> d.hw.analogue
    [] a.what = "inputs"   -> [p \in Pins(d) |-> IF d.hw.mode[p] = "digital" THEN d.hw.digital[p] ELSE 0]
    [] a.what = "voltages" -> [p \in Pins(d) |-> IF d.hw.mode[p] = "analogue" THEN d.hw.analogue[p] ELSE 0]
    [] a.what = "converted" -> d.hw.analogue[d.hw.channel]
    [] a.what = "count"    -> Len(d.hw.events)
    [] a.what = "event"    -> IF d.hw.events = <<>> THEN [key |-> 0, down |-> 0] ELSE Head(d.hw.events)
    [] a.what = "value"    -> d.hw.value
    [] OTHER               -> d.buf

Effect(d, a) ==
  CASE a.what = "port"    -> [d.hw EXCEPT !.int = FALSE]
    [] a.what = "convert" -> [d.hw EXCEPT !.channel = a.pin]
    [] a.what = "event"   -> [d.hw EXCEPT !.events = IF @ = <<>> THEN @ ELSE Tail(@)]
    [] a.what = "pwm"     -> [d.hw EXCEPT !.pwm[a.pin] = a.value, !.shown[a.pin] = IF a.value = 0 THEN @ ELSE a.value]
    [] a.what = "enable"  -> [d.hw EXCEPT !.mode[a.pin] = a.value]
    [] a.what = "out"     -> [d.hw EXCEPT !.out = a.value]
    [] a.what = "dir"     -> [d.hw EXCEPT !.dir = a.value]
    [] a.what = "inten"   -> [d.hw EXCEPT !.inten = a.value]
    [] a.what = "pull"    -> [d.hw EXCEPT !.pull = a.value]
    [] a.what = "pixel"   -> [d.hw EXCEPT !.pixel[a.pin] = a.value]
    [] a.what = "show"    -> [d.hw EXCEPT !.lit = d.hw.pixel]
    [] a.what = "led"     -> [d.hw EXCEPT !.led[a.pin] = a.value]
    [] a.what = "command" -> [d.hw EXCEPT !.command = a.value]
    [] a.what = "settime" -> [d.hw EXCEPT !.value = a.value]
    [] OTHER              -> d.hw

Answered(d) ==
  IF d.hw.up
  THEN [d EXCEPT !.rb = "OK", !.buf = Reply(d, d.asked), !.hw = Effect(d, d.asked)]
  ELSE [d EXCEPT !.rb = "ERROR"]

(* queueRequest(&rb), rb.wait(), and a call without a request block, which *)
(* returns when it has been carried out: requests are served in order.     *)
Ask(d, a) == [d EXCEPT !.rb = "PENDING", !.asked = a]

Await(d) == IF d.rb = "PENDING" THEN Answered(d) ELSE d

Do(d, a) ==
  LET carried(w) == IF w.hw.up THEN [w EXCEPT !.hw = Effect(w, a)] ELSE w
  IN  carried(Await(d))

(* The chip loses power: its registers, hw.home, go back to their defaults; *)
(* what the world applies to its pins stays.                               *)
PowerLost(hw) == [hw.home @@ hw EXCEPT !.up = FALSE, !.disturbed = TRUE]
=============================================================================
