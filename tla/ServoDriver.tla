---------------------------- MODULE ServoDriver -----------------------------
(***************************************************************************)
(* The servo drivers: PCA9685 (IO_PCA9685.cpp), the filter Servo           *)
(* (IO_Servo.h), which animates the pins of the device behind it, and      *)
(* PCA9685pwm (IO_PCA9685pwm.h), which only sets pulse widths.  A profile  *)
(* is the speed in bits 0-6 and NoPowerOff in bit 7.                       *)
(***************************************************************************)
EXTENDS I2CChips

Profile(speed, keep) == [speed |-> speed, keep |-> keep]

Instant == Profile("duration", FALSE)

InstantKept == Profile("duration", TRUE)

catchupSteps == 5

bounceProfile ==
  <<2, 3, 7, 13, 33, 50, 83, 100, 83, 75, 70, 65, 60, 60, 65, 74, 84, 100, 83, 75, 70, 70, 72, 75,
    80, 87, 92, 97, 100>>

(* No ServoData has been allocated for the pin.                            *)
NoServo ==
  [set |-> FALSE, active |-> 0, inactive |-> 0, profile |-> Instant, duration |-> 0,
   current |-> 0, from |-> 0, to |-> 0, currentProfile |-> Instant, step |-> 0, numSteps |-> 0]

(* The chip: the pulse width of each pin (0 = no pulses) and, of what it   *)
(* drives, the position it was last sent to.                               *)
PwmChip(n) ==
  [up |-> TRUE, disturbed |-> FALSE, pwm |-> [p \in 0 .. n - 1 |-> 0], shown |-> [p \in 0 .. n - 1 |-> 0],
   home |-> [pwm |-> [p \in 0 .. n - 1 |-> 0]]]

NoChip == [up |-> TRUE, disturbed |-> FALSE, home |-> <<>>]

PCA9685(c) ==
  Device("PCA9685", c.first, c.n, c.addr,
    [servo |-> [p \in 0 .. c.n - 1 |-> NoServo], hw |-> PwmChip(c.n)])

PCA9685pwm(c) == Device("PCA9685pwm", c.first, c.n, c.addr, [hw |-> PwmChip(c.n)])

Servo(c) ==
  Device("Servo", c.first, c.n, c.addr,
    [servo |-> [p \in 0 .. c.n - 1 |-> NoServo], slave |-> c.slave, firstSlavePin |-> c.firstSlavePin, hw |-> NoChip])

PCA9685_begin(d) == IF d.hw.up THEN d ELSE Failed(d)

PCA9685pwm_begin(d) == IF d.hw.up THEN d ELSE Failed(d)

(* Both drivers wait for the request before this one; when it failed the   *)
(* device is given up.                                                     *)
writeDevice(d, pin, value) ==
  LET w == Await(d)
  IN  IF w.rb # "OK" THEN Failed(w) ELSE Ask(w, [what |-> "pwm", pin |-> pin, value |-> value])

pwm_writeDevice(d, pin, value) ==
  LET w == Await(d)
  IN  IF w.rb # "OK" THEN Failed(w) ELSE Ask(w, [what |-> "pwm", pin |-> pin, value |-> value])

Clip(value) == IF value > 4095 THEN 4095 ELSE IF value < 0 THEN 0 ELSE value

PCA9685pwm_writeAnalogue(d, pin, value) ==
  IF d.state = "FAILED" THEN d ELSE pwm_writeDevice(d, pin, Clip(value))

NumSteps(profile, duration) ==
  CASE profile.speed = "Fast"   -> 10
    [] profile.speed = "Medium" -> 20
    [] profile.speed = "Slow"   -> 40
    [] profile.speed = "Bounce" -> Len(bounceProfile)
    [] OTHER                    -> duration * 2 + 1

(* Start an animation from where the servo is now.  A pin that was never   *)
(* configured gets default data, and starts at the target.                 *)
Animate(s, value, profile, duration) ==
  LET t == IF s.set THEN s
           ELSE [NoServo EXCEPT !.set = TRUE, !.active = 4095, !.current = value, !.profile = InstantKept]
  IN  [t EXCEPT !.currentProfile = profile, !.numSteps = NumSteps(profile, duration),
                !.step = 0, !.to = value, !.from = t.current]

PCA9685_writeAnalogue(d, pin, value, profile, duration) ==
  IF d.state = "FAILED" THEN d
  ELSE [d EXCEPT !.servo[pin] = Animate(@, Clip(value), profile, duration)]

Servo_writeAnalogue(d, pin, value, profile, duration) ==
  IF d.state = "FAILED" THEN d
  ELSE [d EXCEPT !.servo[pin] = Animate(@, Clip(value), profile, duration)]

(* _write uses the configured positions, or plays a digital pin.           *)
PCA9685_write(d, pin, value) ==
  LET s == d.servo[pin]
  IN  IF s.set
      THEN PCA9685_writeAnalogue(d, pin, IF value # 0 THEN s.active ELSE s.inactive, s.profile, s.duration)
      ELSE PCA9685_writeAnalogue(d, pin, IF value # 0 THEN 4095 ELSE 0, InstantKept, 0)

Servo_write(d, pin, value) ==
  LET s == d.servo[pin]
  IN  IF s.set
      THEN Servo_writeAnalogue(d, pin, IF value # 0 THEN s.active ELSE s.inactive, s.profile, s.duration)
      ELSE Servo_writeAnalogue(d, pin, IF value # 0 THEN 4095 ELSE 0, InstantKept, 0)

Configured(s, p) ==
  [s EXCEPT !.set = TRUE, !.active = p.active, !.inactive = p.inactive,
            !.profile = p.profile, !.duration = p.duration]

PCA9685_configure(d, pin, p) ==
  LET c == [d EXCEPT !.servo[pin] = Configured(@, p)]
  IN  IF p.state = -1 THEN c
      ELSE PCA9685_writeAnalogue(c, pin, IF p.state # 0 THEN p.active ELSE p.inactive, Instant, 0)

Servo_configure(d, pin, p) ==
  LET c == [d EXCEPT !.servo[pin] = Configured(@, p)]
  IN  IF d.state = "FAILED" THEN d
      ELSE IF p.state = -1 THEN c
      ELSE Servo_writeAnalogue(c, pin, IF p.state # 0 THEN p.active ELSE p.inactive, Instant, 0)

(* Arduino's map(): integer division truncates towards zero.               *)
Quotient(a, b) == IF a >= 0 THEN a \div b ELSE -((-a) \div b)

Interpolate(x, of, from, to) == Quotient(x * (to - from), of) + from

(* Mutant: one step too many.                                              *)
Refresh_overrun(s) ==
  LET t == IF s.step = 0 /\ s.from = s.to THEN [s EXCEPT !.step = s.numSteps - 1] ELSE s
      n == t.step + 1
      at == Interpolate(n, t.numSteps, t.from, t.to)
  IN  IF ~s.set \/ s.numSteps = 0 THEN [s |-> s, send |-> -1]
      ELSE IF t.step <= t.numSteps THEN [s |-> [t EXCEPT !.step = n, !.current = at], send |-> at]
      ELSE [s |-> [t EXCEPT !.numSteps = 0], send |-> IF t.currentProfile.keep THEN -1 ELSE 0]

(* One refresh of one pin: the servo data after it and what is sent to the *)
(* output (-1: nothing).                                                   *)
Refresh(s) ==
  LET t == IF s.step = 0 /\ s.from = s.to THEN [s EXCEPT !.step = s.numSteps - 1] ELSE s
      n == t.step + 1
      at == IF t.currentProfile.speed = "Bounce"
            THEN Interpolate(bounceProfile[n], 100, t.from, t.to)
            ELSE Interpolate(n, t.numSteps, t.from, t.to)
  IN  CASE ~s.set \/ s.numSteps = 0 -> [s |-> s, send |-> -1]
        [] s.set /\ s.numSteps # 0 /\ t.step < t.numSteps ->
             [s |-> [t EXCEPT !.step = n, !.current = at], send |-> at]
        [] s.set /\ s.numSteps # 0 /\ t.step \in t.numSteps .. t.numSteps + catchupSteps - 1 ->
             [s |-> [t EXCEPT !.step = n], send |-> -1]
        [] OTHER ->
             IF t.current = 0 THEN [s |-> t, send |-> -1]
             ELSE [s |-> [t EXCEPT !.numSteps = 0],
                   send |-> IF t.currentProfile.keep THEN -1 ELSE 0]

PCA9685_updatePosition(d, pin) ==
  LET r == Refresh(d.servo[pin])
      u == [d EXCEPT !.servo[pin] = r.s]
  IN  IF r.send = -1 THEN u ELSE writeDevice(u, pin, r.send)

(* PCA9685::_loop refreshes pins 0 .. _nPins-1 in turn.                    *)
PCA9685_loop(d) ==
  LET upTo[p \in -1 .. d.n - 1] == IF p = -1 THEN d ELSE PCA9685_updatePosition(upTo[p - 1], p)
  IN  delayUntil(upTo[d.n - 1])

(* Servo::updatePosition: the filter f and the device s behind it.  The    *)
(* filter uses the slave's _writeAnalogue with its default profile.        *)
SlaveWrite(s, pin, value) ==
  IF s.kind = "PCA9685" THEN PCA9685_writeAnalogue(s, pin, value, Instant, 0)
                        ELSE PCA9685pwm_writeAnalogue(s, pin, value)

Servo_updatePosition(fs, pin) ==
  LET r == Refresh(fs.f.servo[pin])
  IN  [f |-> [fs.f EXCEPT !.servo[pin] = r.s],
       s |-> IF r.send = -1 THEN fs.s ELSE SlaveWrite(fs.s, fs.f.firstSlavePin + pin - fs.s.first, r.send)]

Servo_loop(f, s) ==
  LET upTo[p \in -1 .. f.n - 1] ==
        IF p = -1 THEN [f |-> f, s |-> s] ELSE Servo_updatePosition(upTo[p - 1], p)
  IN  IF f.state = "FAILED" THEN [f |-> f, s |-> s]
      ELSE [upTo[f.n - 1] EXCEPT !.f = delayUntil(@)]

(* _read: an animation is in progress.                                     *)
Moving(d, pin) == d.state # "FAILED" /\ d.servo[pin].set /\ d.servo[pin].step < d.servo[pin].numSteps

Servo_read(d, pin) == IF Moving(d, pin) THEN 1 ELSE 0
=============================================================================
