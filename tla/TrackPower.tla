------------------------------ MODULE TrackPower ------------------------------
(***************************************************************************)
(* MotorDriver::checkPowerOverload and the power part of TrackManager: the *)
(* tracks, their modes, the power commands and the short circuit handling, *)
(* one track for each call of TrackManager::loop.  DCCACK runs in the same *)
(* loop and switches the programming track by itself.                      *)
(*                                                                         *)
(* Time advances by Tick.  The code only asks for the time since the       *)
(* current power mode was entered (lastPowerChange), since the last bad    *)
(* sample and since any track was overloaded; these are ages that stop     *)
(* beyond the limits they are compared with.  The code keeps them from     *)
(* wrapping in the same way (microsSinceLastPowerChange).                  *)
(***************************************************************************)
EXTENDS Integers, FiniteSets, FiniteSetsExt, Functions, TLC

CONSTANT
    Sessions                \* bound: the kinds of behaviour, see below

POWERMODE == {"OFF", "ON", "OVERLOAD", "ALERT"}
TRACK_MODE == {"NONE", "MAIN", "PROG", "DC"}

\* Nothing; more than a programming track may draw; more than any track may
\* draw; a fault pin; a fault pin and too much current.
LOAD == {"none", "mid", "over", "fault", "short"}

\* A behaviour is one session: 0..lastTrack, the tracks that share a fault pin,
\* what may happen to a track, whether commands come at any moment or only when
\* all is quiet, whether decoders are programmed, how many commands come, and the
\* time limits of MotorDriver.h.
Session ==
    [tracks : SUBSET Nat, commonFault : SUBSET Nat, loads : SUBSET LOAD,
     hasty : BOOLEAN, programs : BOOLEAN, commands : Nat,
     IGNORE_FAULT_LOW : Nat \ {0}, IGNORE_FAULT_HIGH : Nat \ {0},
     IGNORE_CURRENT : Nat \ {0}, ALERT_GOOD : Nat \ {0}, ALL_GOOD : Nat \ {0},
     OVERLOAD_WAIT : Nat \ {0}, RETRY_MAX : Nat \ {0}]

ASSUME PowerAssumption ==
    \A name \in DOMAIN Sessions :
        LET s == Sessions[name]
        IN  /\ s \in Session
            /\ IsFiniteSet(s.tracks) /\ s.tracks # {}
            /\ s.tracks = 0..(Cardinality(s.tracks) - 1)
            /\ s.commonFault \subseteq s.tracks /\ "none" \in s.loads
            /\ s.IGNORE_FAULT_HIGH <= s.IGNORE_FAULT_LOW
            /\ s.OVERLOAD_WAIT <= s.RETRY_MAX

VARIABLES
    driver,             \* the MotorDriver of each track
    globalOverload,     \* age of globalOverloadStart
    railcomPaused,      \* DCCWaveform::railcomPaused
    nextCycleTrack,
    load,               \* what is on each track
    dontLimitProg,      \* the tracks are joined or the programming track is boosted
    ack,                \* DCCACK: the program that runs and what it remembers
    rePowered,          \* tracks that DCCACK::callback powered again after its gap
    unchecked,          \* tracks not checked since the last Tick
    unseen,             \* tracks not checked since they were last switched
    told,               \* what clients were last told of the power
    untold,             \* tracks that DCCACK switched since then
    retries,            \* retries of each track since it was last reset
    commands,           \* commands left
    session             \* the session this behaviour is

vars == <<driver, globalOverload, railcomPaused, nextCycleTrack, load, dontLimitProg,
          ack, rePowered, unchecked, unseen, told, untold, retries, commands, session>>

S == session
Tracks == S.tracks
CommonFault == S.commonFault
IGNORE_FAULT_LOW == S.IGNORE_FAULT_LOW
IGNORE_FAULT_HIGH == S.IGNORE_FAULT_HIGH
IGNORE_CURRENT == S.IGNORE_CURRENT
ALERT_GOOD == S.ALERT_GOOD
ALL_GOOD == S.ALL_GOOD
OVERLOAD_WAIT == S.OVERLOAD_WAIT
RETRY_MAX == S.RETRY_MAX

\* The longest an alert may last.
ALERT_MAX == Max({IGNORE_FAULT_LOW, IGNORE_CURRENT}) + ALERT_GOOD + 1

\* One older, up to the first age that is beyond a limit.
Older(n, limit) == IF n > limit THEN n ELSE n + 1
AgeLimit(p) == CASE p = "ON" -> ALL_GOOD [] p = "OVERLOAD" -> RETRY_MAX [] OTHER -> ALERT_MAX

NewDriver(mode) ==
    [power |-> "OFF", last |-> "OFF", mode |-> mode, since |-> 0, bad |-> 0,
     wait |-> OVERLOAD_WAIT, throttled |-> FALSE]

\* What broadcastPower tells of the drivers ds: <p1 t> or <p0 t> for each track,
\* <p0> or <p1> (nothing if some are on), <p1 MAIN>, <p1 PROG>, and PPA.
isActive(ds, t) == ds[t].mode # "NONE"

getProgPower(ds) == \E t \in Tracks : ds[t].mode = "PROG" /\ ds[t].power = "ON"

getMainPower(ds) ==
    LET mains == {t \in Tracks : ds[t].mode = "MAIN"}
    IN  /\ \A t \in mains : ds[t].power # "OFF"
        /\ \E t \in mains : ds[t].power = "ON"

PowerState(ds) ==
    LET active == {t \in Tracks : isActive(ds, t)}
        on == {t \in active : ds[t].power = "ON"}
        off == {t \in active : ds[t].power = "OFF"}
    IN  IF on = {} \/ off = active THEN "0" ELSE IF on = Tracks THEN "1" ELSE "2"

broadcastPower(ds) ==
    [track |-> [t \in Tracks |-> ds[t].power = "ON"], state |-> PowerState(ds),
     main |-> getMainPower(ds), prog |-> getProgPower(ds),
     PPA |-> IF getMainPower(ds) THEN "1" ELSE PowerState(ds)]

\* The statics of DCCACK as far as the power goes: progDriver, autoPowerOff,
\* ackManagerRejoin and callbackState (AFTER_READ, AFTER_WRITE and WAITING_100 are
\* one: no power is switched in them).
NoProgram ==
    [active |-> FALSE, progDriver |-> 0, autoPowerOff |-> FALSE, rejoin |-> FALSE,
     callbackState |-> "READY"]

Init ==
    /\ session \in Range(Sessions)
    /\ driver = [t \in Tracks |-> NewDriver(CASE t = 0 -> "MAIN" [] t = 1 -> "PROG"
                                               [] OTHER -> "NONE")]
    /\ globalOverload = 0
    /\ railcomPaused = FALSE
    /\ nextCycleTrack = 0
    /\ load = [t \in Tracks |-> "none"]
    /\ dontLimitProg = FALSE
    /\ ack = NoProgram /\ rePowered = {}
    /\ unchecked = Tracks /\ unseen = {}
    /\ told = broadcastPower(driver) /\ untold = {}
    /\ retries = [t \in Tracks |-> 0]
    /\ commands = S.commands

-----------------------------------------------------------------------------
Powered(t) == driver[t].power \in {"ON", "ALERT"}

\* A fault pin is active while a track that drives it is powered and at fault.
checkFault(t) ==
    \E u \in IF t \in CommonFault THEN CommonFault ELSE {t} :
        Powered(u) /\ load[u] \in {"fault", "short"}

useProgLimit(t) == ~ack.active /\ ~dontLimitProg /\ driver[t].mode = "PROG"

checkCurrent(t) ==
    /\ Powered(t)
    /\ load[t] \in {"over", "short"} \/ (load[t] = "mid" /\ useProgLimit(t))

\* MotorDriver::setPower on a driver.
setPower(d, p) == IF d.power = p THEN d ELSE [d EXCEPT !.power = p, !.since = 0]

throttleable(d) == d.mode \in {"MAIN", "PROG"}

throttleInrush(d, on) == IF throttleable(d) THEN [d EXCEPT !.throttled = on] ELSE d

\* What one call of checkPowerOverload does to driver t: d is the new driver,
\* on what it tells throttleInrush (the railcom pause goes with it).
Checked(t, d, calls) ==
    /\ driver' = [driver EXCEPT ![t] = d]
    /\ railcomPaused' = IF calls # {} /\ throttleable(driver[t])
                        THEN calls = {TRUE} ELSE railcomPaused
    /\ globalOverload' = IF d.power = "OVERLOAD" /\ driver[t].power # "OVERLOAD"
                         THEN 0 ELSE globalOverload

\* Mutant: the wait survives a power off.
checkOff_KeepWait(t) ==
    /\ driver[t].power = "OFF"
    /\ Checked(t, [driver[t] EXCEPT !.last = "OFF"], {})
    /\ retries' = [retries EXCEPT ![t] = 0]

checkOff(t) ==
    /\ driver[t].power = "OFF"
    /\ Checked(t, [driver[t] EXCEPT !.last = "OFF", !.wait = OVERLOAD_WAIT], {})
    /\ retries' = [retries EXCEPT ![t] = 0]

checkOn(t) ==
    /\ driver[t].power = "ON"
    /\ \E d \in {[driver[t] EXCEPT !.last = "ON"]} :
          \/ /\ checkFault(t) \/ checkCurrent(t)
             /\ Checked(t, setPower(d, "ALERT"), {})
             /\ UNCHANGED retries
          \/ /\ ~checkFault(t) /\ ~checkCurrent(t)
             /\ d.since > ALL_GOOD
             /\ Checked(t, [d EXCEPT !.wait = OVERLOAD_WAIT], {})
             /\ retries' = [retries EXCEPT ![t] = 0]
          \/ /\ ~checkFault(t) /\ ~checkCurrent(t)
             /\ d.since <= ALL_GOOD
             /\ Checked(t, d, {})
             /\ UNCHANGED retries

\* Mutant: the alert clock restarts with every bad sample.
Ignored_Restarts(t) ==
    IF ~checkFault(t) THEN driver[t].bad < IGNORE_CURRENT
    ELSE driver[t].bad < (IF checkCurrent(t) THEN IGNORE_FAULT_HIGH ELSE IGNORE_FAULT_LOW)

\* A bad sample is ignored for a while after the alert began.
Ignored(t) ==
    IF ~checkFault(t) THEN driver[t].since < IGNORE_CURRENT
    ELSE driver[t].since < (IF checkCurrent(t) THEN IGNORE_FAULT_HIGH ELSE IGNORE_FAULT_LOW)

\* A bad sample in ALERT.
badSample(t, d) ==
    \/ /\ Ignored(t)
       /\ IF checkFault(t) THEN Checked(t, throttleInrush(d, TRUE), {TRUE})
                           ELSE Checked(t, d, {})
    \/ /\ ~Ignored(t)
       /\ Checked(t, setPower(throttleInrush(d, FALSE), "OVERLOAD"), {FALSE})

\* A good sample in ALERT.
goodSample(t, d) ==
    \/ /\ d.bad > ALERT_GOOD
       /\ Checked(t, setPower(throttleInrush(d, FALSE), "ON"), {FALSE})
    \/ /\ d.bad <= ALERT_GOOD /\ d.bad > ALERT_GOOD \div 2
       /\ Checked(t, throttleInrush(d, FALSE), {FALSE})
    \/ /\ d.bad <= ALERT_GOOD \div 2
       /\ Checked(t, d, {})

checkAlert(t) ==
    /\ driver[t].power = "ALERT"
    /\ \E bad \in {checkFault(t) \/ checkCurrent(t)} :
       \E d \in {[driver[t] EXCEPT !.last = "ALERT",
                                   !.bad = IF bad \/ driver[t].last # "ALERT" THEN 0 ELSE @]} :
          \/ bad /\ badSample(t, d)
          \/ ~bad /\ goodSample(t, d)
    /\ UNCHANGED retries

NextWait(w) == Min({2 * w, RETRY_MAX})

\* The rest of an overloaded track is over.
RestOver(t) ==
    (IF t \in CommonFault THEN globalOverload ELSE driver[t].since) > driver[t].wait

\* Mutant: a check of a track that rests restarts the common wait.
checkOverload_Restart(t) ==
    /\ driver[t].power = "OVERLOAD"
    /\ \E d \in {[driver[t] EXCEPT !.last = "OVERLOAD"]} :
          \/ /\ RestOver(t)
             /\ Checked(t, setPower([d EXCEPT !.wait = NextWait(@)], "ALERT"), {})
             /\ UNCHANGED retries
          \/ /\ ~RestOver(t)
             /\ driver' = [driver EXCEPT ![t] = d]
             /\ globalOverload' = 0
             /\ UNCHANGED <<railcomPaused, retries>>

checkOverload(t) ==
    /\ driver[t].power = "OVERLOAD"
    /\ \E d \in {[driver[t] EXCEPT !.last = "OVERLOAD"]} :
          \/ /\ RestOver(t)
             /\ Checked(t, setPower([d EXCEPT !.wait = NextWait(@)], "ALERT"), {})
             /\ retries' = [retries EXCEPT ![t] = Min({@ + 1, RETRY_MAX})]
          \/ /\ ~RestOver(t)
             /\ Checked(t, d, {})
             /\ UNCHANGED retries

checkPowerOverload(t) ==
    checkOff(t) \/ checkOn(t) \/ checkAlert(t) \/ checkOverload(t)

\* TrackManager::loop.
loop ==
    /\ checkPowerOverload(nextCycleTrack)
    /\ nextCycleTrack' = (nextCycleTrack + 1) % Cardinality(Tracks)
    /\ unchecked' = unchecked \ {nextCycleTrack}
    /\ unseen' = unseen \ {nextCycleTrack}
    /\ UNCHANGED <<load, dontLimitProg, ack, rePowered, told, untold, commands, session>>

-----------------------------------------------------------------------------
\* Commands.  Quiet: no track is in ALERT and each has been checked since the
\* last command.
Quiet == unseen = {} /\ \A t \in Tracks : driver[t].power # "ALERT"

Command ==
    /\ commands > 0 /\ (S.hasty \/ Quiet)
    /\ commands' = commands - 1
    /\ unseen' = Tracks
    /\ UNCHANGED <<globalOverload, railcomPaused, nextCycleTrack, load, dontLimitProg,
                   unchecked, session>>

\* What the comment on checkPowerOverload says of a power off.
Reset(ts, p) == retries' = [t \in Tracks |-> IF t \in ts /\ p = "OFF" THEN 0 ELSE retries[t]]

\* broadcastPower, if something changed.
Broadcast(changed) ==
    /\ told' = IF changed THEN broadcastPower(driver') ELSE told
    /\ untold' = IF changed THEN {} ELSE untold

\* <0> and <1>; <0 MAIN>, <0 PROG> and so on; <1 JOIN>.
ModeGroups == {{"MAIN", "PROG", "DC"}, {"MAIN"}, {"PROG"}, {"MAIN", "PROG"}}

\* setTrackPower for all tracks of some modes: <0>, <1>, <1 MAIN>...
setTrackPowerByMode(modes, p) ==
    \E ts \in {{t \in Tracks : driver[t].mode \in modes}} :
       /\ Command
       /\ driver' = [t \in Tracks |->
                        IF t \in ts THEN setPower(driver[t], p) ELSE driver[t]]
       /\ Broadcast(\E t \in ts : driver[t].power # p)
       /\ Reset(ts, p)
       /\ rePowered' = rePowered \ ts /\ UNCHANGED ack

\* setTrackPower for one track; a track without a mode stays off.
setTrackPower(t, p) ==
    \E q \in {IF driver[t].mode = "NONE" THEN "OFF" ELSE p} :
       /\ Command
       /\ driver' = [driver EXCEPT ![t] = setPower(@, q)]
       /\ Broadcast(driver'[t].power # driver[t].power)
       /\ Reset({t}, q)
       /\ rePowered' = rePowered \ {t} /\ UNCHANGED ack

\* Mutant: the old programming track keeps its mode.
setTrackMode_KeepProg(t, mode) ==
    /\ Command
    /\ driver' = [driver EXCEPT ![t] =
            LET d == [@ EXCEPT !.mode = mode, !.throttled = FALSE]
            IN  IF @.mode = mode THEN d ELSE setPower(d, "OFF")]
    /\ Broadcast(TRUE)
    /\ Reset({t}, IF driver[t].mode = mode THEN "ON" ELSE "OFF")
    /\ rePowered' = IF driver[t].mode = mode THEN rePowered ELSE rePowered \ {t}
    /\ UNCHANGED ack

\* setTrackMode: there is one programming track; a track that changes its mode
\* is switched off; its brake pin is set afresh; streamTrackState tells the clients.
setTrackMode(t, mode) ==
    \E losers \in {{u \in Tracks \ {t} : mode = "PROG" /\ driver[u].mode = "PROG"}} :
    \E off \in {losers \cup (IF driver[t].mode = mode THEN {} ELSE {t})} :
       /\ Command
       /\ driver' = [u \in Tracks |->
            IF u \in losers THEN [setPower(driver[u], "OFF") EXCEPT !.mode = "NONE"]
            ELSE IF u # t THEN driver[u]
            ELSE LET d == [driver[t] EXCEPT !.mode = mode, !.throttled = FALSE]
                 IN  IF driver[t].mode = mode THEN d ELSE setPower(d, "OFF")]
       /\ Broadcast(TRUE)
       /\ Reset(off, "OFF")
       /\ rePowered' = rePowered \ off /\ UNCHANGED ack

\* <s> broadcasts the power.
status ==
    /\ UNCHANGED <<driver, globalOverload, railcomPaused, nextCycleTrack, load, dontLimitProg,
                   ack, rePowered, unchecked, unseen, retries, commands, session>>
    /\ Broadcast(TRUE)

-----------------------------------------------------------------------------
\* DCCACK.  It switches its driver by MotorDriver::setPower, which tells nobody, and
\* keeps that driver until the program ends, whatever mode the track has by then.

switch(t, p) ==
    /\ driver' = [driver EXCEPT ![t] = setPower(@, p)]
    /\ untold' = IF driver[t].power = p THEN untold ELSE untold \cup {t}
    /\ Reset({t}, p)

noSwitch == UNCHANGED <<driver, untold, retries>>

\* Setup, for a request while the tracks are joined or not.  A second request takes
\* over what it finds.
Setup(t, rejoin) ==
    /\ S.programs /\ driver[t].mode = "PROG"
    /\ Command
    /\ ack' = [active |-> TRUE, progDriver |-> t, autoPowerOff |-> driver[t].power = "OFF",
               rejoin |-> rejoin, callbackState |-> "AFTER"]
    /\ IF driver[t].power = "OFF" THEN switch(t, "ON") ELSE noSwitch
    /\ UNCHANGED <<rePowered, told>>

\* A step of callback.
Callback ==
    /\ ack.active
    /\ UNCHANGED <<globalOverload, railcomPaused, nextCycleTrack, load, dontLimitProg,
                   unchecked, told, commands, session>>

\* The power is kept for a rejoin.
KeepsPower == ack.rejoin /\ ~ack.autoPowerOff

\* The gap before a rejoin begins...
gap ==
    /\ Callback /\ ack.callbackState = "AFTER" /\ KeepsPower
    /\ switch(ack.progDriver, "OFF")
    /\ ack' = [ack EXCEPT !.callbackState = "WAITING_30"]
    /\ unseen' = unseen \cup {ack.progDriver}
    /\ UNCHANGED rePowered

\* ...and ends: in 30 ms every track is checked.
gapOver ==
    /\ Callback /\ ack.callbackState = "WAITING_30"
    /\ S.hasty \/ ack.progDriver \notin unseen
    /\ switch(ack.progDriver, "ON")
    /\ ack' = [ack EXCEPT !.callbackState = "READY"]
    /\ rePowered' = rePowered \cup {ack.progDriver}
    /\ unseen' = unseen \cup {ack.progDriver}

finish ==
    /\ Callback
    /\ ack.callbackState = "READY" \/ (ack.callbackState = "AFTER" /\ ~KeepsPower)
    /\ IF ack.autoPowerOff THEN switch(ack.progDriver, "OFF") ELSE noSwitch
    /\ ack' = NoProgram
    /\ unseen' = unseen \cup {ack.progDriver}
    /\ UNCHANGED rePowered

-----------------------------------------------------------------------------
\* The layout and time.

setLoad(t, l) ==
    /\ load[t] # l
    /\ load' = [load EXCEPT ![t] = l]
    /\ UNCHANGED <<driver, globalOverload, railcomPaused, nextCycleTrack, dontLimitProg, ack,
                   rePowered, unchecked, unseen, told, untold, retries, commands, session>>

setDontLimitProg ==
    /\ \E t \in Tracks : driver[t].mode = "PROG"
    /\ "mid" \in S.loads
    /\ dontLimitProg' = ~dontLimitProg
    /\ UNCHANGED <<driver, globalOverload, railcomPaused, nextCycleTrack, load, ack, rePowered,
                   unchecked, unseen, told, untold, retries, commands, session>>

\* The time since the last power change that checkPowerOverload looks at: none
\* when off, and the common one for an overload on a shared fault pin.
Aged(t, d) ==
    [d EXCEPT !.since = IF d.power = "OFF" \/ (d.power = "OVERLOAD" /\ t \in CommonFault)
                        THEN @ ELSE Older(@, AgeLimit(d.power)),
              !.bad = IF d.power = "ALERT" THEN Older(@, ALERT_GOOD) ELSE @]

\* Every track is checked at least once in a tick.  An age that is set to 0
\* before it is read again stays as it is, or 0, meanwhile.
Tick ==
    /\ unchecked = {}
    /\ unchecked' = Tracks
    /\ driver' = [t \in Tracks |-> Aged(t, driver[t])]
    /\ globalOverload' = IF \E t \in CommonFault : driver[t].power = "OVERLOAD"
                         THEN Older(globalOverload, RETRY_MAX) ELSE 0
    /\ UNCHANGED <<railcomPaused, nextCycleTrack, load, dontLimitProg, ack, rePowered, unseen,
                   told, untold, retries, commands, session>>

Next ==
    \/ loop
    \/ \E p \in {"OFF", "ON"} :
          \/ \E modes \in ModeGroups : setTrackPowerByMode(modes, p)
          \/ \E t \in Tracks : setTrackPower(t, p)
    \/ \E t \in Tracks, mode \in TRACK_MODE : setTrackMode(t, mode)
    \/ status
    \/ \E t \in Tracks, rejoin \in BOOLEAN : Setup(t, rejoin)
    \/ gap \/ gapOver \/ finish
    \/ \E t \in Tracks, l \in S.loads : setLoad(t, l)
    \/ setDontLimitProg
    \/ Tick

Spec == Init /\ [][Next]_vars

\* The main loop runs and time passes: only loop takes tracks out of unchecked, one
\* by one, and only Tick refills it.
Checking == unchecked' = unchecked \ {nextCycleTrack}
Ticking == unchecked = {} /\ unchecked' = Tracks

FairSpec == Spec /\ WF_unchecked(Checking) /\ WF_unchecked(Ticking)

-----------------------------------------------------------------------------
(* An alert does not last: whatever the samples are, good or bad in any     *)
(* order, within the longest ignored time and one good period the track is  *)
(* either cut or back to normal (checkPowerOverload, ALERT).                *)
AlertBounded ==
    \A t \in Tracks : driver[t].power = "ALERT" =>
        driver[t].since <= ALERT_MAX

(* At most one track is the programming track, and a track without a mode   *)
(* is off, whatever sequence of mode changes, power commands and programs   *)
(* (setTrackMode, setTrackPower), but for one that DCCACK::callback powered *)
(* again after it had lost its mode in the gap before a rejoin.  What the   *)
(* clients were told of the power stays on the safe side of it: after any   *)
(* mix of commands, mode changes, short circuits and retries, no track that *)
(* is off was last told to be on, neither by its letter nor by <p1> nor, if *)
(* it is a main track, by PPA1 (broadcastPower is only called when          *)
(* didChange or oldpower says so), unless DCCACK, which tells nobody, has   *)
(* switched it since.                                                       *)
ModesOK ==
    /\ \A t \in Tracks \ rePowered : driver[t].mode = "NONE" => driver[t].power = "OFF"
    /\ Cardinality({t \in Tracks : driver[t].mode = "PROG"}) <= 1
    /\ \A t \in Tracks \ untold : driver[t].power = "OFF" =>
          /\ ~told.track[t] /\ told.state # "1"
          /\ driver[t].mode = "MAIN" => told.PPA # "1"

\* 2^n.
Doublings[n \in Nat] == IF n = 0 THEN 1 ELSE 2 * Doublings[n - 1]

(* The wait before the next retry is the first wait doubled once for each   *)
(* retry since the last power off or long good period, up to the maximum    *)
(* (MotorDriver.cpp 529-537).                                               *)
BackOff ==
    ~S.hasty => \A t \in Tracks : driver[t].power # "OFF" =>
        driver[t].wait = Min({OVERLOAD_WAIT * Doublings[retries[t]], RETRY_MAX})

AllTracks == UNION {Sessions[s].tracks : s \in DOMAIN Sessions}

\* Track t is cut.
Cut(t) == driver[t].power = "ALERT" /\ driver'[t].power = "OVERLOAD"

(* When every load is gone for good and no command comes, a track that was  *)
(* on comes back to ON and stays there, also when it shares its fault pin   *)
(* (OVERLOAD to ALERT to ON of checkPowerOverload).  A track that stays     *)
(* short circuited and is not switched off is retried and cut again and     *)
(* again, also when another track on the same fault pin restarts the common *)
(* wait (globalOverloadStart).                                              *)
Retried ==
    /\ <>[](\A t \in Tracks : load[t] = "none")
          => <>[](\A t \in Tracks : driver[t].power \in {"ON", "OFF"})
    /\ \A t \in AllTracks :
          <>[](t \in Tracks /\ load[t] = "short" /\ driver[t].power # "OFF")
              => []<><<t \in Tracks /\ Cut(t)>>_vars
=============================================================================
