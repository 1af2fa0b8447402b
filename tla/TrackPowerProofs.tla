--------------------------- MODULE TrackPowerProofs ---------------------------
(***************************************************************************)
(* The short circuit handling, the track modes and what clients are told   *)
(* of them, for any number of tracks, any sharing of fault pins and any    *)
(* time limits of MotorDriver.h.                                           *)
(***************************************************************************)
EXTENDS TrackPower, SequenceTheorems, WellFoundedInduction, FiniteSetTheorems, TLAPS

-----------------------------------------------------------------------------
(* The provers have no induction of their own: it is stated for a set      *)
(* instead of a predicate, and follows from the library's WFMin.           *)

\* A set that holds 0 and the successor of each natural it holds, holds them all.
LEMMA SetInduction ==
    ASSUME NEW T, 0 \in T, \A n \in Nat : n \in T => n + 1 \in T
    PROVE  \A n \in Nat : n \in T
<1> DEFINE R == OpToRel(<, Nat)
<1>1. /\ Nat \ T # {} => \E k \in Nat \ T : \A i \in Nat \ T : <<i, k>> \notin R
      /\ \A i, k \in Nat : i < k => <<i, k>> \in R
  BY NatLessThanWellFounded, WFMin DEF OpToRel
<1> HIDE DEF R
<1> QED
  BY <1>1, \A k \in Nat \ {0} : k - 1 \in Nat /\ k - 1 < k /\ (k - 1) + 1 = k

LEMMA MaxOfTwo ==
    ASSUME NEW a \in Int, NEW b \in Int
    PROVE  /\ Max({a, b}) \in {a, b}
           /\ Max({a, b}) >= a /\ Max({a, b}) >= b
<1>1. \E x \in {a, b} : \A y \in {a, b} : x >= y
  OBVIOUS
<1>2. /\ Max({a, b}) \in {a, b}
      /\ \A y \in {a, b} : Max({a, b}) >= y
  BY <1>1 DEF Max
<1> QED
  BY <1>2

LEMMA MinOfTwo ==
    ASSUME NEW a \in Int, NEW b \in Int
    PROVE  Min({a, b}) \in {a, b}
<1>1. \E x \in {a, b} : \A y \in {a, b} : x =< y
  OBVIOUS
<1> QED
  BY <1>1 DEF Min

-----------------------------------------------------------------------------
(* The types.  They fix what a driver is, and that loop only looks at      *)
(* tracks that exist.                                                      *)

Driver ==
    [power : POWERMODE, last : POWERMODE, mode : TRACK_MODE, since : Nat, bad : Nat,
     wait : Nat, throttled : BOOLEAN]

Program ==
    [active : BOOLEAN, progDriver : Tracks, autoPowerOff : BOOLEAN, rejoin : BOOLEAN,
     callbackState : {"READY", "AFTER", "WAITING_30"}]

TypeOK ==
    /\ session \in Range(Sessions)
    /\ driver \in [Tracks -> Driver]
    /\ nextCycleTrack \in Tracks
    /\ unchecked \subseteq Tracks
    /\ ack \in Program

\* What PowerAssumption says of the session of this behaviour.
LEMMA SessionFacts ==
    ASSUME session \in Range(Sessions)
    PROVE  /\ session \in Session
           /\ IsFiniteSet(Tracks) /\ Cardinality(Tracks) \in Nat \ {0}
           /\ Tracks = 0..(Cardinality(Tracks) - 1)
           /\ CommonFault \subseteq Tracks
           /\ {IGNORE_FAULT_LOW, IGNORE_FAULT_HIGH, IGNORE_CURRENT, ALERT_GOOD, ALL_GOOD,
               OVERLOAD_WAIT, RETRY_MAX} \subseteq Nat \ {0}
           /\ IGNORE_FAULT_HIGH <= IGNORE_FAULT_LOW /\ OVERLOAD_WAIT <= RETRY_MAX
<1>1. PICK name \in DOMAIN Sessions : session = Sessions[name]
  BY DEF Range
<1>2. /\ session \in Session
      /\ IsFiniteSet(session.tracks) /\ session.tracks # {}
      /\ session.tracks = 0..(Cardinality(session.tracks) - 1)
      /\ session.commonFault \subseteq session.tracks
      /\ session.IGNORE_FAULT_HIGH <= session.IGNORE_FAULT_LOW
      /\ session.OVERLOAD_WAIT <= session.RETRY_MAX
  BY <1>1, PowerAssumption
<1>3. Cardinality(session.tracks) \in Nat
  BY <1>2, FS_CardinalityType
<1>4. Cardinality(session.tracks) # 0
  BY <1>2, FS_EmptySet
<1> QED
  BY <1>2, <1>3, <1>4
     DEF S, Tracks, CommonFault, IGNORE_FAULT_LOW, IGNORE_FAULT_HIGH, IGNORE_CURRENT,
         ALERT_GOOD, ALL_GOOD, OVERLOAD_WAIT, RETRY_MAX, Session

-----------------------------------------------------------------------------
(* What the operations on a driver do to it. *)

LEMMA SetPowerFacts ==
    ASSUME NEW d \in Driver, NEW p \in POWERMODE
    PROVE  LET e == setPower(d, p)
           IN  /\ e \in Driver /\ e.power = p /\ e.mode = d.mode /\ e.last = d.last
               /\ e.since = (IF d.power = p THEN d.since ELSE 0)
               /\ e.bad = d.bad /\ e.wait = d.wait
  BY Zenon DEF setPower, Driver

LEMMA ThrottleFacts ==
    ASSUME NEW d \in Driver, NEW on \in BOOLEAN
    PROVE  LET e == throttleInrush(d, on)
           IN  /\ e \in Driver /\ e.power = d.power /\ e.mode = d.mode /\ e.last = d.last
               /\ e.since = d.since /\ e.bad = d.bad /\ e.wait = d.wait
<1>1. [d EXCEPT !.throttled = on] \in Driver
  BY DEF Driver
<1> QED
  BY <1>1 DEF throttleInrush, Driver

\* The longest time for which bad samples are ignored.
Longest == Max({IGNORE_FAULT_LOW, IGNORE_CURRENT})

LEMMA LongestFacts ==
    ASSUME session \in Range(Sessions)
    PROVE  /\ Longest \in Nat \ {0}
           /\ Longest >= IGNORE_FAULT_LOW /\ Longest >= IGNORE_CURRENT
           /\ Longest >= IGNORE_FAULT_HIGH
           /\ ALERT_MAX = Longest + ALERT_GOOD + 1
<1>1. /\ IGNORE_FAULT_LOW \in Nat \ {0} /\ IGNORE_CURRENT \in Nat \ {0}
      /\ IGNORE_FAULT_HIGH \in Nat \ {0} /\ IGNORE_FAULT_HIGH <= IGNORE_FAULT_LOW
  BY SessionFacts
<1>2. /\ Longest \in {IGNORE_FAULT_LOW, IGNORE_CURRENT}
      /\ Longest >= IGNORE_FAULT_LOW /\ Longest >= IGNORE_CURRENT
  BY <1>1, MaxOfTwo DEF Longest
<1> QED
  BY <1>1, <1>2 DEF ALERT_MAX, Longest

LEMMA IgnoredBound ==
    ASSUME TypeOK, NEW t \in Tracks, Ignored(t)
    PROVE  driver[t].since < Longest
<1>1. driver[t].since \in Nat
  BY DEF TypeOK, Driver
<1>2. /\ Longest \in Nat
      /\ Longest >= IGNORE_FAULT_LOW /\ Longest >= IGNORE_CURRENT
      /\ Longest >= IGNORE_FAULT_HIGH
      /\ IGNORE_FAULT_LOW \in Nat /\ IGNORE_CURRENT \in Nat /\ IGNORE_FAULT_HIGH \in Nat
  BY LongestFacts, SessionFacts DEF TypeOK
<1>3. \/ driver[t].since < IGNORE_CURRENT
      \/ driver[t].since < IGNORE_FAULT_HIGH
      \/ driver[t].since < IGNORE_FAULT_LOW
  BY DEF Ignored
<1> QED
  BY ONLY <1>1, <1>2, <1>3

\* What one check makes of the driver of track t.  A track enters ALERT with its
\* clock at 0 and last set to the mode it comes from.  It stays in ALERT only on a
\* bad sample that is still ignored, or on a good one with bad within ALERT_GOOD.
AfterCheck(t, d) ==
    /\ d \in Driver /\ d.mode = driver[t].mode
    /\ d.power = "OFF" <=> driver[t].power = "OFF"
    /\ d.power = "ALERT" =>
          \/ d.since = 0 /\ d.last # "ALERT"
          \/ /\ driver[t].power = "ALERT" /\ d.last = "ALERT" /\ d.since = driver[t].since
             /\ \/ d.bad = 0 /\ d.since < Longest
                \/ d.bad = 0 /\ driver[t].last # "ALERT"
                \/ /\ d.bad = driver[t].bad /\ d.bad <= ALERT_GOOD
                   /\ driver[t].last = "ALERT"

LEMMA OffChecked ==
    ASSUME TypeOK, NEW t \in Tracks, checkOff(t)
    PROVE  \E d : AfterCheck(t, d) /\ driver' = [driver EXCEPT ![t] = d]
<1> DEFINE d == [driver[t] EXCEPT !.last = "OFF", !.wait = OVERLOAD_WAIT]
<1>1. driver[t] \in Driver /\ OVERLOAD_WAIT \in Nat
  BY SessionFacts DEF TypeOK
<1>2. d \in Driver /\ d.mode = driver[t].mode /\ d.power = driver[t].power
  BY Zenon, <1>1 DEF Driver, POWERMODE
<1>3. driver' = [driver EXCEPT ![t] = d] /\ driver[t].power = "OFF"
  BY DEF checkOff, Checked
<1> QED
  BY Zenon, <1>2, <1>3 DEF AfterCheck

LEMMA OnChecked ==
    ASSUME TypeOK, NEW t \in Tracks, checkOn(t)
    PROVE  \E d : AfterCheck(t, d) /\ driver' = [driver EXCEPT ![t] = d]
<1> DEFINE d == [driver[t] EXCEPT !.last = "ON"]
           w == [d EXCEPT !.wait = OVERLOAD_WAIT]
<1>1. driver[t] \in Driver /\ OVERLOAD_WAIT \in Nat /\ driver[t].power = "ON"
  BY SessionFacts DEF TypeOK, checkOn
<1>2. d \in Driver /\ d.mode = driver[t].mode /\ d.power = "ON" /\ d.last = "ON"
  BY <1>1 DEF Driver, POWERMODE
<1>3. w \in Driver /\ w.mode = driver[t].mode /\ w.power = "ON"
  BY Zenon, <1>1 DEF Driver, POWERMODE
<1> HIDE DEF d, w
<1>4. LET a == setPower(d, "ALERT")
      IN  /\ a \in Driver /\ a.mode = driver[t].mode /\ a.power = "ALERT"
          /\ a.since = 0 /\ a.last = "ON"
  BY <1>2, SetPowerFacts DEF POWERMODE
<1>5. \E e \in {setPower(d, "ALERT"), w, d} : driver' = [driver EXCEPT ![t] = e]
  BY Zenon DEF checkOn, Checked, d, w
<1>6. \A e \in {setPower(d, "ALERT"), w, d} : AfterCheck(t, e)
  BY <1>1, <1>2, <1>3, <1>4 DEF AfterCheck
<1> QED
  BY Zenon, <1>5, <1>6

LEMMA AlertChecked ==
    ASSUME TypeOK, NEW t \in Tracks, checkAlert(t)
    PROVE  \E d : /\ AfterCheck(t, d) /\ d.wait = driver[t].wait
               /\ driver' = [driver EXCEPT ![t] = d]
<1>1. PICK bad \in {checkFault(t) \/ checkCurrent(t)} :
      \E d \in {[driver[t] EXCEPT !.last = "ALERT",
                                  !.bad = IF bad \/ driver[t].last # "ALERT" THEN 0 ELSE @]} :
          \/ bad /\ badSample(t, d)
          \/ ~bad /\ goodSample(t, d)
  BY DEF checkAlert
<1> DEFINE d == [driver[t] EXCEPT !.last = "ALERT",
                                  !.bad = IF bad \/ driver[t].last # "ALERT" THEN 0 ELSE @]
<1>2. (bad /\ badSample(t, d)) \/ (~bad /\ goodSample(t, d))
  BY <1>1
<1>3. driver[t] \in Driver /\ driver[t].power = "ALERT" /\ ALERT_GOOD \in Nat
  BY SessionFacts DEF TypeOK, checkAlert
<1>4. /\ d \in Driver /\ d.mode = driver[t].mode /\ d.power = "ALERT" /\ d.last = "ALERT"
      /\ d.since = driver[t].since /\ d.wait = driver[t].wait
      /\ d.bad = IF bad \/ driver[t].last # "ALERT" THEN 0 ELSE driver[t].bad
  BY Zenon, <1>3 DEF Driver, POWERMODE
<1> HIDE DEF d
<1> DEFINE Out(p) == setPower(throttleInrush(d, FALSE), p)
<1>5. \A on \in BOOLEAN :
        LET e == throttleInrush(d, on)
        IN  /\ e \in Driver /\ e.mode = d.mode /\ e.power = "ALERT" /\ e.last = "ALERT"
            /\ e.since = d.since /\ e.bad = d.bad /\ e.wait = d.wait
  BY <1>4, ThrottleFacts
<1>6. \A p \in {"ON", "OVERLOAD"} : AfterCheck(t, Out(p)) /\ Out(p).wait = d.wait
  <2> TAKE p \in {"ON", "OVERLOAD"}
  <2>1. throttleInrush(d, FALSE) \in Driver /\ throttleInrush(d, FALSE).mode = d.mode
        /\ throttleInrush(d, FALSE).wait = d.wait
    BY Zenon, <1>5
  <2>2. p \in POWERMODE
    BY DEF POWERMODE
  <2>3. Out(p) \in Driver /\ Out(p).power = p /\ Out(p).mode = d.mode
        /\ Out(p).wait = d.wait
    BY Zenon, <2>1, <2>2, SetPowerFacts
  <2> QED
    BY Zenon, <2>3, <1>3, <1>4 DEF AfterCheck
<1>7. CASE bad /\ badSample(t, d)
  <2>1. CASE Ignored(t)
    <3>1. d.bad = 0 /\ d.since < Longest
      BY <1>4, <1>7, <2>1, IgnoredBound
    <3>2. AfterCheck(t, d) /\ AfterCheck(t, throttleInrush(d, TRUE))
      BY Zenon, <1>3, <1>4, <1>5, <3>1 DEF AfterCheck
    <3>3. \E e \in {d, throttleInrush(d, TRUE)} : driver' = [driver EXCEPT ![t] = e]
      BY Zenon, <1>7, <2>1 DEF badSample, Checked
    <3> QED
      BY Zenon, <1>4, <1>5, <3>2, <3>3
  <2>2. CASE ~Ignored(t)
    BY Zenon, <1>4, <1>6, <1>7, <2>2 DEF badSample, Checked
  <2> QED
    BY <2>1, <2>2
<1>8. CASE ~bad /\ goodSample(t, d)
  <2>0. d.bad \in Nat /\ ALERT_GOOD \in Nat /\ ALERT_GOOD \div 2 \in Nat
        /\ ALERT_GOOD \div 2 <= ALERT_GOOD
    BY <1>3, <1>4 DEF Driver
  <2>1. CASE d.bad > ALERT_GOOD
    <3>0. ~(d.bad <= ALERT_GOOD) /\ ~(d.bad <= ALERT_GOOD \div 2)
      BY <2>0, <2>1
    <3>1. Checked(t, Out("ON"), {FALSE})
      BY <1>8, <3>0, Zenon DEF goodSample
    <3>2. driver' = [driver EXCEPT ![t] = Out("ON")]
      BY <3>1 DEF Checked
    <3> QED
      BY Zenon, <1>4, <1>6, <3>2
  <2>2. CASE d.bad <= ALERT_GOOD
    <3>1. \/ d.bad = 0 /\ driver[t].last # "ALERT"
          \/ d.bad = driver[t].bad /\ driver[t].last = "ALERT"
      BY <1>4, <1>8
    <3>2. AfterCheck(t, d) /\ AfterCheck(t, throttleInrush(d, FALSE))
      BY Zenon, <1>3, <1>4, <1>5, <2>2, <3>1 DEF AfterCheck
    <3>0. ~(d.bad > ALERT_GOOD)
      BY <2>0, <2>2
    <3>3. Checked(t, throttleInrush(d, FALSE), {FALSE}) \/ Checked(t, d, {})
      BY <1>8, <3>0, Zenon DEF goodSample
    <3>4. \E e \in {d, throttleInrush(d, FALSE)} : driver' = [driver EXCEPT ![t] = e]
      BY Zenon, <3>3 DEF Checked
    <3> QED
      BY Zenon, <1>4, <1>5, <3>2, <3>4
  <2> QED
    BY <2>0, <2>1, <2>2
<1> QED
  BY <1>2, <1>7, <1>8

LEMMA OverloadChecked ==
    ASSUME TypeOK, NEW t \in Tracks, checkOverload(t)
    PROVE  \E d : AfterCheck(t, d) /\ driver' = [driver EXCEPT ![t] = d]
<1> DEFINE d == [driver[t] EXCEPT !.last = "OVERLOAD"]
           w == [d EXCEPT !.wait = NextWait(@)]
<1>1. driver[t] \in Driver /\ driver[t].power = "OVERLOAD"
  BY DEF TypeOK, checkOverload
<1>2. d \in Driver /\ d.mode = driver[t].mode /\ d.power = "OVERLOAD" /\ d.last = "OVERLOAD"
  BY <1>1 DEF Driver, POWERMODE
<1>3. NextWait(d.wait) \in Nat
  <2> HIDE DEF d
  <2>1. d.wait \in Nat
    BY <1>2 DEF Driver
  <2>2. RETRY_MAX \in Nat
    BY SessionFacts DEF TypeOK
  <2> QED
    BY <2>1, <2>2, MinOfTwo DEF NextWait
<1>4. w \in Driver /\ w.mode = d.mode /\ w.power = "OVERLOAD" /\ w.last = "OVERLOAD"
  BY Zenon, <1>2, <1>3 DEF Driver, POWERMODE
<1> HIDE DEF d, w
<1>5. LET a == setPower(w, "ALERT")
      IN  /\ a \in Driver /\ a.mode = driver[t].mode /\ a.power = "ALERT"
          /\ a.since = 0 /\ a.last = "OVERLOAD"
  BY <1>2, <1>4, SetPowerFacts DEF POWERMODE
<1>6. \E e \in {setPower(w, "ALERT"), d} : driver' = [driver EXCEPT ![t] = e]
  BY ZenonT(30) DEF checkOverload, Checked, d, w
<1>7. \A e \in {setPower(w, "ALERT"), d} : AfterCheck(t, e)
  BY <1>1, <1>2, <1>5 DEF AfterCheck
<1> QED
  BY Zenon, <1>6, <1>7

LEMMA Looked ==
    ASSUME TypeOK, loop
    PROVE  \E d : AfterCheck(nextCycleTrack, d) /\ driver' = [driver EXCEPT ![nextCycleTrack] = d]
  BY OffChecked, OnChecked, AlertChecked, OverloadChecked
     DEF TypeOK, loop, checkPowerOverload

-----------------------------------------------------------------------------
(* The types are an invariant. *)

\* No step changes the session, so the tracks and the limits stay.
LEMMA SameSession ==
    ASSUME Next
    PROVE  session' = session
  BY ZenonT(30) DEF Next, loop, setTrackPowerByMode, setTrackPower, setTrackMode, Command,
         status, Setup, gap, gapOver, finish, Callback, setLoad, setDontLimitProg, Tick

LEMMA SameLimits ==
    ASSUME session' = session
    PROVE  /\ Tracks' = Tracks /\ CommonFault' = CommonFault
           /\ ALERT_GOOD' = ALERT_GOOD /\ Longest' = Longest /\ ALERT_MAX' = ALERT_MAX
  BY SMTT(30) DEF S, Tracks, CommonFault, ALERT_GOOD, Longest, ALERT_MAX, IGNORE_FAULT_LOW,
         IGNORE_CURRENT

\* The commands that switch the power, and the steps of DCCACK.
UserCommand ==
    \/ \E p \in {"OFF", "ON"} :
          \/ \E modes \in ModeGroups : setTrackPowerByMode(modes, p)
          \/ \E t \in Tracks : setTrackPower(t, p)
    \/ \E t \in Tracks, mode \in TRACK_MODE : setTrackMode(t, mode)

AckStep ==
    \/ \E t \in Tracks, rejoin \in BOOLEAN : Setup(t, rejoin)
    \/ gap \/ gapOver \/ finish

\* A step of DCCACK switches one track or none and tells nobody.  It switches on only a
\* programming track, at Setup, or the track of its gap.
LEMMA AckSteps ==
    ASSUME TypeOK, AckStep
    PROVE  \E t \in Tracks :
             /\ UNCHANGED <<session, nextCycleTrack, unchecked, told>>
             /\ ack' \in Program
             /\ \A u \in Tracks : u \in unseen => u \in unseen'
             /\ \/ noSwitch /\ UNCHANGED rePowered
                \/ switch(t, "OFF") /\ t \in unseen' /\ UNCHANGED rePowered
                \/ /\ switch(t, "ON") /\ t \in unseen' /\ (S.hasty \/ t \notin unseen)
                   /\ \/ driver[t].mode = "PROG" /\ UNCHANGED rePowered
                      \/ rePowered' = rePowered \cup {t}
<1>0. 0 \in Tracks /\ ack \in Program /\ ack.progDriver \in Tracks
  BY SessionFacts DEF TypeOK, Program
<1>1. ASSUME NEW t \in Tracks, NEW rejoin \in BOOLEAN, Setup(t, rejoin)
      PROVE  /\ UNCHANGED <<session, nextCycleTrack, unchecked, told, rePowered>>
             /\ ack' \in Program
             /\ unseen' = Tracks
             /\ noSwitch \/ (switch(t, "ON") /\ (S.hasty \/ t \notin unseen))
             /\ driver[t].mode = "PROG"
  <2>1. UNCHANGED <<session, nextCycleTrack, unchecked, told, rePowered>> /\ unseen' = Tracks
        /\ (noSwitch \/ switch(t, "ON")) /\ driver[t].mode = "PROG"
    BY Zenon, <1>1 DEF Setup, Command
  <2>2. ack' \in Program
    BY <1>1 DEF Setup, Program
  <2>3. S.hasty \/ t \notin unseen
    BY <1>1 DEF Setup, Command, Quiet
  <2> QED
    BY <2>1, <2>2, <2>3
<1>2. ASSUME gap \/ gapOver \/ finish
      PROVE  /\ UNCHANGED <<session, nextCycleTrack, unchecked, told>>
             /\ unseen' = unseen \cup {ack.progDriver}
             /\ ack' \in Program
  <2>1. UNCHANGED <<session, nextCycleTrack, unchecked, told>>
        /\ unseen' = unseen \cup {ack.progDriver}
    BY Zenon, <1>2 DEF gap, gapOver, finish, Callback
  <2>2. ack' \in Program
    <3>1. \/ ack' = NoProgram
          \/ \E state \in {"READY", "WAITING_30"} : ack' = [ack EXCEPT !.callbackState = state]
      BY Zenon, <1>2 DEF gap, gapOver, finish
    <3>2. NoProgram \in Program
      BY <1>0 DEF NoProgram, Program
    <3>3. \A state \in {"READY", "WAITING_30"} : [ack EXCEPT !.callbackState = state] \in Program
      BY <1>0 DEF Program
    <3> QED
      BY Zenon, <3>1, <3>2, <3>3
  <2> QED
    BY <2>1, <2>2
<1>3. ASSUME gap PROVE switch(ack.progDriver, "OFF") /\ UNCHANGED rePowered
  BY <1>3 DEF gap
<1>4. ASSUME gapOver
      PROVE  /\ switch(ack.progDriver, "ON") /\ (S.hasty \/ ack.progDriver \notin unseen)
             /\ rePowered' = rePowered \cup {ack.progDriver}
  BY <1>4 DEF gapOver
<1>5. ASSUME finish
      PROVE  (noSwitch \/ switch(ack.progDriver, "OFF")) /\ UNCHANGED rePowered
  BY Zenon, <1>5 DEF finish
<1> QED
  BY <1>0, <1>1, <1>2, <1>3, <1>4, <1>5 DEF AckStep

\* What a command makes of a driver: it keeps its place in the alert, or it is off
\* or on.
Commanded(d, e) ==
    /\ e \in Driver
    /\ \/ e.power \in {"OFF", "ON"}
       \/ e.power = d.power /\ e.last = d.last /\ e.since = d.since /\ e.bad = d.bad

LEMMA CommandedFacts ==
    ASSUME NEW d \in Driver
    PROVE  /\ Commanded(d, d)
           /\ \A p \in {"OFF", "ON"} : Commanded(d, setPower(d, p))
           /\ \A mode \in TRACK_MODE :
                LET e == [d EXCEPT !.mode = mode, !.throttled = FALSE]
                IN  /\ e \in Driver /\ e.mode = mode /\ e.power = d.power
                    /\ Commanded(d, e) /\ Commanded(d, setPower(e, "OFF"))
           /\ Commanded(d, [setPower(d, "OFF") EXCEPT !.mode = "NONE"])
<1>1. Commanded(d, d)
  BY DEF Commanded
<1>2. ASSUME NEW e \in Driver, NEW p \in {"OFF", "ON"}
      PROVE  Commanded(d, setPower(e, p))
  <2>1. p \in POWERMODE
    BY DEF POWERMODE
  <2> QED
    BY <2>1, SetPowerFacts DEF Commanded
<1>3. ASSUME NEW mode \in TRACK_MODE
      PROVE  LET e == [d EXCEPT !.mode = mode, !.throttled = FALSE]
             IN  /\ e \in Driver /\ e.mode = mode /\ e.power = d.power
                 /\ Commanded(d, e) /\ Commanded(d, setPower(e, "OFF"))
  <2> DEFINE e == [d EXCEPT !.mode = mode, !.throttled = FALSE]
  <2>1. /\ e \in Driver /\ e.mode = mode /\ e.power = d.power
        /\ e.last = d.last /\ e.since = d.since /\ e.bad = d.bad
    BY Zenon DEF Driver
  <2> HIDE DEF e
  <2>2. Commanded(d, e)
    BY <2>1 DEF Commanded
  <2>3. Commanded(d, setPower(e, "OFF"))
    BY <2>1, <1>2
  <2> QED
    BY <2>1, <2>2, <2>3 DEF e
<1>4. Commanded(d, [setPower(d, "OFF") EXCEPT !.mode = "NONE"])
  <2> DEFINE o == setPower(d, "OFF")
  <2>1. o \in Driver /\ o.power = "OFF"
    BY SetPowerFacts DEF POWERMODE
  <2> HIDE DEF o
  <2>2. [o EXCEPT !.mode = "NONE"] \in Driver /\ [o EXCEPT !.mode = "NONE"].power = "OFF"
    BY <2>1 DEF Driver, TRACK_MODE
  <2> QED
    BY <2>2 DEF Commanded, o
<1> QED
  BY Zenon, <1>1, <1>2, <1>3, <1>4

\* The three commands, as what they do to each driver.
LEMMA CommandsOnDrivers ==
    ASSUME TypeOK, UserCommand
    PROVE  /\ driver' \in [Tracks -> Driver]
           /\ \A t \in Tracks : Commanded(driver[t], driver'[t])
           /\ UNCHANGED <<nextCycleTrack, unchecked, ack>>
<1>0. \A u \in Tracks : driver[u] \in Driver
  BY SMTT(30) DEF TypeOK
<1>1. ASSUME NEW p \in {"OFF", "ON"}, NEW modes, setTrackPowerByMode(modes, p)
      PROVE  /\ \A t \in Tracks : Commanded(driver[t], driver'[t])
             /\ DOMAIN driver' = Tracks /\ driver' = [t \in Tracks |-> driver'[t]]
             /\ UNCHANGED <<nextCycleTrack, unchecked>>
  <2>1. PICK ts : driver' = [t \in Tracks |->
                     IF t \in ts THEN setPower(driver[t], p) ELSE driver[t]]
    BY <1>1 DEF setTrackPowerByMode
  <2> QED
    BY Zenon, <1>0, <1>1, <2>1, CommandedFacts DEF setTrackPowerByMode, Command
<1>2. ASSUME NEW p \in {"OFF", "ON"}, NEW t \in Tracks, setTrackPower(t, p)
      PROVE  /\ \A u \in Tracks : Commanded(driver[u], driver'[u])
             /\ DOMAIN driver' = Tracks /\ driver' = [u \in Tracks |-> driver'[u]]
             /\ UNCHANGED <<nextCycleTrack, unchecked>>
  <2>1. PICK q \in {"OFF", "ON"} : driver' = [driver EXCEPT ![t] = setPower(driver[t], q)]
    BY Zenon, <1>2 DEF setTrackPower
  <2>2. \A u \in Tracks :
          Commanded(driver[u], driver[u]) /\ Commanded(driver[u], setPower(driver[u], q))
    BY Zenon, <1>0, CommandedFacts
  <2>3. DOMAIN driver = Tracks
    BY DEF TypeOK
  <2>4. \A u \in Tracks : Commanded(driver[u], driver'[u])
    BY <2>1, <2>2, <2>3
  <2>5. UNCHANGED <<nextCycleTrack, unchecked>>
    BY SMTT(30), <1>2 DEF setTrackPower, Command
  <2> QED
    BY Zenon, <2>1, <2>3, <2>4, <2>5
<1>3. ASSUME NEW t \in Tracks, NEW mode \in TRACK_MODE, setTrackMode(t, mode)
      PROVE  /\ \A u \in Tracks : Commanded(driver[u], driver'[u])
             /\ DOMAIN driver' = Tracks /\ driver' = [u \in Tracks |-> driver'[u]]
             /\ UNCHANGED <<nextCycleTrack, unchecked>>
  <2> DEFINE d == [driver[t] EXCEPT !.mode = mode, !.throttled = FALSE]
  <2>1. PICK losers : driver' = [u \in Tracks |->
            IF u \in losers THEN [setPower(driver[u], "OFF") EXCEPT !.mode = "NONE"]
            ELSE IF u # t THEN driver[u]
            ELSE IF driver[t].mode = mode THEN d ELSE setPower(d, "OFF")]
    BY ZenonT(30), <1>3 DEF setTrackMode
  <2>2. Commanded(driver[t], d) /\ Commanded(driver[t], setPower(d, "OFF"))
    BY ZenonT(30), <1>0, CommandedFacts
  <2>3. \A u \in Tracks :
          /\ Commanded(driver[u], driver[u])
          /\ Commanded(driver[u], [setPower(driver[u], "OFF") EXCEPT !.mode = "NONE"])
    BY Zenon, <1>0, CommandedFacts
  <2> HIDE DEF d
  <2>4. \A u \in Tracks : Commanded(driver[u], driver'[u])
    BY <2>1, <2>2, <2>3
  <2> QED
    BY ZenonT(30), <1>3, <2>1, <2>4 DEF setTrackMode, Command
<1>4. UNCHANGED ack
  BY Zenon DEF UserCommand, setTrackPowerByMode, setTrackPower, setTrackMode
<1> QED
  BY <1>1, <1>2, <1>3, <1>4 DEF UserCommand, Commanded

\* So does a step of DCCACK.
LEMMA AckOnDrivers ==
    ASSUME TypeOK, AckStep
    PROVE  /\ driver' \in [Tracks -> Driver]
           /\ \A t \in Tracks : Commanded(driver[t], driver'[t])
           /\ UNCHANGED <<nextCycleTrack, unchecked, session>> /\ ack' \in Program
<1>1. PICK t \in Tracks :
        /\ UNCHANGED <<nextCycleTrack, unchecked, session>> /\ ack' \in Program
        /\ noSwitch \/ \E p \in {"OFF", "ON"} : switch(t, p)
  BY Zenon, AckSteps
<1>2. driver \in [Tracks -> Driver] /\ \A u \in Tracks : driver[u] \in Driver
  BY DEF TypeOK
<1>3. \A u \in Tracks :
        /\ Commanded(driver[u], driver[u])
        /\ \A p \in {"OFF", "ON"} : Commanded(driver[u], setPower(driver[u], p))
  BY Zenon, <1>2, CommandedFacts
<1>4. \/ driver' = driver
      \/ \E p \in {"OFF", "ON"} : driver' = [driver EXCEPT ![t] = setPower(driver[t], p)]
  BY <1>1 DEF noSwitch, switch
<1>5. \A u \in Tracks : Commanded(driver[u], driver'[u])
  BY <1>2, <1>3, <1>4
<1>6. driver' \in [Tracks -> Driver]
  BY <1>2, <1>3, <1>4 DEF Commanded
<1> QED
  BY <1>1, <1>5, <1>6

-----------------------------------------------------------------------------
(* The inductive invariants.                                               *)
(*                                                                         *)
(* In ALERT the clock of a track runs ahead of the time since its last bad *)
(* sample by at most the longest ignored time, and every tick finds that   *)
(* the track was checked since the one before.  Before its first check in  *)
(* ALERT a track has seen one tick at most.                                *)
AlertClock ==
    \A t \in Tracks : driver[t].power = "ALERT" =>
        LET late == IF t \in unchecked THEN 1 ELSE 0
        IN  \/ driver[t].last # "ALERT" /\ driver[t].since <= late
            \/ /\ driver[t].last = "ALERT"
               /\ driver[t].since <= Longest + driver[t].bad
               /\ driver[t].bad <= ALERT_GOOD + late

\* There is one programming track at most: the part of ModesOK about the number
\* of such tracks, without the number.
OneProg ==
    \A t, u \in Tracks : driver[t].mode = "PROG" /\ driver[u].mode = "PROG" => t = u

LEMMA TypeInit == Init => TypeOK
<1> SUFFICES ASSUME Init PROVE TypeOK
  OBVIOUS
<1>1. session \in Range(Sessions)
  BY DEF Init
<1>2. 0 \in Tracks /\ OVERLOAD_WAIT \in Nat
  BY <1>1, SessionFacts
<1>6. ack \in Program
  BY <1>2 DEF Init, NoProgram, Program
<1>3. \A mode \in TRACK_MODE : NewDriver(mode) \in Driver
  BY <1>2 DEF NewDriver, Driver, POWERMODE
<1>4. \A t \in Tracks : (CASE t = 0 -> "MAIN" [] t = 1 -> "PROG" [] OTHER -> "NONE") \in TRACK_MODE
  BY DEF TRACK_MODE
<1>5. driver \in [Tracks -> Driver]
  BY <1>3, <1>4 DEF Init
<1> QED
  BY <1>1, <1>2, <1>5, <1>6 DEF Init, TypeOK

LEMMA OlderFacts ==
    ASSUME NEW n \in Nat, NEW limit \in Nat
    PROVE  Older(n, limit) \in Nat /\ Older(n, limit) <= n + 1 /\ (n <= limit => Older(n, limit) = n + 1)
  BY DEF Older

\* A tick ages every driver.
LEMMA TickOnDrivers ==
    ASSUME TypeOK, Tick
    PROVE  /\ driver' \in [Tracks -> Driver]
           /\ \A t \in Tracks :
                /\ driver'[t].power = driver[t].power /\ driver'[t].mode = driver[t].mode
                /\ driver'[t].last = driver[t].last /\ driver'[t].wait = driver[t].wait
                /\ driver[t].power = "ALERT" =>
                      /\ driver'[t].since <= driver[t].since + 1
                      /\ driver'[t].bad = Older(driver[t].bad, ALERT_GOOD)
<1>1. /\ ALERT_GOOD \in Nat /\ ALERT_MAX \in Nat /\ ALL_GOOD \in Nat /\ RETRY_MAX \in Nat
  BY SessionFacts, LongestFacts DEF TypeOK
<1>2. \A p : AgeLimit(p) \in Nat
  BY <1>1 DEF AgeLimit
<1>3. ASSUME NEW t \in Tracks
      PROVE  /\ Aged(t, driver[t]) \in Driver
             /\ Aged(t, driver[t]).power = driver[t].power
             /\ Aged(t, driver[t]).mode = driver[t].mode
             /\ Aged(t, driver[t]).last = driver[t].last
             /\ Aged(t, driver[t]).wait = driver[t].wait
             /\ driver[t].power = "ALERT" =>
                   /\ Aged(t, driver[t]).since <= driver[t].since + 1
                   /\ Aged(t, driver[t]).bad = Older(driver[t].bad, ALERT_GOOD)
  <2> DEFINE d == driver[t]
             since == IF d.power = "OFF" \/ (d.power = "OVERLOAD" /\ t \in CommonFault)
                      THEN d.since ELSE Older(d.since, AgeLimit(d.power))
             bad == IF d.power = "ALERT" THEN Older(d.bad, ALERT_GOOD) ELSE d.bad
  <2>1. d \in Driver
    BY DEF TypeOK
  <2>2. d.since \in Nat /\ d.bad \in Nat
    BY <2>1 DEF Driver
  <2> HIDE DEF d
  <2>3. since \in Nat /\ bad \in Nat /\ since <= d.since + 1
    <3>1. AgeLimit(d.power) \in Nat
      BY <1>2
    <3>2. /\ Older(d.since, AgeLimit(d.power)) \in Nat
          /\ Older(d.since, AgeLimit(d.power)) <= d.since + 1
          /\ Older(d.bad, ALERT_GOOD) \in Nat
      BY Zenon, <1>1, <2>2, <3>1, OlderFacts
    <3> QED
      BY <2>2, <3>2
  <2>4. Aged(t, d) = [d EXCEPT !.since = since, !.bad = bad]
    BY DEF Aged
  <2> HIDE DEF since
  <2>5. bad = IF d.power = "ALERT" THEN Older(d.bad, ALERT_GOOD) ELSE d.bad
    OBVIOUS
  <2> HIDE DEF bad
  <2>6. /\ Aged(t, d) \in Driver /\ Aged(t, d).power = d.power /\ Aged(t, d).mode = d.mode
        /\ Aged(t, d).last = d.last /\ Aged(t, d).wait = d.wait
        /\ Aged(t, d).since = since /\ Aged(t, d).bad = bad
    BY Zenon, <2>1, <2>3, <2>4 DEF Driver
  <2> QED
    BY <2>3, <2>5, <2>6 DEF d
<1>4. driver' = [t \in Tracks |-> Aged(t, driver[t])]
  BY DEF Tick
<1> QED
  BY <1>3, <1>4

LEMMA TypeInductive ==
    ASSUME TypeOK, [Next]_vars
    PROVE  TypeOK'
<1>1. CASE loop
  <2>1. PICK d : AfterCheck(nextCycleTrack, d) /\ driver' = [driver EXCEPT ![nextCycleTrack] = d]
    BY <1>1, Looked
  <2>2. driver' \in [Tracks -> Driver]
    BY <2>1 DEF TypeOK, AfterCheck
  <2>3. (nextCycleTrack + 1) % Cardinality(Tracks) \in Tracks
    <3>1. /\ Cardinality(Tracks) \in Nat \ {0} /\ nextCycleTrack \in Nat
          /\ Tracks = 0..(Cardinality(Tracks) - 1)
      BY SessionFacts DEF TypeOK
    <3>2. \A c \in Nat \ {0}, n \in Nat : (n + 1) % c \in 0..(c - 1)
      OBVIOUS
    <3> QED
      BY <3>1, <3>2
  <2>4. session' = session /\ ack' = ack /\ unchecked' = unchecked \ {nextCycleTrack}
        /\ nextCycleTrack' = (nextCycleTrack + 1) % Cardinality(Tracks)
    BY <1>1 DEF loop
  <2>5. Tracks' = Tracks
    BY <2>4, SameLimits
  <2> QED
    BY <2>2, <2>3, <2>4, <2>5 DEF TypeOK, Program
<1>2. CASE UserCommand
  <2>1. driver' \in [Tracks -> Driver] /\ UNCHANGED <<nextCycleTrack, unchecked, ack>>
    BY <1>2, CommandsOnDrivers
  <2>2. session' = session /\ Tracks' = Tracks
    BY <1>2, SameSession, SameLimits DEF Next, UserCommand
  <2> QED
    BY <2>1, <2>2 DEF TypeOK, Program
<1>6. CASE AckStep
  <2>1. /\ driver' \in [Tracks -> Driver] /\ ack' \in Program
        /\ UNCHANGED <<nextCycleTrack, unchecked, session>>
    BY <1>6, AckOnDrivers
  <2> QED
    BY <2>1 DEF TypeOK, Program, Tracks, S
<1>3. CASE (\E t \in Tracks, l \in S.loads : setLoad(t, l)) \/ setDontLimitProg \/ status
  BY <1>3 DEF TypeOK, Program, setLoad, setDontLimitProg, status, Tracks, S
<1>4. CASE Tick
  <2>1. driver' \in [Tracks -> Driver]
    BY <1>4, TickOnDrivers
  <2>2. session' = session /\ nextCycleTrack' = nextCycleTrack /\ unchecked' = Tracks
        /\ ack' = ack
    BY <1>4 DEF Tick
  <2> QED
    BY <2>1, <2>2 DEF TypeOK, Program, Tracks, S
<1>5. CASE UNCHANGED vars
  BY <1>5 DEF TypeOK, Program, vars, Tracks, S
<1> QED
  BY <1>1, <1>2, <1>3, <1>4, <1>5, <1>6 DEF Next, UserCommand, AckStep

-----------------------------------------------------------------------------
LEMMA AlertInductive ==
    ASSUME TypeOK, AlertClock, [Next]_vars
    PROVE  AlertClock'
<1>0. /\ Longest \in Nat \ {0} /\ ALERT_GOOD \in Nat
      /\ \A t \in Tracks : /\ driver[t] \in Driver
                           /\ driver[t].since \in Nat /\ driver[t].bad \in Nat
  BY Zenon, LongestFacts, SessionFacts DEF TypeOK, Driver
<1>1. session' = session
  BY SameSession DEF vars
<1>2. Tracks' = Tracks /\ ALERT_GOOD' = ALERT_GOOD /\ Longest' = Longest
  BY <1>1, SameLimits
<1>3. CASE loop
  <2> DEFINE n == nextCycleTrack
  <2>1. PICK d : AfterCheck(n, d) /\ driver' = [driver EXCEPT ![n] = d]
    BY <1>3, Looked
  <2>2. unchecked' = unchecked \ {n} /\ n \in Tracks /\ driver \in [Tracks -> Driver]
    BY <1>3 DEF loop, TypeOK
  <2> SUFFICES ASSUME NEW t \in Tracks, driver'[t].power = "ALERT"
               PROVE  LET late == IF t \in unchecked' THEN 1 ELSE 0
                      IN  \/ driver'[t].last # "ALERT" /\ driver'[t].since <= late
                          \/ /\ driver'[t].last = "ALERT"
                             /\ driver'[t].since <= Longest + driver'[t].bad
                             /\ driver'[t].bad <= ALERT_GOOD + late
    BY <1>2 DEF AlertClock
  <2>3. CASE t # n
    <3>1. driver'[t] = driver[t] /\ (t \in unchecked' <=> t \in unchecked)
      BY <2>1, <2>2, <2>3
    <3> QED
      BY <3>1 DEF AlertClock
  <2>4. CASE t = n
    <3>1. driver'[t] = d /\ t \notin unchecked' /\ d \in Driver /\ d.power = "ALERT"
      BY <2>1, <2>2, <2>4 DEF AfterCheck
    <3>2. d.since \in Nat /\ d.bad \in Nat
      BY <3>1 DEF Driver
    <3>3. CASE d.since = 0 /\ d.last # "ALERT"
      BY <3>1, <3>3
    <3>4. CASE /\ driver[t].power = "ALERT" /\ d.last = "ALERT" /\ d.since = driver[t].since
               /\ \/ d.bad = 0 /\ d.since < Longest
                  \/ d.bad = 0 /\ driver[t].last # "ALERT"
                  \/ /\ d.bad = driver[t].bad /\ d.bad <= ALERT_GOOD
                     /\ driver[t].last = "ALERT"
      <4>1. \/ driver[t].last # "ALERT" /\ driver[t].since <= 1
            \/ driver[t].last = "ALERT" /\ driver[t].since <= Longest + driver[t].bad
        BY <1>0, <3>4 DEF AlertClock
      <4>2. d.since <= Longest + d.bad /\ d.bad <= ALERT_GOOD
        BY <1>0, <3>2, <3>4, <4>1
      <4> QED
        BY <1>0, <3>1, <3>2, <3>4, <4>2
    <3> QED
      BY <2>1, <2>4, <3>1, <3>3, <3>4 DEF AfterCheck
  <2> QED
    BY <2>3, <2>4
<1>4. CASE UserCommand \/ AckStep
  <2>1. unchecked' = unchecked /\ \A t \in Tracks : Commanded(driver[t], driver'[t])
    BY <1>4, CommandsOnDrivers, AckOnDrivers
  <2>2. \A t \in Tracks : driver'[t].power = "ALERT" =>
           /\ driver[t].power = "ALERT" /\ driver'[t].last = driver[t].last
           /\ driver'[t].since = driver[t].since /\ driver'[t].bad = driver[t].bad
    BY <2>1 DEF Commanded
  <2> QED
    BY <1>2, <2>1, <2>2 DEF AlertClock
<1>5. CASE (\E t \in Tracks, l \in S.loads : setLoad(t, l)) \/ setDontLimitProg \/ status
  <2>1. driver' = driver /\ unchecked' = unchecked
    BY <1>5 DEF setLoad, setDontLimitProg, status
  <2> QED
    BY <1>2, <2>1 DEF AlertClock
<1>6. CASE Tick
  <2>1. unchecked = {} /\ unchecked' = Tracks
    BY <1>6 DEF Tick
  <2> SUFFICES ASSUME NEW t \in Tracks, driver'[t].power = "ALERT"
               PROVE  \/ driver'[t].last # "ALERT" /\ driver'[t].since <= 1
                      \/ /\ driver'[t].last = "ALERT"
                         /\ driver'[t].since <= Longest + driver'[t].bad
                         /\ driver'[t].bad <= ALERT_GOOD + 1
    BY <1>2, <2>1 DEF AlertClock
  <2>2. /\ driver[t].power = "ALERT" /\ driver'[t].last = driver[t].last
        /\ driver'[t].since <= driver[t].since + 1
        /\ driver'[t].bad = Older(driver[t].bad, ALERT_GOOD)
        /\ driver'[t] \in Driver
    BY <1>6, TickOnDrivers
  <2>3. driver'[t].since \in Nat
    BY <2>2 DEF Driver
  <2>4. \/ driver[t].last # "ALERT" /\ driver[t].since <= 0
        \/ /\ driver[t].last = "ALERT"
           /\ driver[t].since <= Longest + driver[t].bad
           /\ driver[t].bad <= ALERT_GOOD + 0
    BY <2>1, <2>2 DEF AlertClock
  <2>5. driver[t].bad <= ALERT_GOOD => driver'[t].bad = driver[t].bad + 1
    BY Zenon, <1>0, <2>2, OlderFacts
  <2> QED
    BY <1>0, <2>2, <2>3, <2>4, <2>5
<1>7. CASE UNCHANGED vars
  <2>1. driver' = driver /\ unchecked' = unchecked
    BY <1>7 DEF vars
  <2> QED
    BY <1>2, <2>1 DEF AlertClock
<1> QED
  BY <1>3, <1>4, <1>5, <1>6, <1>7 DEF Next, UserCommand, AckStep

\* An alert ends: in every behaviour, however good and bad samples alternate, no
\* track is in ALERT for longer than the longest ignored time and one good period
\* (checkPowerOverload, case ALERT).
THEOREM AlertsEnd == Spec => []AlertBounded
<1>1. Init => AlertClock
  <2> SUFFICES ASSUME Init PROVE AlertClock
    OBVIOUS
  <2>1. \A t \in Tracks : driver[t].power = "OFF"
    BY DEF Init, NewDriver
  <2> QED
    BY <2>1 DEF AlertClock
<1>2. TypeOK /\ AlertClock /\ [Next]_vars => TypeOK' /\ AlertClock'
  BY TypeInductive, AlertInductive
<1>3. TypeOK /\ AlertClock => AlertBounded
  <2> SUFFICES ASSUME TypeOK, AlertClock, NEW t \in Tracks, driver[t].power = "ALERT"
               PROVE  driver[t].since <= ALERT_MAX
    BY DEF AlertBounded
  <2>1. /\ Longest \in Nat \ {0} /\ ALERT_GOOD \in Nat
        /\ ALERT_MAX = Longest + ALERT_GOOD + 1
        /\ driver[t].since \in Nat /\ driver[t].bad \in Nat
    BY Zenon, LongestFacts, SessionFacts DEF TypeOK, Driver
  <2>2. \/ driver[t].since <= 1
        \/ driver[t].since <= Longest + driver[t].bad /\ driver[t].bad <= ALERT_GOOD + 1
    BY <2>1 DEF AlertClock
  <2> QED
    BY <2>1, <2>2
<1> QED
  BY <1>1, <1>2, <1>3, TypeInit, PTL DEF Spec

-----------------------------------------------------------------------------
(* The modes, and what clients are told.  The parts of ModesOK are         *)
(* inductive once the number of programming tracks is put as OneProg.      *)
NoneOff == \A t \in Tracks \ rePowered : driver[t].mode = "NONE" => driver[t].power = "OFF"

ToldSafe ==
    \A t \in Tracks \ untold : driver[t].power = "OFF" =>
          /\ ~told.track[t] /\ told.state # "1"
          /\ driver[t].mode = "MAIN" => told.PPA # "1"

\* A broadcast tells the truth of a track that is off.
LEMMA BroadcastSafe ==
    ASSUME NEW ds, NEW t \in Tracks, ds[t].power = "OFF"
    PROVE  /\ ~broadcastPower(ds).track[t]
           /\ broadcastPower(ds).state # "1"
           /\ ds[t].mode = "MAIN" => broadcastPower(ds).PPA # "1"
<1>1. ~broadcastPower(ds).track[t]
  BY Zenon DEF broadcastPower
<1>2. PowerState(ds) # "1"
  <2> DEFINE active == {u \in Tracks : isActive(ds, u)}
             on == {u \in active : ds[u].power = "ON"}
             off == {u \in active : ds[u].power = "OFF"}
  <2>1. on # Tracks
    OBVIOUS
  <2>2. PowerState(ds) = IF on = {} \/ off = active THEN "0"
                         ELSE IF on = Tracks THEN "1" ELSE "2"
    BY DEF PowerState
  <2> HIDE DEF on, off, active
  <2> QED
    BY <2>1, <2>2
<1>3. ds[t].mode = "MAIN" => ~getMainPower(ds)
  BY DEF getMainPower
<1> QED
  BY <1>1, <1>2, <1>3 DEF broadcastPower

\* A step that switches nothing off and changes no mode keeps what was told safe.
LEMMA QuietStep ==
    ASSUME NoneOff, OneProg, ToldSafe, Tracks' = Tracks, told' = told, untold' = untold,
           \A t \in Tracks : /\ driver'[t].mode = driver[t].mode
                             /\ driver'[t].power = "OFF" <=> driver[t].power = "OFF"
    PROVE  (rePowered' = rePowered => NoneOff') /\ OneProg' /\ ToldSafe'
  BY DEF NoneOff, OneProg, ToldSafe

\* A broadcast makes what was told safe.
LEMMA BroadcastStep ==
    ASSUME Tracks' = Tracks, told' = broadcastPower(driver')
    PROVE  ToldSafe'
  BY Zenon, BroadcastSafe DEF ToldSafe

LEMMA PowerByModeKeepsModes ==
    ASSUME TypeOK, NoneOff, OneProg, ToldSafe, NEW p \in {"OFF", "ON"},
           NEW modes \in ModeGroups, setTrackPowerByMode(modes, p)
    PROVE  NoneOff' /\ OneProg' /\ ToldSafe'
<1> DEFINE ts == {t \in Tracks : driver[t].mode \in modes}
<1>1. /\ driver' = [t \in Tracks |-> IF t \in ts THEN setPower(driver[t], p) ELSE driver[t]]
      /\ Broadcast(\E t \in ts : driver[t].power # p)
      /\ rePowered' = rePowered \ ts /\ session' = session
  BY DEF setTrackPowerByMode, Command
<1>2. Tracks' = Tracks
  BY <1>1, SameLimits
<1>3. \A t \in Tracks : driver[t] \in Driver /\ p \in POWERMODE
  BY DEF TypeOK, POWERMODE
<1>4. \A t \in Tracks : setPower(driver[t], p).mode = driver[t].mode /\ setPower(driver[t], p).power = p
  BY <1>3, SetPowerFacts
<1>5. \A t \in Tracks : driver'[t].mode = driver[t].mode
  BY <1>1, <1>4
<1>6. NoneOff' /\ OneProg'
  <2>1. "NONE" \notin modes
    BY DEF ModeGroups
  <2> QED
    BY <1>1, <1>2, <1>5, <2>1 DEF NoneOff, OneProg
<1>7. CASE \E t \in ts : driver[t].power # p
  <2>1. told' = broadcastPower(driver')
    BY <1>1, <1>7 DEF Broadcast
  <2> QED
    BY <1>2, <1>6, <2>1, BroadcastStep
<1>8. CASE ~\E t \in ts : driver[t].power # p
  <2>1. \A t \in Tracks : driver'[t].power = driver[t].power
    BY <1>1, <1>4, <1>8
  <2>2. told' = told /\ untold' = untold
    BY <1>1, <1>8 DEF Broadcast
  <2> QED
    BY <1>2, <1>5, <1>6, <2>1, <2>2, QuietStep
<1> QED
  BY <1>6, <1>7, <1>8

LEMMA PowerKeepsModes ==
    ASSUME TypeOK, NoneOff, OneProg, ToldSafe, NEW p \in {"OFF", "ON"}, NEW t \in Tracks,
           setTrackPower(t, p)
    PROVE  NoneOff' /\ OneProg' /\ ToldSafe'
<1> DEFINE q == IF driver[t].mode = "NONE" THEN "OFF" ELSE p
<1>1. /\ driver' = [driver EXCEPT ![t] = setPower(driver[t], q)]
      /\ Broadcast(driver'[t].power # driver[t].power)
      /\ rePowered' = rePowered \ {t} /\ session' = session
  BY DEF setTrackPower, Command
<1>2. Tracks' = Tracks
  BY <1>1, SameLimits
<1>3. driver \in [Tracks -> Driver] /\ q \in POWERMODE
  BY DEF TypeOK, POWERMODE
<1>4. setPower(driver[t], q).mode = driver[t].mode /\ setPower(driver[t], q).power = q
  BY <1>3, SetPowerFacts
<1>5. \A u \in Tracks : /\ driver'[u].mode = driver[u].mode
                        /\ driver'[u].power = IF u = t THEN q ELSE driver[u].power
  BY <1>1, <1>3, <1>4
<1>6. NoneOff' /\ OneProg'
  BY <1>1, <1>2, <1>5 DEF NoneOff, OneProg
<1>7. CASE driver'[t].power # driver[t].power
  <2>1. told' = broadcastPower(driver')
    BY <1>1, <1>7 DEF Broadcast
  <2> QED
    BY <1>2, <1>6, <2>1, BroadcastStep
<1>8. CASE driver'[t].power = driver[t].power
  <2>1. \A u \in Tracks : driver'[u].power = driver[u].power
    BY <1>5, <1>8
  <2>2. told' = told /\ untold' = untold
    BY <1>1, <1>8 DEF Broadcast
  <2> QED
    BY <1>2, <1>5, <1>6, <2>1, <2>2, QuietStep
<1> QED
  BY <1>6, <1>7, <1>8

LEMMA ModeKeepsModes ==
    ASSUME TypeOK, NoneOff, OneProg, NEW t \in Tracks, NEW mode \in TRACK_MODE,
           setTrackMode(t, mode)
    PROVE  NoneOff' /\ OneProg' /\ ToldSafe'
<1> DEFINE losers == {u \in Tracks \ {t} : mode = "PROG" /\ driver[u].mode = "PROG"}
           off == losers \cup (IF driver[t].mode = mode THEN {} ELSE {t})
           d == [driver[t] EXCEPT !.mode = mode, !.throttled = FALSE]
           lost(u) == [setPower(driver[u], "OFF") EXCEPT !.mode = "NONE"]
<1>1. /\ driver' = [u \in Tracks |->
            IF u \in losers THEN lost(u)
            ELSE IF u # t THEN driver[u]
            ELSE IF driver[t].mode = mode THEN d ELSE setPower(d, "OFF")]
      /\ Broadcast(TRUE) /\ session' = session
      /\ rePowered' = rePowered \ off
  BY ZenonT(30) DEF setTrackMode, Command
<1>2. Tracks' = Tracks
  BY <1>1, SameLimits
<1>3. \A u \in Tracks : driver[u] \in Driver
  BY SMTT(30) DEF TypeOK
<1>4. d \in Driver /\ d.mode = mode /\ d.power = driver[t].power
  BY Zenon, <1>3, CommandedFacts
<1>5. setPower(d, "OFF").mode = mode /\ setPower(d, "OFF").power = "OFF"
  <2> HIDE DEF d
  <2> QED
    BY <1>4, SetPowerFacts DEF POWERMODE
<1>6. \A u \in Tracks : lost(u).mode = "NONE" /\ lost(u).power = "OFF"
  <2> SUFFICES ASSUME NEW u \in Tracks PROVE lost(u).mode = "NONE" /\ lost(u).power = "OFF"
    OBVIOUS
  <2> DEFINE o == setPower(driver[u], "OFF")
  <2>1. o \in Driver /\ o.power = "OFF"
    BY <1>3, SetPowerFacts DEF POWERMODE
  <2> HIDE DEF o
  <2>2. [o EXCEPT !.mode = "NONE"].mode = "NONE" /\ [o EXCEPT !.mode = "NONE"].power = "OFF"
    BY <2>1 DEF Driver
  <2> QED
    BY <2>2 DEF o
<1> HIDE DEF d, lost
<1>7. \A u \in Tracks :
        /\ u \in losers => driver'[u].mode = "NONE" /\ driver'[u].power = "OFF"
        /\ u \notin losers /\ u # t => driver'[u] = driver[u]
        /\ u = t => /\ driver'[u].mode = mode
                    /\ driver[t].mode = mode => driver'[u].power = driver[t].power
                    /\ driver[t].mode # mode => driver'[u].power = "OFF"
  BY <1>1, <1>4, <1>5, <1>6
<1>8. NoneOff'
  BY <1>1, <1>2, <1>7 DEF NoneOff
<1>9. OneProg'
  <2> SUFFICES ASSUME NEW u \in Tracks, NEW v \in Tracks, driver'[u].mode = "PROG",
                      driver'[v].mode = "PROG"
               PROVE  u = v
    BY <1>2 DEF OneProg
  <2>1. CASE mode = "PROG"
    BY <1>7, <2>1
  <2>2. CASE mode # "PROG"
    BY <1>7, <2>2 DEF OneProg
  <2> QED
    BY <2>1, <2>2
<1>10. ToldSafe'
  BY <1>1, <1>2, BroadcastStep DEF Broadcast
<1> QED
  BY <1>8, <1>9, <1>10

\* DCCACK tells nobody: its tracks are the untold ones.
LEMMA AckKeepsModes ==
    ASSUME TypeOK, NoneOff, OneProg, ToldSafe, AckStep
    PROVE  NoneOff' /\ OneProg' /\ ToldSafe'
<1>1. PICK t \in Tracks :
        /\ session' = session /\ told' = told
        /\ \/ noSwitch /\ UNCHANGED rePowered
           \/ switch(t, "OFF") /\ UNCHANGED rePowered
           \/ /\ switch(t, "ON")
              /\ \/ driver[t].mode = "PROG" /\ UNCHANGED rePowered
                 \/ rePowered' = rePowered \cup {t}
  BY Zenon, AckSteps
<1>2. Tracks' = Tracks
  BY <1>1, SameLimits
<1>3. CASE noSwitch /\ UNCHANGED rePowered
  BY <1>1, <1>2, <1>3, QuietStep DEF noSwitch
<1>4. ASSUME NEW p \in {"OFF", "ON"}, switch(t, p),
             p = "ON" => driver[t].mode = "PROG" \/ t \in rePowered',
             rePowered \subseteq rePowered'
      PROVE  NoneOff' /\ OneProg' /\ ToldSafe'
  <2>1. driver \in [Tracks -> Driver] /\ driver[t] \in Driver /\ p \in POWERMODE
    BY DEF TypeOK, POWERMODE
  <2>2. setPower(driver[t], p).mode = driver[t].mode /\ setPower(driver[t], p).power = p
    BY <2>1, SetPowerFacts
  <2>3. /\ driver' = [driver EXCEPT ![t] = setPower(driver[t], p)]
        /\ untold' = IF driver[t].power = p THEN untold ELSE untold \cup {t}
    BY <1>4 DEF switch
  <2>4. \A u \in Tracks : /\ driver'[u].mode = driver[u].mode
                          /\ driver'[u].power = IF u = t THEN p ELSE driver[u].power
    BY <2>1, <2>2, <2>3
  <2>5. NoneOff' /\ OneProg'
    BY <1>2, <1>4, <2>4 DEF NoneOff, OneProg
  <2>6. ToldSafe'
    BY <1>1, <1>2, <2>3, <2>4 DEF ToldSafe
  <2> QED
    BY <2>5, <2>6
<1> QED
  BY <1>1, <1>3, <1>4

LEMMA ModesInductive ==
    ASSUME TypeOK, NoneOff, OneProg, ToldSafe, [Next]_vars
    PROVE  NoneOff' /\ OneProg' /\ ToldSafe'
<1>1. session' = session
  BY SameSession DEF vars
<1>2. Tracks' = Tracks
  BY <1>1, SameLimits
<1>3. CASE loop
  <2>1. PICK d : AfterCheck(nextCycleTrack, d) /\ driver' = [driver EXCEPT ![nextCycleTrack] = d]
    BY <1>3, Looked
  <2>2. told' = told /\ untold' = untold /\ rePowered' = rePowered
    BY <1>3 DEF loop
  <2>3. \A t \in Tracks : /\ driver'[t].mode = driver[t].mode
                          /\ driver'[t].power = "OFF" <=> driver[t].power = "OFF"
    BY <2>1 DEF AfterCheck, TypeOK
  <2> QED
    BY <1>2, <2>2, <2>3, QuietStep
<1>4. CASE \E p \in {"OFF", "ON"}, modes \in ModeGroups : setTrackPowerByMode(modes, p)
  BY <1>4, PowerByModeKeepsModes
<1>5. CASE \E p \in {"OFF", "ON"} : \E t \in Tracks : setTrackPower(t, p)
  BY <1>5, PowerKeepsModes
<1>6. CASE \E t \in Tracks, mode \in TRACK_MODE : setTrackMode(t, mode)
  BY <1>6, ModeKeepsModes
<1>7. CASE \/ \E t \in Tracks, l \in S.loads : setLoad(t, l)
           \/ setDontLimitProg
           \/ UNCHANGED vars
  <2>1. UNCHANGED <<driver, told, untold, rePowered>>
    BY <1>7 DEF setLoad, setDontLimitProg, vars
  <2> QED
    BY <1>2, <2>1, QuietStep
<1>8. CASE Tick
  <2>1. told' = told /\ untold' = untold /\ rePowered' = rePowered
    BY <1>8 DEF Tick
  <2> QED
    BY <1>2, <1>8, <2>1, TickOnDrivers, QuietStep
<1>9. CASE status
  <2>1. driver' = driver /\ rePowered' = rePowered /\ Broadcast(TRUE)
    BY <1>9 DEF status
  <2> QED
    BY <1>2, <2>1, BroadcastStep DEF NoneOff, OneProg, Broadcast
<1>10. CASE AckStep
  BY <1>10, AckKeepsModes
<1> QED
  BY <1>3, <1>4, <1>5, <1>6, <1>7, <1>8, <1>9, <1>10 DEF Next, AckStep

LEMMA ModesInit == Init => NoneOff /\ OneProg /\ ToldSafe
<1> SUFFICES ASSUME Init PROVE NoneOff /\ OneProg /\ ToldSafe
  OBVIOUS
<1>1. Tracks \subseteq Nat
  BY SessionFacts DEF Init
<1>2. \A t \in Tracks : /\ driver[t].power = "OFF"
                        /\ driver[t].mode = CASE t = 0 -> "MAIN" [] t = 1 -> "PROG" [] OTHER -> "NONE"
  BY DEF Init, NewDriver
<1>3. NoneOff
  BY <1>2 DEF NoneOff
<1>4. OneProg
  <2>1. \A t \in Tracks : driver[t].mode = "PROG" => t = 1
    BY <1>2
  <2> QED
    BY <2>1 DEF OneProg
<1>5. told = broadcastPower(driver)
  BY DEF Init
<1> QED
  BY <1>2, <1>3, <1>4, <1>5, BroadcastSafe DEF ToldSafe

\* Whatever sequence of mode changes, power commands, programs, short circuits and
\* retries: at most one track is the programming track; a track without a mode is off,
\* unless DCCACK powered it again at the end of its gap; and no track that is off was
\* last told to be on, by its letter, by <p1> or by PPA1, unless DCCACK, which tells
\* nobody, switched it since (setTrackMode, setTrackPower, broadcastPower, callback).
THEOREM ModesKept == Spec => []ModesOK
<1>1. TypeOK /\ NoneOff /\ OneProg /\ ToldSafe /\ [Next]_vars
         => TypeOK' /\ NoneOff' /\ OneProg' /\ ToldSafe'
  BY TypeInductive, ModesInductive
<1>2. TypeOK /\ NoneOff /\ OneProg /\ ToldSafe => ModesOK
  <2> SUFFICES ASSUME TypeOK, NoneOff, OneProg, ToldSafe PROVE ModesOK
    OBVIOUS
  <2> DEFINE progs == {t \in Tracks : driver[t].mode = "PROG"}
  <2>1. Cardinality(progs) <= 1
    <3>1. CASE progs = {}
      <4> HIDE DEF progs
      <4> QED
        BY <3>1, FS_EmptySet
    <3>2. CASE progs # {}
      <4>1. PICK t \in Tracks : progs = {t}
        BY <3>2 DEF OneProg
      <4> HIDE DEF progs
      <4>2. Cardinality(progs) = 1
        BY <4>1, FS_Singleton
      <4> QED
        BY <4>2
    <3> QED
      BY <3>1, <3>2
  <2> QED
    BY <2>1 DEF ModesOK, NoneOff, ToldSafe
<1> QED
  BY <1>1, <1>2, TypeInit, ModesInit, PTL DEF Spec
-----------------------------------------------------------------------------
(* Doublings is what its definition says: such a function exists up to     *)
(* every n, two of them agree, and together they are one on the naturals.  *)
IsDoublings(f, n) == f = [m \in 0..n |-> IF m = 0 THEN 1 ELSE 2 * f[m - 1]]

LEMMA DoublingsUpTo == \A n \in Nat : \E f : IsDoublings(f, n)
<1> DEFINE T == {n \in Nat : \E f : IsDoublings(f, n)}
<1>1. 0 \in T
  <2>1. IsDoublings([m \in 0..0 |-> 1], 0)
    BY DEF IsDoublings
  <2> QED
    BY <2>1
<1>2. ASSUME NEW n \in Nat, n \in T PROVE n + 1 \in T
  <2>1. PICK f : IsDoublings(f, n)
    BY <1>2
  <2> DEFINE g == [m \in 0..(n + 1) |-> IF m <= n THEN f[m] ELSE 2 * f[n]]
             h == [m \in 0..(n + 1) |-> IF m = 0 THEN 1 ELSE 2 * g[m - 1]]
  <2>2. \A m \in 0..n : f[m] = IF m = 0 THEN 1 ELSE 2 * f[m - 1]
    BY <2>1 DEF IsDoublings
  <2>3. ASSUME NEW m \in 0..(n + 1) PROVE g[m] = h[m]
    <3>1. CASE m = 0
      BY <2>2, <3>1
    <3>2. CASE m # 0 /\ m <= n
      <4>1. m - 1 \in 0..(n + 1) /\ m - 1 <= n /\ m \in 0..n
        BY <3>2
      <4>2. g[m] = f[m] /\ g[m - 1] = f[m - 1] /\ h[m] = 2 * g[m - 1]
        BY <3>2, <4>1
      <4> QED
        BY <2>2, <3>2, <4>1, <4>2
    <3>3. CASE m = n + 1
      <4>1. g[n + 1] = 2 * f[n] /\ g[n] = f[n] /\ (n + 1) - 1 = n
        OBVIOUS
      <4>2. h[n + 1] = 2 * g[(n + 1) - 1]
        OBVIOUS
      <4> QED
        BY <3>3, <4>1, <4>2
    <3> QED
      BY <3>1, <3>2, <3>3
  <2>4. g = h
    <3>1. g = [m \in 0..(n + 1) |-> g[m]] /\ h = [m \in 0..(n + 1) |-> h[m]]
      OBVIOUS
    <3> HIDE DEF g, h
    <3> QED
      BY <2>3, <3>1
  <2>5. IsDoublings(g, n + 1)
    BY <2>4 DEF IsDoublings
  <2> QED
    BY <2>5
<1> HIDE DEF T
<1>3. \A n \in Nat : n \in T
  BY <1>1, <1>2, SetInduction
<1> QED
  BY <1>3 DEF T

LEMMA DoublingsAgree ==
    ASSUME NEW n \in Nat, NEW k \in Nat, NEW f, NEW g, IsDoublings(f, n), IsDoublings(g, k)
    PROVE  \A m \in Nat : m <= n /\ m <= k => f[m] = g[m]
<1> DEFINE T == {m \in Nat : m <= n /\ m <= k => f[m] = g[m]}
<1>1. /\ \A m \in 0..n : f[m] = IF m = 0 THEN 1 ELSE 2 * f[m - 1]
      /\ \A m \in 0..k : g[m] = IF m = 0 THEN 1 ELSE 2 * g[m - 1]
  BY DEF IsDoublings
<1>2. 0 \in T
  BY <1>1
<1>3. ASSUME NEW m \in Nat, m \in T PROVE m + 1 \in T
  <2>1. ASSUME m + 1 <= n, m + 1 <= k PROVE f[m + 1] = g[m + 1]
    <3>1. f[m] = g[m] /\ m + 1 \in 0..n /\ m + 1 \in 0..k /\ (m + 1) - 1 = m /\ m + 1 # 0
      BY <1>3, <2>1
    <3>2. f[m + 1] = 2 * f[(m + 1) - 1] /\ g[m + 1] = 2 * g[(m + 1) - 1]
      BY <1>1, <3>1
    <3> QED
      BY <3>1, <3>2
  <2> QED
    BY <2>1
<1> HIDE DEF T
<1>4. \A m \in Nat : m \in T
  BY <1>2, <1>3, SetInduction
<1> QED
  BY <1>4 DEF T

LEMMA DoublingsDef ==
    \A n \in Nat : Doublings[n] = IF n = 0 THEN 1 ELSE 2 * Doublings[n - 1]
<1> DEFINE U(n) == CHOOSE f : IsDoublings(f, n)
           D == [n \in Nat |-> U(n)[n]]
           Rec(f) == f = [n \in Nat |-> IF n = 0 THEN 1 ELSE 2 * f[n - 1]]
<1>1. ASSUME NEW n \in Nat PROVE IsDoublings(U(n), n)
  BY DoublingsUpTo
<1> HIDE DEF U
<1>2. ASSUME NEW n \in Nat PROVE D[n] = IF n = 0 THEN 1 ELSE 2 * D[n - 1]
  <2>1. U(n)[n] = IF n = 0 THEN 1 ELSE 2 * U(n)[n - 1]
    <3>1. \A m \in 0..n : U(n)[m] = IF m = 0 THEN 1 ELSE 2 * U(n)[m - 1]
      BY <1>1 DEF IsDoublings
    <3> QED
      BY <3>1
  <2>2. CASE n = 0
    BY <2>1, <2>2
  <2>3. CASE n # 0
    <3>1. n - 1 \in Nat
      BY <2>3
    <3>2. U(n)[n - 1] = U(n - 1)[n - 1]
      <4>1. IsDoublings(U(n), n) /\ IsDoublings(U(n - 1), n - 1)
        BY <1>1, <3>1
      <4>2. \A m \in Nat : m <= n /\ m <= n - 1 => U(n)[m] = U(n - 1)[m]
        BY <3>1, <4>1, DoublingsAgree
      <4> QED
        BY <3>1, <4>2
    <3>3. D[n] = U(n)[n] /\ D[n - 1] = U(n - 1)[n - 1]
      BY <3>1
    <3> HIDE DEF D
    <3> QED
      BY <2>1, <2>3, <3>2, <3>3
  <2> QED
    BY <2>2, <2>3
<1>3. Rec(D)
  <2>1. D = [n \in Nat |-> D[n]]
    OBVIOUS
  <2> HIDE DEF D
  <2> QED
    BY Zenon, <1>2, <2>1
<1>4. Doublings = CHOOSE f : Rec(f)
  BY DEF Doublings
<1>5. Rec(Doublings)
  <2> HIDE DEF Rec, D
  <2> QED
    BY <1>3, <1>4
<1> QED
  BY <1>5

\* It outgrows its argument.
LEMMA DoublingsFacts ==
    \A n \in Nat : Doublings[n] \in Nat /\ Doublings[n] > n /\ Doublings[n + 1] = 2 * Doublings[n]
<1> DEFINE T == {n \in Nat : Doublings[n] \in Nat /\ Doublings[n] > n}
<1>1. 0 \in T
  BY DoublingsDef
<1>2. ASSUME NEW n \in Nat PROVE Doublings[n + 1] = 2 * Doublings[n]
  <2>1. n + 1 \in Nat /\ n + 1 # 0 /\ (n + 1) - 1 = n
    OBVIOUS
  <2> QED
    BY <2>1, DoublingsDef
<1>3. ASSUME NEW n \in Nat, n \in T PROVE n + 1 \in T
  BY <1>2, <1>3
<1> HIDE DEF T
<1>4. \A n \in Nat : n \in T
  BY <1>1, <1>3, SetInduction
<1> QED
  BY <1>2, <1>4 DEF T

-----------------------------------------------------------------------------
(* The waits.  A track that is off has not been retried, and has its first *)
(* wait again once it was checked; any other track has the wait that its   *)
(* retries call for.                                                       *)
Backed(r) == Min({OVERLOAD_WAIT * Doublings[r], RETRY_MAX})

WaitOK(d, r, seen) ==
    IF d.power = "OFF" THEN r = 0 /\ (seen => d.wait = OVERLOAD_WAIT)
    ELSE d.wait = Backed(r)

Waits ==
    /\ retries \in [Tracks -> 0..RETRY_MAX]
    /\ ~S.hasty => \A t \in Tracks : WaitOK(driver[t], retries[t], t \notin unseen)

LEMMA MinIs ==
    ASSUME NEW a \in Int, NEW b \in Int
    PROVE  Min({a, b}) = IF a <= b THEN a ELSE b
<1>1. \E x \in {a, b} : \A y \in {a, b} : x =< y
  OBVIOUS
<1>2. Min({a, b}) \in {a, b} /\ \A y \in {a, b} : Min({a, b}) =< y
  BY <1>1 DEF Min
<1> QED
  BY <1>2

LEMMA BackedFacts ==
    ASSUME session \in Range(Sessions)
    PROVE  /\ Backed(0) = OVERLOAD_WAIT
           /\ \A r \in 0..RETRY_MAX : LET n == Min({r + 1, RETRY_MAX})
                                      IN  n \in 0..RETRY_MAX /\ NextWait(Backed(r)) = Backed(n)
<1> DEFINE w == OVERLOAD_WAIT
           x == RETRY_MAX
<1>1. w \in Nat \ {0} /\ x \in Nat \ {0} /\ w <= x
  BY SessionFacts
<1>2. Backed(0) = w
  <2>1. Doublings[0] = 1
    BY DoublingsDef
  <2>2. w * 1 = w
    BY <1>1
  <2> QED
    BY <1>1, <2>1, <2>2, MinIs DEF Backed
<1> HIDE DEF w, x
<1>3. ASSUME NEW a \in Nat, NEW d \in Nat, d > a, a >= x PROVE w * d >= x
  <2>1. \A u, v \in Nat : u >= 1 => u * v >= v
    OBVIOUS
  <2>2. w * d >= d /\ w * d \in Nat
    BY <1>1, <2>1
  <2> QED
    BY <1>1, <1>3, <2>2
<1>4. ASSUME NEW r \in 0..x
      PROVE  LET n == Min({r + 1, x})
             IN  n \in 0..x /\ NextWait(Backed(r)) = Backed(n)
  <2> DEFINE d == Doublings[r]
  <2>1. r \in Nat /\ d \in Nat /\ d > r /\ Doublings[r + 1] = 2 * d
    BY <1>1, DoublingsFacts
  <2> HIDE DEF d
  <2>2. w * d \in Nat /\ w * (2 * d) = 2 * (w * d)
    BY <1>1, <2>1
  <2> DEFINE p == w * d
  <2>3. Backed(r) = IF p <= x THEN p ELSE x
    BY <1>1, <2>2, MinIs DEF Backed, d, w, x
  <2>4. p \in Nat /\ w * (2 * d) = 2 * p
    BY <2>2
  <2>5. CASE r < x
    <3>1. Min({r + 1, x}) = r + 1
      BY <1>1, <2>1, <2>5, MinIs
    <3>2. Backed(r + 1) = IF 2 * p <= x THEN 2 * p ELSE x
      <4>1. Backed(r + 1) = Min({2 * p, x})
        BY <2>1, <2>4 DEF Backed, w, x
      <4> HIDE DEF p
      <4> QED
        BY <1>1, <2>4, <4>1, MinIs
    <3> HIDE DEF p
    <3>3. NextWait(Backed(r)) = IF 2 * Backed(r) <= x THEN 2 * Backed(r) ELSE x
      <4>1. 2 * Backed(r) \in Int
        BY <1>1, <2>3, <2>4
      <4> QED
        BY <1>1, <4>1, MinIs DEF NextWait, x
    <3>4. NextWait(Backed(r)) = Backed(r + 1)
      BY <1>1, <2>3, <2>4, <3>2, <3>3
    <3> QED
      BY <1>1, <2>1, <2>5, <3>1, <3>4
  <2>6. CASE r = x
    <3>1. Min({r + 1, x}) = x
      BY <1>1, <2>1, <2>6, MinIs
    <3>2. p >= x
      BY <1>3, <2>1, <2>6
    <3> HIDE DEF p
    <3>3. Backed(r) = x
      BY <1>1, <2>3, <2>4, <3>2
    <3>4. NextWait(x) = x
      BY <1>1, MinIs DEF NextWait, x
    <3> QED
      BY <1>1, <2>6, <3>1, <3>3, <3>4
  <2> QED
    BY <1>1, <2>1, <2>5, <2>6
<1> QED
  BY <1>2, <1>4 DEF w, x

\* A check of track t that leaves its driver as d and its retries as r.
CheckedAs(t, d, r) ==
    /\ driver' = [driver EXCEPT ![t] = d]
    /\ retries' = [retries EXCEPT ![t] = r]
    /\ r \in 0..RETRY_MAX
    /\ ~S.hasty => WaitOK(d, r, TRUE)

LEMMA SameRetries ==
    ASSUME Waits, NEW t \in Tracks, retries' = retries
    PROVE  retries' = [retries EXCEPT ![t] = retries[t]] /\ retries[t] \in 0..RETRY_MAX
  BY DEF Waits

LEMMA OffWaits ==
    ASSUME TypeOK, Waits, NEW t \in Tracks, checkOff(t)
    PROVE  \E d, r : CheckedAs(t, d, r)
<1> DEFINE d == [driver[t] EXCEPT !.last = "OFF", !.wait = OVERLOAD_WAIT]
<1>1. driver[t] \in Driver /\ RETRY_MAX \in Nat
  BY SessionFacts DEF TypeOK
<1>2. d.power = driver[t].power /\ d.wait = OVERLOAD_WAIT
  BY <1>1 DEF Driver
<1>3. driver' = [driver EXCEPT ![t] = d] /\ driver[t].power = "OFF"
      /\ retries' = [retries EXCEPT ![t] = 0]
  BY DEF checkOff, Checked
<1> HIDE DEF d
<1>4. CheckedAs(t, d, 0)
  BY <1>1, <1>2, <1>3 DEF CheckedAs, WaitOK
<1> QED
  BY <1>4

LEMMA OnWaits ==
    ASSUME TypeOK, Waits, NEW t \in Tracks, checkOn(t)
    PROVE  \E d, r : CheckedAs(t, d, r)
<1> DEFINE d == [driver[t] EXCEPT !.last = "ON"]
           w == [d EXCEPT !.wait = OVERLOAD_WAIT]
<1>1. driver[t] \in Driver /\ driver[t].power = "ON" /\ OVERLOAD_WAIT \in Nat /\ RETRY_MAX \in Nat
  BY SessionFacts DEF TypeOK, checkOn
<1>2. d \in Driver /\ d.power = "ON" /\ d.wait = driver[t].wait
  BY <1>1 DEF Driver, POWERMODE
<1>3. w.power = "ON" /\ w.wait = OVERLOAD_WAIT
  BY <1>1 DEF Driver
<1> HIDE DEF d, w
<1>4. setPower(d, "ALERT").power = "ALERT" /\ setPower(d, "ALERT").wait = driver[t].wait
  BY <1>2, SetPowerFacts DEF POWERMODE
<1>5. \/ \E e \in {setPower(d, "ALERT"), d} : driver' = [driver EXCEPT ![t] = e] /\ retries' = retries
      \/ driver' = [driver EXCEPT ![t] = w] /\ retries' = [retries EXCEPT ![t] = 0]
  BY Zenon DEF checkOn, Checked, d, w
<1>6. ~S.hasty => driver[t].wait = Backed(retries[t])
  BY <1>1 DEF Waits, WaitOK
<1>7. ASSUME NEW e \in {setPower(d, "ALERT"), d}, driver' = [driver EXCEPT ![t] = e], retries' = retries
      PROVE  CheckedAs(t, e, retries[t])
  BY <1>2, <1>4, <1>6, <1>7, SameRetries DEF CheckedAs, WaitOK
<1>8. ASSUME driver' = [driver EXCEPT ![t] = w], retries' = [retries EXCEPT ![t] = 0]
      PROVE  CheckedAs(t, w, 0)
  <2>1. w.wait = Backed(0)
    BY <1>3, BackedFacts DEF TypeOK
  <2> QED
    BY <1>1, <1>3, <1>8, <2>1 DEF CheckedAs, WaitOK
<1> QED
  BY <1>5, <1>7, <1>8

LEMMA AlertWaits ==
    ASSUME TypeOK, Waits, NEW t \in Tracks, checkAlert(t)
    PROVE  \E d, r : CheckedAs(t, d, r)
<1>1. PICK d : /\ AfterCheck(t, d) /\ d.wait = driver[t].wait
               /\ driver' = [driver EXCEPT ![t] = d]
  BY AlertChecked
<1>2. driver[t].power = "ALERT" /\ retries' = retries
  BY DEF checkAlert
<1>3. d.power # "OFF"
  BY <1>1, <1>2 DEF AfterCheck
<1>4. ~S.hasty => driver[t].wait = Backed(retries[t])
  BY <1>2 DEF Waits, WaitOK
<1>5. CheckedAs(t, d, retries[t])
  BY <1>1, <1>2, <1>3, <1>4, SameRetries DEF CheckedAs, WaitOK
<1> QED
  BY <1>5

LEMMA OverloadWaits ==
    ASSUME TypeOK, Waits, NEW t \in Tracks, checkOverload(t)
    PROVE  \E d, r : CheckedAs(t, d, r)
<1> DEFINE d == [driver[t] EXCEPT !.last = "OVERLOAD"]
           w == [d EXCEPT !.wait = NextWait(@)]
           n == Min({retries[t] + 1, RETRY_MAX})
<1>1. driver[t] \in Driver /\ driver[t].power = "OVERLOAD" /\ RETRY_MAX \in Nat
  BY SessionFacts DEF TypeOK, checkOverload
<1>2. d \in Driver /\ d.power = "OVERLOAD" /\ d.wait = driver[t].wait
  BY <1>1 DEF Driver, POWERMODE
<1>3. /\ NextWait(d.wait) \in Nat
  <2> HIDE DEF d
  <2>1. d.wait \in Nat
    BY <1>2 DEF Driver
  <2> QED
    BY <1>1, <2>1, MinOfTwo DEF NextWait
<1>4. w \in Driver /\ w.power = "OVERLOAD" /\ w.wait = NextWait(driver[t].wait)
  BY Zenon, <1>2, <1>3 DEF Driver, POWERMODE
<1>5. retries \in [Tracks -> 0..RETRY_MAX] /\ retries[t] \in 0..RETRY_MAX
  BY DEF Waits
<1>6. ~S.hasty => driver[t].wait = Backed(retries[t])
  BY <1>1 DEF Waits, WaitOK
<1>7. n \in 0..RETRY_MAX /\ NextWait(Backed(retries[t])) = Backed(n)
  BY <1>5, BackedFacts DEF TypeOK
<1> HIDE DEF d, w
<1>8. \/ /\ driver' = [driver EXCEPT ![t] = setPower(w, "ALERT")]
         /\ retries' = [retries EXCEPT ![t] = n]
      \/ driver' = [driver EXCEPT ![t] = d] /\ retries' = retries
  BY Zenon, <1>5 DEF checkOverload, Checked, d, w
<1>9. setPower(w, "ALERT").power = "ALERT" /\ setPower(w, "ALERT").wait = NextWait(driver[t].wait)
  BY <1>4, SetPowerFacts DEF POWERMODE
<1> HIDE DEF n
<1>10. ASSUME driver' = [driver EXCEPT ![t] = setPower(w, "ALERT")],
              retries' = [retries EXCEPT ![t] = n]
       PROVE  CheckedAs(t, setPower(w, "ALERT"), n)
  BY <1>6, <1>7, <1>9, <1>10 DEF CheckedAs, WaitOK
<1>11. ASSUME driver' = [driver EXCEPT ![t] = d], retries' = retries
       PROVE  CheckedAs(t, d, retries[t])
  BY <1>2, <1>6, <1>11, SameRetries DEF CheckedAs, WaitOK
<1> QED
  BY <1>8, <1>10, <1>11

\* The waits of the next state, in terms of the limits of this one.
LEMMA WaitsNext ==
    ASSUME session' = session, retries' \in [Tracks -> 0..RETRY_MAX],
           ~S.hasty => \A t \in Tracks : WaitOK(driver'[t], retries'[t], t \notin unseen')
    PROVE  Waits'
  BY DEF Waits, WaitOK, Backed, Tracks, RETRY_MAX, OVERLOAD_WAIT, S

\* A command that leaves a checked driver d with retries r as e with retries q: what
\* it switches off starts again, and what it switches on keeps its wait.
LEMMA CommandWaits ==
    ASSUME TypeOK, NEW d, NEW e, NEW r, NEW q, WaitOK(d, r, TRUE), e.wait = d.wait,
           e.power = "OFF" => q = 0, e.power # "OFF" => q = r
    PROVE  WaitOK(e, q, FALSE)
<1>1. d.wait = Backed(r)
  BY BackedFacts DEF WaitOK, TypeOK
<1> QED
  BY <1>1 DEF WaitOK

\* A command is only given to checked tracks, unless the session is hasty.
LEMMA CommandsWait ==
    ASSUME TypeOK, Waits, UserCommand
    PROVE  Waits'
<1>0. /\ RETRY_MAX \in Nat
      /\ retries \in [Tracks -> 0..RETRY_MAX]
      /\ \A u \in Tracks : driver[u] \in Driver /\ retries[u] \in 0..RETRY_MAX
  BY SessionFacts DEF TypeOK, Waits
<1> SUFFICES ASSUME Command, NEW ts, NEW p, Reset(ts, p),
                    \A u \in Tracks :
                       /\ driver'[u].wait = driver[u].wait
                       /\ IF u \in ts /\ p = "OFF" THEN driver'[u].power = "OFF"
                          ELSE driver'[u].power = "OFF" => driver[u].power = "OFF"
             PROVE  Waits'
  <2>1. ASSUME NEW p \in {"OFF", "ON"}, NEW modes, setTrackPowerByMode(modes, p)
        PROVE  Waits'
    <3>1. PICK ts : /\ driver' = [t \in Tracks |->
                                    IF t \in ts THEN setPower(driver[t], p) ELSE driver[t]]
                    /\ Reset(ts, p) /\ Command
      BY <2>1 DEF setTrackPowerByMode
    <3>2. \A u \in Tracks : /\ setPower(driver[u], p).wait = driver[u].wait
                            /\ setPower(driver[u], p).power = p
      BY <1>0, SetPowerFacts DEF POWERMODE
    <3>3. \A u \in Tracks :
            /\ driver'[u].wait = driver[u].wait
            /\ IF u \in ts /\ p = "OFF" THEN driver'[u].power = "OFF"
               ELSE driver'[u].power = "OFF" => driver[u].power = "OFF"
      BY <3>1, <3>2
    <3> QED
      BY <3>1, <3>3
  <2>2. ASSUME NEW p \in {"OFF", "ON"}, NEW t \in Tracks, setTrackPower(t, p)
        PROVE  Waits'
    <3> DEFINE q == IF driver[t].mode = "NONE" THEN "OFF" ELSE p
    <3>1. driver' = [driver EXCEPT ![t] = setPower(driver[t], q)] /\ Reset({t}, q) /\ Command
      BY <2>2 DEF setTrackPower
    <3>2. setPower(driver[t], q).wait = driver[t].wait /\ setPower(driver[t], q).power = q
      BY <1>0, SetPowerFacts DEF POWERMODE
    <3>3. \A u \in Tracks :
            /\ driver'[u].wait = driver[u].wait
            /\ driver'[u].power = IF u = t THEN q ELSE driver[u].power
      BY <3>1, <3>2 DEF TypeOK
    <3>4. \A u \in Tracks :
            IF u \in {t} /\ q = "OFF" THEN driver'[u].power = "OFF"
            ELSE driver'[u].power = "OFF" => driver[u].power = "OFF"
      BY <3>3
    <3> QED
      BY <3>1, <3>3, <3>4
  <2>3. ASSUME NEW t \in Tracks, NEW mode \in TRACK_MODE, setTrackMode(t, mode)
        PROVE  Waits'
    <3> DEFINE losers == {u \in Tracks \ {t} : mode = "PROG" /\ driver[u].mode = "PROG"}
               ts == losers \cup (IF driver[t].mode = mode THEN {} ELSE {t})
               d == [driver[t] EXCEPT !.mode = mode, !.throttled = FALSE]
               lost(u) == [setPower(driver[u], "OFF") EXCEPT !.mode = "NONE"]
    <3>1. /\ driver' = [u \in Tracks |->
                IF u \in losers THEN lost(u)
                ELSE IF u # t THEN driver[u]
                ELSE IF driver[t].mode = mode THEN d ELSE setPower(d, "OFF")]
          /\ Reset(ts, "OFF") /\ Command
      BY Zenon, <2>3 DEF setTrackMode
    <3>2. d \in Driver /\ d.power = driver[t].power /\ d.wait = driver[t].wait
      BY Zenon, <1>0 DEF Driver
    <3>3. setPower(d, "OFF").power = "OFF" /\ setPower(d, "OFF").wait = driver[t].wait
      <4> HIDE DEF d
      <4> QED
        BY <3>2, SetPowerFacts DEF POWERMODE
    <3>4. \A u \in Tracks : lost(u).power = "OFF" /\ lost(u).wait = driver[u].wait
      <4> SUFFICES ASSUME NEW u \in Tracks
                   PROVE  lost(u).power = "OFF" /\ lost(u).wait = driver[u].wait
        OBVIOUS
      <4> DEFINE o == setPower(driver[u], "OFF")
      <4>1. o \in Driver /\ o.power = "OFF" /\ o.wait = driver[u].wait
        BY <1>0, SetPowerFacts DEF POWERMODE
      <4> HIDE DEF o
      <4>2. [o EXCEPT !.mode = "NONE"].wait = o.wait /\ [o EXCEPT !.mode = "NONE"].power = "OFF"
        BY <4>1 DEF Driver
      <4> QED
        BY <4>1, <4>2 DEF o
    <3> HIDE DEF d, lost
    <3>5. \A u \in Tracks :
            /\ driver'[u].wait = driver[u].wait
            /\ IF u \in ts /\ "OFF" = "OFF" THEN driver'[u].power = "OFF"
               ELSE driver'[u].power = "OFF" => driver[u].power = "OFF"
      BY <3>1, <3>2, <3>3, <3>4
    <3> HIDE DEF ts
    <3> QED
      BY SMTT(30), <3>1, <3>5
  <2> QED
    BY <2>1, <2>2, <2>3 DEF UserCommand
<1>1. retries' \in [Tracks -> 0..RETRY_MAX]
  BY <1>0 DEF Reset
<1>2. session' = session /\ unseen' = Tracks
  BY DEF Command
<1>3. ASSUME ~S.hasty, NEW u \in Tracks
      PROVE  WaitOK(driver'[u], retries'[u], u \notin unseen')
  <2>1. WaitOK(driver[u], retries[u], u \notin unseen) /\ u \notin unseen
    BY <1>3 DEF Waits, Command, Quiet
  <2>2. WaitOK(driver[u], retries[u], TRUE)
    BY <2>1 DEF WaitOK
  <2>3. driver[u].power = "OFF" => retries[u] = 0
    BY <2>2 DEF WaitOK
  <2>4. /\ driver'[u].power = "OFF" => retries'[u] = 0
        /\ driver'[u].power # "OFF" => retries'[u] = retries[u]
    BY <2>3 DEF Reset
  <2>5. WaitOK(driver'[u], retries'[u], FALSE)
    BY Zenon, <2>2, <2>4, CommandWaits
  <2> QED
    BY SMTT(30), <1>2, <2>5 DEF WaitOK
<1> QED
  BY <1>1, <1>2, <1>3, WaitsNext

\* DCCACK switches on only what was checked since it was off.
LEMMA AckWaits ==
    ASSUME TypeOK, Waits, AckStep
    PROVE  Waits'
<1>0. /\ RETRY_MAX \in Nat
      /\ retries \in [Tracks -> 0..RETRY_MAX] /\ driver \in [Tracks -> Driver]
      /\ ~S.hasty => \A t \in Tracks : WaitOK(driver[t], retries[t], t \notin unseen)
  BY SessionFacts DEF TypeOK, Waits
<1>1. PICK t \in Tracks :
        /\ session' = session
        /\ \A u \in Tracks : u \in unseen => u \in unseen'
        /\ \/ noSwitch
           \/ switch(t, "OFF") /\ t \in unseen'
           \/ switch(t, "ON") /\ t \in unseen' /\ (S.hasty \/ t \notin unseen)
  BY Zenon, AckSteps
<1>2. CASE noSwitch
  <2>1. driver' = driver /\ retries' = retries
    BY <1>2 DEF noSwitch
  <2>2. ASSUME ~S.hasty, NEW u \in Tracks
        PROVE  WaitOK(driver'[u], retries'[u], u \notin unseen')
    BY <1>0, <1>1, <2>1, <2>2 DEF WaitOK
  <2> QED
    BY <1>0, <1>1, <2>1, <2>2, WaitsNext
<1>3. ASSUME NEW p \in {"OFF", "ON"}, switch(t, p), t \in unseen',
             p = "ON" => S.hasty \/ t \notin unseen
      PROVE  Waits'
  <2>1. driver[t] \in Driver /\ p \in POWERMODE
    BY <1>0 DEF POWERMODE
  <2>2. setPower(driver[t], p).wait = driver[t].wait /\ setPower(driver[t], p).power = p
    BY <2>1, SetPowerFacts
  <2>3. /\ driver' = [driver EXCEPT ![t] = setPower(driver[t], p)]
        /\ retries' = [u \in Tracks |-> IF u \in {t} /\ p = "OFF" THEN 0 ELSE retries[u]]
    BY <1>3 DEF switch, Reset
  <2>4. retries' \in [Tracks -> 0..RETRY_MAX]
    BY <1>0, <2>3
  <2>5. ASSUME ~S.hasty, NEW u \in Tracks
        PROVE  WaitOK(driver'[u], retries'[u], u \notin unseen')
    <3>1. CASE u # t
      <4>1. driver'[u] = driver[u] /\ retries'[u] = retries[u]
        BY <1>0, <2>3, <3>1
      <4> QED
        BY <1>0, <1>1, <2>5, <4>1 DEF WaitOK
    <3>2. CASE u = t
      <4>1. /\ driver'[t].wait = driver[t].wait /\ driver'[t].power = p
            /\ retries'[t] = IF p = "OFF" THEN 0 ELSE retries[t]
        BY <1>0, <2>2, <2>3
      <4>2. CASE p = "OFF"
        BY <1>3, <3>2, <4>1, <4>2 DEF WaitOK
      <4>3. CASE p = "ON"
        <5>1. WaitOK(driver[t], retries[t], TRUE)
          BY <1>0, <1>3, <2>5, <4>3 DEF WaitOK
        <5>2. WaitOK(driver'[t], retries'[t], FALSE)
          BY Zenon, <4>1, <4>3, <5>1, CommandWaits
        <5> QED
          BY <1>3, <3>2, <5>2 DEF WaitOK
      <4> QED
        BY <4>2, <4>3
    <3> QED
      BY <3>1, <3>2
  <2> QED
    BY <1>1, <2>4, <2>5, WaitsNext
<1> QED
  BY <1>1, <1>2, <1>3

LEMMA WaitsInductive ==
    ASSUME TypeOK, Waits, [Next]_vars
    PROVE  Waits'
<1>0. /\ retries \in [Tracks -> 0..RETRY_MAX] /\ driver \in [Tracks -> Driver]
      /\ ~S.hasty => \A t \in Tracks : WaitOK(driver[t], retries[t], t \notin unseen)
  BY DEF TypeOK, Waits
<1>1. session' = session
  BY SameSession DEF vars
<1>2. CASE loop
  <2> DEFINE n == nextCycleTrack
  <2>1. n \in Tracks /\ unseen' = unseen \ {n}
    BY <1>2 DEF loop, TypeOK
  <2>2. PICK d, r : CheckedAs(n, d, r)
    BY <1>2, <2>1, OffWaits, OnWaits, AlertWaits, OverloadWaits DEF loop, checkPowerOverload
  <2>3. retries' \in [Tracks -> 0..RETRY_MAX]
    BY <1>0, <2>1, <2>2 DEF CheckedAs
  <2>4. ASSUME ~S.hasty, NEW t \in Tracks
        PROVE  WaitOK(driver'[t], retries'[t], t \notin unseen')
    <3>1. CASE t = n
      BY <1>0, <2>1, <2>2, <2>4, <3>1 DEF CheckedAs, WaitOK
    <3>2. CASE t # n
      <4>1. driver'[t] = driver[t] /\ retries'[t] = retries[t] /\ (t \in unseen' <=> t \in unseen)
        BY <1>0, <2>1, <2>2, <3>2 DEF CheckedAs
      <4> QED
        BY <1>0, <2>4, <4>1 DEF WaitOK
    <3> QED
      BY <3>1, <3>2
  <2> QED
    BY <1>1, <2>3, <2>4, WaitsNext
<1>3. CASE UserCommand
  BY <1>3, CommandsWait
<1>4. CASE \/ \E t \in Tracks, l \in S.loads : setLoad(t, l)
           \/ setDontLimitProg \/ status
           \/ UNCHANGED vars
  <2>1. UNCHANGED <<driver, retries, unseen>>
    BY <1>4 DEF setLoad, setDontLimitProg, status, vars
  <2> QED
    BY <1>0, <1>1, <2>1, WaitsNext
<1>5. CASE Tick
  <2>1. UNCHANGED <<retries, unseen>>
    BY <1>5 DEF Tick
  <2>2. \A t \in Tracks : driver'[t].power = driver[t].power /\ driver'[t].wait = driver[t].wait
    BY <1>5, TickOnDrivers
  <2>3. ~S.hasty => \A t \in Tracks : WaitOK(driver'[t], retries'[t], t \notin unseen')
    BY <1>0, <2>1, <2>2 DEF WaitOK
  <2> QED
    BY <1>0, <1>1, <2>1, <2>3, WaitsNext
<1>6. CASE AckStep
  BY <1>6, AckWaits
<1> QED
  BY <1>2, <1>3, <1>4, <1>5, <1>6 DEF Next, UserCommand, AckStep

\* The wait before the next retry of a track is the first wait doubled once for each
\* retry since the track was last off or good for long, up to the maximum, in every
\* session whose commands wait for a check of the tracks: whatever the loads, the
\* shared fault pins, the commands and the programs (checkPowerOverload, cases
\* OFF, ON and OVERLOAD).
THEOREM WaitDoubles == Spec => []BackOff
<1>1. Init => Waits
  <2> SUFFICES ASSUME Init PROVE Waits
    OBVIOUS
  <2>1. session \in Range(Sessions)
    BY TypeInit DEF TypeOK
  <2>2. RETRY_MAX \in Nat
    BY <2>1, SessionFacts
  <2>3. /\ retries = [t \in Tracks |-> 0]
        /\ \A t \in Tracks : driver[t].power = "OFF" /\ driver[t].wait = OVERLOAD_WAIT
    BY DEF Init, NewDriver
  <2> QED
    BY <2>2, <2>3 DEF Waits, WaitOK
<1>2. TypeOK /\ Waits /\ [Next]_vars => TypeOK' /\ Waits'
  BY TypeInductive, WaitsInductive
<1>3. Waits => BackOff
  BY DEF Waits, WaitOK, Backed, BackOff
<1> QED
  BY <1>1, <1>2, <1>3, TypeInit, PTL DEF Spec
=============================================================================
