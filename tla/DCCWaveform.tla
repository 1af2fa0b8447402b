----------------------------- MODULE DCCWaveform -----------------------------
(***************************************************************************)
(* DCCWaveform.cpp: the transmitter of one track.  The timer interrupt     *)
(* sends transmitPacket bit by bit; the main program fills pendingPacket,  *)
(* byte by byte, and hands it over by setting packetPending.  The          *)
(* interrupt may come between any two statements of the main program and   *)
(* is not interrupted itself.                                              *)
(*                                                                         *)
(* A byte is the set of its 1 bits, numbered in the order they are sent.   *)
(* The decoder (rx) is history: it measures the signal and assembles what  *)
(* it hears, as a DCC decoder on the track would.                          *)
(***************************************************************************)
EXTENDS Integers, Sequences, FiniteSets

CONSTANTS
    Bits,           \* bits in a byte (8)
    PREAMBLE_BITS_MAIN, PREAMBLE_BITS_PROG,     \* 16 and 22
    WindowFrom,     \* preambles left when the reminder window opens (12)
    MaxPacketSize,  \* MAX_PACKET_SIZE (5)
    MaxResets,      \* where sentResetsSincePacket stops counting (250)
    MinPreamble,    \* 1 bits a decoder wants to see before a packet
    Packets,        \* the packets that may be scheduled
    Repeats,        \* the repeats they may be given
    MaxPackets      \* bound: packets scheduled in one behaviour

Byte == SUBSET (1..Bits)

ASSUME WaveformAssumption ==
    /\ Bits \in Nat \ {0}
    /\ PREAMBLE_BITS_MAIN \in Nat /\ PREAMBLE_BITS_MAIN > 2
    /\ PREAMBLE_BITS_PROG \in Nat /\ PREAMBLE_BITS_PROG > 2
    /\ WindowFrom \in Nat /\ MaxPacketSize \in Nat /\ MaxPacketSize >= 2
    /\ MaxResets \in Nat \ {0}
    /\ MinPreamble \in Nat /\ MaxPackets \in Nat /\ Repeats \subseteq Nat
    /\ Packets \subseteq Seq(Byte)
    /\ \A p \in Packets : Len(p) >= 1 /\ Len(p) <= MaxPacketSize

VARIABLES
    \* which of the two objects this is
    isMainTrack,
    \* the interrupt's own
    state, remainingPreambles, bits_sent, bytes_sent,
    transmitPacket, transmitLength, transmitRepeats, reminderWindowOpen,
    \* shared
    packetPending, pendingPacket, pendingLength, pendingRepeats, resets,
    \* schedulePacket in the main program: statement, argument, loop variables
    pc, arg, b, checksum, posts,
    \* railcom: flags, and whether the cutout timer waits for its acknowledgement
    railcomActive, railcomPaused, cutoutNextTime, cutout,
    \* history: the decoder, the frame it completes, the frames it should hear
    hi, rx, heard, owed

isrVars == <<state, remainingPreambles, bits_sent, bytes_sent,
             transmitPacket, transmitLength, transmitRepeats, reminderWindowOpen>>
pendingVars == <<packetPending, pendingPacket, pendingLength, pendingRepeats>>
mainVars == <<pc, arg, b, checksum, posts>>
railcomVars == <<railcomActive, railcomPaused, cutoutNextTime, cutout>>
history == <<hi, rx, heard, owed>>
vars == <<isMainTrack, isrVars, pendingVars, resets, mainVars, railcomVars, history>>

Xor(x, y) == (x \ y) \cup (y \ x)

\* transmitPacket and pendingPacket are arrays of MAX_PACKET_SIZE+1 bytes.
Buffer == [0..MaxPacketSize -> Byte]
Contents(buffer, n) == [i \in 1..n |-> buffer[i - 1]]

Ones == 1..Bits
idlePacket == <<Ones, {}, Ones>>
resetPacket == <<{}, {}, {}>>
Filler == IF isMainTrack THEN idlePacket ELSE resetPacket
FillBuffer(buffer, p) ==
    [i \in 0..MaxPacketSize |-> IF i < Len(p) THEN p[i + 1] ELSE buffer[i]]

\* The checksum of the first n bytes of p has the bits that an odd number of
\* them have; Whole is p with its checksum, as it has to be sent.
CheckTo(p, n) ==
    {k \in 1..Bits : Cardinality({i \in 1..n : k \in p[i]}) % 2 = 1}
Whole(p) == Append(p, CheckTo(p, Len(p)))

stateTransform ==
    [WAVE_START |-> "WAVE_PENDING", WAVE_MID_1 |-> "WAVE_START",
     WAVE_HIGH_0 |-> "WAVE_MID_0", WAVE_MID_0 |-> "WAVE_LOW_0",
     WAVE_LOW_0 |-> "WAVE_START", WAVE_PENDING |-> "WAVE_PENDING"]
signalTransform ==
    [WAVE_START |-> TRUE, WAVE_MID_1 |-> FALSE, WAVE_HIGH_0 |-> TRUE,
     WAVE_MID_0 |-> FALSE, WAVE_LOW_0 |-> FALSE, WAVE_PENDING |-> FALSE]

requiredPreambles == 1 + (IF isMainTrack THEN PREAMBLE_BITS_MAIN ELSE PREAMBLE_BITS_PROG)

\* The objects are static: what the constructor leaves out is zero.
Init ==
    /\ isMainTrack \in BOOLEAN
    /\ state = "WAVE_START" /\ remainingPreambles = 0
    /\ bits_sent = 0 /\ bytes_sent = 0
    /\ transmitPacket = FillBuffer([i \in 0..MaxPacketSize |-> {}], idlePacket)
    /\ transmitLength = 0 /\ transmitRepeats = 0 /\ reminderWindowOpen = FALSE
    /\ packetPending = FALSE /\ pendingPacket = [i \in 0..MaxPacketSize |-> {}]
    /\ pendingLength = 0 /\ pendingRepeats = 0 /\ resets = 0
    /\ pc = "idle" /\ arg = [buf |-> <<>>, repeats |-> 0] /\ b = 0 /\ checksum = {}
    /\ posts = 0
    /\ railcomActive = FALSE /\ railcomPaused = FALSE
    /\ cutoutNextTime = FALSE /\ cutout = FALSE
    /\ hi = 0 /\ heard = <<>> /\ owed = <<>>
    /\ rx = [data |-> FALSE, ones |-> 0, bit |-> 0, byte |-> {}, bytes |-> <<>>]

-----------------------------------------------------------------------------
(* The decoder on the track.                                               *)

\* The decoder takes in one bit: it hunts for a preamble and the 0 that ends
\* it, then reads bytes, each followed by a 0 or, after the last, by a 1.
Feed(r, one) ==
    CASE ~r.data /\ one ->
            [r EXCEPT !.ones = IF @ < MinPreamble THEN @ + 1 ELSE @]
      [] ~r.data /\ ~one ->
            [r EXCEPT !.data = (r.ones >= MinPreamble), !.ones = 0]
      [] r.data /\ r.bit < Bits ->
            [r EXCEPT !.bit = @ + 1,
                      !.byte = IF one THEN @ \cup {r.bit + 1} ELSE @]
      [] r.data /\ r.bit = Bits /\ ~one ->
            [r EXCEPT !.bit = 0, !.byte = {}, !.bytes = Append(@, r.byte)]
      [] OTHER ->
            [data |-> FALSE, ones |-> 1, bit |-> 0, byte |-> {}, bytes |-> <<>>]

FrameEnds(r, one) == r.data /\ r.bit = Bits /\ one

\* n of the frames owed have been heard or are cancelled.
Paid(o, n) ==
    IF o = <<>> \/ n = 0 THEN o
    ELSE IF o[1].left > n THEN [o EXCEPT ![1].left = @ - n]
    ELSE Tail(o)

\* The next frame the decoder should hear.
Due(o, frame) == o # <<>> /\ o[1].frame = frame

\* The decoder measures the high half of each bit: one tick for a 1, two for
\* a 0.  A frame that is byte for byte the one due is no longer owed, nor are
\* repeats that are cut short.
Hear(level, cut) ==
    LET one == (hi = 1)
        edge == ~level /\ hi > 0
        frame == Append(rx.bytes, rx.byte)
        ends == edge /\ FrameEnds(rx, one)
    IN  /\ hi' = IF level THEN hi + 1 ELSE 0
        /\ rx' = IF edge THEN Feed(rx, one) ELSE rx
        /\ heard' = IF ends THEN <<frame>> ELSE <<>>
        /\ owed' = Paid(IF ends /\ Due(owed, frame) THEN Paid(owed, 1) ELSE owed, cut)

-----------------------------------------------------------------------------
(* The timer interrupt.                                                    *)

\* Mutant: the pending packet is forgotten while the last one is repeated.
repeatPacket_Lose ==
    /\ transmitRepeats > 0
    /\ transmitRepeats' = transmitRepeats - 1
    /\ packetPending' = FALSE
    /\ UNCHANGED <<transmitPacket, transmitLength, resets>>

repeatPacket ==
    /\ transmitRepeats > 0
    /\ transmitRepeats' = transmitRepeats - 1
    /\ UNCHANGED <<transmitPacket, transmitLength, packetPending, resets>>

sendPending ==
    /\ transmitRepeats = 0 /\ packetPending
    /\ transmitPacket' = pendingPacket
    /\ transmitLength' = pendingLength
    /\ transmitRepeats' = pendingRepeats
    /\ packetPending' = FALSE
    /\ resets' = 0

sendFiller ==
    /\ transmitRepeats = 0 /\ ~packetPending
    /\ transmitPacket' = FillBuffer(transmitPacket, Filler)
    /\ transmitLength' = Len(Filler)
    /\ transmitRepeats' = 0
    /\ resets' = IF resets < MaxResets THEN resets + 1 ELSE resets
    /\ UNCHANGED packetPending

promotePendingPacket == repeatPacket \/ sendPending \/ sendFiller

keepPacket == UNCHANGED <<transmitPacket, transmitLength, transmitRepeats,
                          packetPending, resets>>

\* The handler begins by starting the cutout that the last bit asked for.
started == cutout \/ cutoutNextTime
noRailcom == cutoutNextTime' = FALSE /\ cutout' = started

\* The railcom branch of interrupt2, on the value remainingPreambles gets.
railcomStep(preambles) ==
    LET on == isMainTrack /\ railcomActive /\ ~railcomPaused
    IN  /\ cutoutNextTime' = (on /\ preambles = requiredPreambles - 1)
        /\ cutout' = (started /\ ~(on /\ preambles = requiredPreambles - 3))

preambleBit ==
    LET left == remainingPreambles - 1
    IN  /\ remainingPreambles > 0
        /\ state' = "WAVE_MID_1"
        /\ remainingPreambles' = left
        /\ reminderWindowOpen' = (transmitRepeats = 0 /\ left < WindowFrom /\ left > 1)
        /\ \/ left = 1 /\ promotePendingPacket /\ noRailcom
           \/ left # 1 /\ keepPacket /\ railcomStep(left)
        /\ UNCHANGED <<bits_sent, bytes_sent>>

\* Bit 0 of the mask is empty: each byte begins with a 0.
packetBit ==
    LET lastBit == bits_sent + 1 = Bits + 1
        lastByte == lastBit /\ bytes_sent + 1 >= transmitLength
    IN  /\ remainingPreambles = 0
        /\ state' = IF bits_sent \in transmitPacket[bytes_sent]
                    THEN "WAVE_MID_1" ELSE "WAVE_HIGH_0"
        /\ bits_sent' = IF lastBit THEN 0 ELSE bits_sent + 1
        /\ bytes_sent' = IF lastByte THEN 0
                         ELSE IF lastBit THEN bytes_sent + 1 ELSE bytes_sent
        /\ remainingPreambles' = IF lastByte THEN requiredPreambles ELSE 0
        /\ keepPacket
        /\ noRailcom
        /\ UNCHANGED reminderWindowOpen

interrupt2 == preambleBit \/ packetBit

\* Between bits only the wave moves on.  On the programming track this is when
\* DCCACK::checkAck runs, which may cut the repeats short.
waveOnly ==
    /\ state' = stateTransform[state]
    /\ \/ transmitRepeats' = transmitRepeats
       \/ ~isMainTrack /\ transmitRepeats' = 0
    /\ noRailcom
    /\ UNCHANGED <<remainingPreambles, bits_sent, bytes_sent, transmitPacket,
                   transmitLength, reminderWindowOpen, packetPending, resets>>

interruptHandler ==
    /\ \/ /\ stateTransform[state] = "WAVE_PENDING"
          /\ interrupt2
          /\ Hear(signalTransform[state], 0)
       \/ /\ stateTransform[state] # "WAVE_PENDING"
          /\ waveOnly
          /\ Hear(signalTransform[state], transmitRepeats - transmitRepeats')
    /\ UNCHANGED <<pendingPacket, pendingLength, pendingRepeats, mainVars,
                   railcomActive, railcomPaused, isMainTrack>>

-----------------------------------------------------------------------------
(* The main program.                                                       *)

quiet == heard' = <<>> /\ UNCHANGED <<hi, rx>>
untouched == UNCHANGED <<isMainTrack, isrVars, railcomVars>>

\* byteCount is the length of p; longer packets than the buffer are dropped.
schedulePacket(p, r) ==
    /\ pc = "idle" /\ posts < MaxPackets /\ Len(p) <= MaxPacketSize
    /\ pc' = "wait" /\ arg' = [buf |-> p, repeats |-> r] /\ posts' = posts + 1
    /\ UNCHANGED <<pendingVars, resets, b, checksum, owed>> /\ untouched /\ quiet

\* Mutant: no wait for the interrupt to take the last packet.
waitNotPending_Skip ==
    /\ pc = "wait"
    /\ pc' = "copy" /\ b' = 0 /\ checksum' = {}
    /\ UNCHANGED <<pendingVars, resets, arg, posts, owed>> /\ untouched /\ quiet

waitNotPending ==
    /\ pc = "wait" /\ ~packetPending
    /\ pc' = "copy" /\ b' = 0 /\ checksum' = {}
    /\ UNCHANGED <<pendingVars, resets, arg, posts, owed>> /\ untouched /\ quiet

copyByte ==
    /\ pc = "copy" /\ b < Len(arg.buf)
    /\ checksum' = Xor(checksum, arg.buf[b + 1])
    /\ pendingPacket' = [pendingPacket EXCEPT ![b] = arg.buf[b + 1]]
    /\ b' = b + 1
    /\ UNCHANGED <<packetPending, pendingLength, pendingRepeats, resets, pc, arg,
                   posts, owed>> /\ untouched /\ quiet

copyChecksum ==
    /\ pc = "copy" /\ b = Len(arg.buf)
    /\ pendingPacket' = [pendingPacket EXCEPT ![b] = checksum]
    /\ pc' = "length"
    /\ UNCHANGED <<packetPending, pendingLength, pendingRepeats, resets, arg, b,
                   checksum, posts, owed>> /\ untouched /\ quiet

setLength ==
    /\ pc = "length"
    /\ pendingLength' = Len(arg.buf) + 1
    /\ pc' = "repeats"
    /\ UNCHANGED <<packetPending, pendingPacket, pendingRepeats, resets, arg, b,
                   checksum, posts, owed>> /\ untouched /\ quiet

setRepeats ==
    /\ pc = "repeats"
    /\ pendingRepeats' = arg.repeats
    /\ pc' = "flag"
    /\ UNCHANGED <<packetPending, pendingPacket, pendingLength, resets, arg, b,
                   checksum, posts, owed>> /\ untouched /\ quiet

setPending ==
    /\ pc = "flag"
    /\ packetPending' = TRUE
    /\ owed' = Append(owed, [frame |-> Whole(arg.buf), left |-> arg.repeats + 1])
    /\ pc' = "clear"
    /\ UNCHANGED <<pendingPacket, pendingLength, pendingRepeats, resets, arg, b,
                   checksum, posts>> /\ untouched /\ quiet

schedulePacketEnd ==
    /\ pc = "clear"
    /\ resets' = 0
    /\ pc' = "idle"
    /\ UNCHANGED <<pendingVars, arg, b, checksum, posts, owed>> /\ untouched /\ quiet

setRailcom(on) ==
    /\ pc = "idle" /\ isMainTrack
    /\ railcomActive' = on
    /\ UNCHANGED <<isMainTrack, isrVars, pendingVars, resets, mainVars, railcomPaused,
                   cutoutNextTime, cutout, owed>> /\ quiet

pauseRailcom(paused) ==
    /\ pc = "idle" /\ isMainTrack
    /\ railcomPaused' = paused
    /\ UNCHANGED <<isMainTrack, isrVars, pendingVars, resets, mainVars, railcomActive,
                   cutoutNextTime, cutout, owed>> /\ quiet

schedulePacketStep ==
    waitNotPending \/ copyByte \/ copyChecksum \/ setLength \/ setRepeats
    \/ setPending \/ schedulePacketEnd

mainProgram ==
    \/ \E p \in Packets, r \in Repeats : schedulePacket(p, r)
    \/ schedulePacketStep
    \/ \E on \in BOOLEAN : setRailcom(on)
    \/ \E paused \in BOOLEAN : pauseRailcom(paused)

Next == interruptHandler \/ mainProgram

Spec == Init /\ [][Next]_vars

\* The timer never stops, and the main program gets the time between.
FairSpec == Spec /\ WF_vars(interruptHandler) /\ WF_vars(schedulePacketStep)

-----------------------------------------------------------------------------
\* Every counter and index of interrupt2 and schedulePacket keeps its range: no
\* byte beyond the packet is sent and resets stops at its limit.
TypeOK ==
    /\ isMainTrack \in BOOLEAN
    /\ state \in DOMAIN stateTransform \ {"WAVE_PENDING"}
    /\ remainingPreambles \in 0..requiredPreambles
    /\ bits_sent \in 0..Bits /\ bytes_sent \in 0..MaxPacketSize
    /\ transmitPacket \in Buffer /\ transmitLength \in 0..(MaxPacketSize + 1)
    /\ transmitRepeats \in Nat /\ reminderWindowOpen \in BOOLEAN
    /\ packetPending \in BOOLEAN /\ pendingPacket \in Buffer
    /\ pendingLength \in 0..(MaxPacketSize + 1) /\ pendingRepeats \in Nat
    /\ resets \in 0..MaxResets
    /\ pc \in {"idle", "wait", "copy", "length", "repeats", "flag", "clear"}
    /\ arg \in [buf : Packets \cup {<<>>}, repeats : Nat]
    /\ b \in 0..MaxPacketSize /\ checksum \in Byte /\ posts \in Nat
    /\ railcomActive \in BOOLEAN /\ railcomPaused \in BOOLEAN
    /\ cutoutNextTime \in BOOLEAN /\ cutout \in BOOLEAN
    /\ hi \in 0..2

\* The main program writes the pending buffer only while the interrupt cannot
\* promote it.
BufferOwned == pc \in {"copy", "length", "repeats", "flag"} => ~packetPending

\* What the decoder hears is filler or, byte for byte with its checksum, the
\* packet whose turn it is, never a mixture of two or one out of order; and every
\* packet scheduled is heard as often as promised (schedulePacket with its busy
\* wait, promotePendingPacket and interrupt2).
AllHeard ==
    /\ [][\A i \in DOMAIN heard' : heard'[i] = Filler \/ Due(owed, heard'[i])]_vars
    /\ (owed # <<>>) ~> (owed = <<>>)

Link == INSTANCE PacketLink WITH
    Frames <- {Whole(p) : p \in Packets},
    Fillers <- {idlePacket, resetPacket},
    NoFrame <- <<>>,
    box <- IF packetPending
           THEN <<[frame |-> Contents(pendingPacket, pendingLength),
                   left |-> pendingRepeats]>>
           ELSE <<>>,
    onAir <- [frame |-> Contents(transmitPacket, transmitLength),
              left |-> transmitRepeats]

\* The pending buffer with its flag is a box for one packet, and the promotion
\* moves whole packets on the air.
RefinesLink == Link!Spec
=============================================================================
