-------------------------- MODULE DCCWaveformProofs --------------------------
(***************************************************************************)
(* The hand-over of packets from schedulePacket to the timer interrupt, for*)
(* every set of packets and every length of preamble, byte and packet.     *)
(***************************************************************************)
EXTENDS DCCWaveform, FiniteSetTheorems, SequenceTheorems, TLAPS

\* One more byte: the checksum is the exclusive or with it.
LEMMA CheckNext ==
    ASSUME NEW p \in Seq(Byte), NEW n \in Nat, n < Len(p)
    PROVE  CheckTo(p, n + 1) = Xor(CheckTo(p, n), p[n + 1])
<1>1. p[n + 1] \in Byte /\ Bits \in Nat
  BY WaveformAssumption, LenProperties
<1>2. ASSUME NEW k \in 1..Bits
      PROVE  k \in CheckTo(p, n + 1) <=> k \in Xor(CheckTo(p, n), p[n + 1])
  <2> DEFINE A(m) == {i \in 1..m : k \in p[i]}
  <2>1. IsFiniteSet(A(n)) /\ Cardinality(A(n)) \in Nat
    <3>1. IsFiniteSet(1..n)
      BY FS_Interval
    <3>2. A(n) \subseteq 1..n
      OBVIOUS
    <3> HIDE DEF A
    <3> QED
      BY <3>1, <3>2, FS_Subset, FS_CardinalityType
  <2>2. CASE k \in p[n + 1]
    <3>1. A(n + 1) = A(n) \cup {n + 1} /\ n + 1 \notin A(n)
      BY <2>2
    <3> HIDE DEF A
    <3>2. Cardinality(A(n + 1)) = Cardinality(A(n)) + 1
      BY <2>1, <3>1, FS_AddElement
    <3>3. Cardinality(A(n + 1)) % 2 = 1 <=> ~(Cardinality(A(n)) % 2 = 1)
      BY ONLY <2>1, <3>2
    <3> QED
      BY <2>2, <3>3 DEF CheckTo, Xor, A
  <2>3. CASE k \notin p[n + 1]
    <3>1. A(n + 1) = A(n)
      BY <2>3
    <3> QED
      BY <2>3, <3>1 DEF CheckTo, Xor
  <2> QED
    BY <2>2, <2>3
<1>3. CheckTo(p, n + 1) \subseteq 1..Bits /\ Xor(CheckTo(p, n), p[n + 1]) \subseteq 1..Bits
  BY <1>1 DEF CheckTo, Xor, Byte
<1> QED
  BY <1>2, <1>3

LEMMA CheckZero == \A p : CheckTo(p, 0) = {}
<1>1. ASSUME NEW p, NEW k PROVE Cardinality({i \in 1..0 : k \in p[i]}) = 0
  BY FS_EmptySet
<1> QED
  BY <1>1 DEF CheckTo

LEMMA CheckType == \A p, n : CheckTo(p, n) \in Byte
  BY DEF CheckTo, Byte

-----------------------------------------------------------------------------
(* The inductive invariant: the types, the shape of the wave, who owns the *)
(* pending buffer, and what schedulePacket has written so far.             *)

WaveShape ==
    /\ state \in {"WAVE_START", "WAVE_LOW_0"} => hi = 0
    /\ state \in {"WAVE_MID_1", "WAVE_HIGH_0"} => hi = 1
    /\ state = "WAVE_MID_0" => hi = 2

Written ==
    /\ pc # "idle" => arg.buf \in Packets /\ arg.repeats \in Repeats
    /\ pc = "copy" => /\ b <= Len(arg.buf) /\ checksum = CheckTo(arg.buf, b)
                      /\ \A i \in 0..(b - 1) : pendingPacket[i] = arg.buf[i + 1]
    /\ pc \in {"length", "repeats", "flag"} =>
          Contents(pendingPacket, Len(arg.buf) + 1) = Whole(arg.buf)
    /\ pc \in {"repeats", "flag"} => pendingLength = Len(arg.buf) + 1
    /\ pc = "flag" => pendingRepeats = arg.repeats

HandOver == TypeOK /\ WaveShape /\ BufferOwned /\ Written

LEMMA FillerFacts ==
    /\ Len(Filler) = 3 /\ Len(Filler) \in 0..(MaxPacketSize + 1)
    /\ \A i \in 1..3 : Filler[i] \in Byte
    /\ idlePacket = [i \in 1..3 |-> idlePacket[i]]
    /\ resetPacket = [i \in 1..3 |-> resetPacket[i]]
  BY WaveformAssumption DEF Filler, idlePacket, resetPacket, Byte, Ones

LEMMA FillFacts ==
    ASSUME NEW t \in Buffer
    PROVE  /\ FillBuffer(t, Filler) \in Buffer
           /\ Contents(FillBuffer(t, Filler), 3) = Filler
           /\ FillBuffer(t, idlePacket) \in Buffer
<1>1. FillBuffer(t, Filler) \in Buffer
  BY FillerFacts DEF FillBuffer, Buffer
<1>2. Contents(FillBuffer(t, Filler), 3) = [i \in 1..3 |-> Filler[i]]
  BY FillerFacts, WaveformAssumption DEF FillBuffer, Contents
<1>3. Filler = [i \in 1..3 |-> Filler[i]]
  BY FillerFacts DEF Filler
<1>4. FillBuffer(t, idlePacket) \in Buffer
  <2>1. Len(idlePacket) = 3 /\ \A i \in 1..3 : idlePacket[i] \in Byte
    BY DEF idlePacket, Byte, Ones
  <2>2. ASSUME NEW i \in 0..MaxPacketSize
        PROVE  (IF i < Len(idlePacket) THEN idlePacket[i + 1] ELSE t[i]) \in Byte
    BY <2>1, WaveformAssumption DEF Buffer
  <2> QED
    BY <2>2 DEF FillBuffer, Buffer
<1> QED
  BY <1>1, <1>2, <1>3, <1>4

LEMMA PacketFacts ==
    \A p \in Packets : /\ p \in Seq(Byte) /\ Len(p) \in 1..MaxPacketSize
                       /\ \A i \in 1..Len(p) : p[i] \in Byte
<1>1. ASSUME NEW p \in Packets
      PROVE  p \in Seq(Byte) /\ Len(p) \in Nat /\ Len(p) >= 1 /\ Len(p) <= MaxPacketSize
  BY WaveformAssumption, LenProperties
<1>2. ASSUME NEW p \in Packets, NEW i \in 1..Len(p) PROVE p[i] \in Byte
  BY <1>1, ElementOfSeq
<1> QED
  BY <1>1, <1>2, WaveformAssumption

-----------------------------------------------------------------------------
(* The interrupt keeps it.                                                 *)

LEMMA PromoteFacts ==
    ASSUME TypeOK, promotePendingPacket
    PROVE  /\ transmitPacket' \in Buffer /\ transmitLength' \in 0..(MaxPacketSize + 1)
           /\ transmitRepeats' \in Nat /\ packetPending' \in BOOLEAN
           /\ resets' \in 0..MaxResets
           /\ packetPending' => packetPending
<1>1. ASSUME repeatPacket
      PROVE  /\ transmitPacket' = transmitPacket /\ transmitLength' = transmitLength
             /\ transmitRepeats' \in Nat /\ packetPending' = packetPending
             /\ resets' = resets
  BY <1>1 DEF repeatPacket, TypeOK
<1>2. ASSUME sendPending
      PROVE  /\ transmitPacket' = pendingPacket /\ transmitLength' = pendingLength
             /\ transmitRepeats' = pendingRepeats /\ packetPending' = FALSE
             /\ resets' \in 0..MaxResets
  BY <1>2, WaveformAssumption DEF sendPending
<1>3. ASSUME sendFiller
      PROVE  /\ transmitPacket' \in Buffer /\ transmitLength' \in 0..(MaxPacketSize + 1)
             /\ transmitRepeats' \in Nat /\ packetPending' = packetPending
             /\ resets' \in 0..MaxResets
  <2>1. resets' \in 0..MaxResets
    BY <1>3, WaveformAssumption DEF sendFiller, TypeOK
  <2>2. transmitPacket' = FillBuffer(transmitPacket, Filler) /\ transmitPacket \in Buffer
    BY <1>3 DEF sendFiller, TypeOK
  <2> QED
    BY <1>3, <2>1, <2>2, FillerFacts, FillFacts DEF sendFiller
<1>4. /\ transmitPacket' \in Buffer /\ transmitLength' \in 0..(MaxPacketSize + 1)
      /\ transmitRepeats' \in Nat /\ resets' \in 0..MaxResets
  BY <1>1, <1>2, <1>3 DEF promotePendingPacket, TypeOK
<1>5. packetPending' = packetPending \/ packetPending' = FALSE
  BY <1>1, <1>2, <1>3 DEF promotePendingPacket
<1>6. packetPending' \in BOOLEAN /\ (packetPending' => packetPending)
  <2>1. packetPending \in BOOLEAN
    BY DEF TypeOK
  <2>2. CASE packetPending' = packetPending
    BY <2>1, <2>2
  <2>3. CASE packetPending' = FALSE
    BY <2>3
  <2> QED
    BY <1>5, <2>2, <2>3
<1> QED
  BY <1>4, <1>6

LEMMA InterruptKeepsHandOver ==
    ASSUME HandOver, interruptHandler PROVE HandOver'
<1> USE DEF HandOver
<1>0. TypeOK /\ requiredPreambles \in Nat /\ Bits \in Nat /\ MaxPacketSize \in Nat /\ Bits > 0
  BY WaveformAssumption DEF requiredPreambles
<1>01. isMainTrack' = isMainTrack /\ requiredPreambles' = requiredPreambles
  BY DEF interruptHandler, requiredPreambles
<1>1. /\ UNCHANGED <<pendingPacket, pendingLength, pendingRepeats, pc, arg, b, checksum,
                     posts, railcomActive, railcomPaused>>
      /\ hi' = IF signalTransform[state] THEN hi + 1 ELSE 0
  BY DEF interruptHandler, mainVars, Hear
<1>2. ASSUME preambleBit
      PROVE  /\ state' = "WAVE_MID_1" /\ remainingPreambles' \in 0..requiredPreambles
             /\ bits_sent' = bits_sent /\ bytes_sent' = bytes_sent
             /\ transmitPacket' \in Buffer /\ transmitLength' \in 0..(MaxPacketSize + 1)
             /\ transmitRepeats' \in Nat /\ packetPending' \in BOOLEAN
             /\ resets' \in 0..MaxResets /\ reminderWindowOpen' \in BOOLEAN
             /\ packetPending' => packetPending
             /\ cutoutNextTime' \in BOOLEAN /\ cutout' \in BOOLEAN
  <2>1. /\ state' = "WAVE_MID_1" /\ remainingPreambles' \in 0..requiredPreambles
        /\ bits_sent' = bits_sent /\ bytes_sent' = bytes_sent
        /\ reminderWindowOpen' \in BOOLEAN
    BY <1>0, <1>2 DEF preambleBit, TypeOK
  <2>2. (promotePendingPacket /\ noRailcom)
        \/ (keepPacket /\ railcomStep(remainingPreambles - 1))
    BY <1>2 DEF preambleBit
  <2>3. cutoutNextTime' \in BOOLEAN /\ cutout' \in BOOLEAN
    BY <1>0, <2>2 DEF noRailcom, railcomStep, started, TypeOK
  <2>4. /\ transmitPacket' \in Buffer /\ transmitLength' \in 0..(MaxPacketSize + 1)
        /\ transmitRepeats' \in Nat /\ packetPending' \in BOOLEAN
        /\ resets' \in 0..MaxResets /\ (packetPending' => packetPending)
    BY <1>0, <2>2, PromoteFacts DEF keepPacket, TypeOK
  <2> QED
    BY <2>1, <2>3, <2>4
<1>3. ASSUME packetBit
      PROVE  /\ state' \in {"WAVE_MID_1", "WAVE_HIGH_0"}
             /\ remainingPreambles' \in 0..requiredPreambles
             /\ bits_sent' \in 0..Bits /\ bytes_sent' \in 0..MaxPacketSize
             /\ UNCHANGED <<transmitPacket, transmitLength, transmitRepeats,
                            packetPending, resets, reminderWindowOpen>>
             /\ noRailcom
  BY <1>0, <1>3 DEF packetBit, keepPacket, TypeOK
<1>4. ASSUME waveOnly
      PROVE  /\ state' = stateTransform[state]
             /\ transmitRepeats' \in Nat
             /\ UNCHANGED <<remainingPreambles, bits_sent, bytes_sent, transmitPacket,
                            transmitLength, reminderWindowOpen, packetPending, resets>>
             /\ noRailcom
  BY <1>0, <1>4 DEF waveOnly, TypeOK
<1>5. \/ stateTransform[state] = "WAVE_PENDING" /\ (preambleBit \/ packetBit)
      \/ stateTransform[state] # "WAVE_PENDING" /\ waveOnly
  BY DEF interruptHandler, interrupt2
<1>6. state \in {"WAVE_START", "WAVE_MID_1", "WAVE_HIGH_0", "WAVE_MID_0", "WAVE_LOW_0"}
  BY <1>0 DEF TypeOK, stateTransform
<1>7. /\ state' \in {"WAVE_START", "WAVE_MID_1", "WAVE_HIGH_0", "WAVE_MID_0", "WAVE_LOW_0"}
      /\ hi' \in 0..2 /\ WaveShape'
  BY <1>1, <1>2, <1>3, <1>4, <1>5, <1>6
     DEF WaveShape, stateTransform, signalTransform
<1>8. TypeOK'
  <2>1. state' \in DOMAIN stateTransform \ {"WAVE_PENDING"}
    BY <1>7 DEF stateTransform
  <2>2. packetPending' \in BOOLEAN /\ resets' \in 0..MaxResets /\ reminderWindowOpen' \in BOOLEAN
    BY <1>0, <1>2, <1>3, <1>4, <1>5 DEF TypeOK
  <2>3. transmitPacket' \in Buffer /\ transmitLength' \in 0..(MaxPacketSize + 1) /\ transmitRepeats' \in Nat
    BY <1>0, <1>2, <1>3, <1>4, <1>5 DEF TypeOK
  <2>4. bits_sent' \in 0..Bits /\ bytes_sent' \in 0..MaxPacketSize /\ remainingPreambles' \in 0..requiredPreambles
    BY <1>0, <1>2, <1>3, <1>4, <1>5 DEF TypeOK
  <2>5. cutoutNextTime' \in BOOLEAN /\ cutout' \in BOOLEAN
    <3>1. noRailcom => cutoutNextTime' \in BOOLEAN /\ cutout' \in BOOLEAN
      BY <1>0 DEF noRailcom, started, TypeOK
    <3> QED
      BY <1>2, <1>3, <1>4, <1>5, <3>1
  <2> QED
    BY <1>0, <1>01, <1>1, <1>7, <2>1, <2>2, <2>3, <2>4, <2>5 DEF TypeOK
<1>9. packetPending' => packetPending
  BY <1>2, <1>3, <1>4, <1>5
<1>10. BufferOwned'
  BY <1>1, <1>9 DEF BufferOwned
<1>11. Written'
  BY <1>1 DEF Written, Contents
<1> QED
  BY <1>7, <1>8, <1>10, <1>11

-----------------------------------------------------------------------------
(* The main program keeps it.                                              *)

\* What the checksum byte completes.
LEMMA WholeWritten ==
    ASSUME NEW p \in Packets, NEW t \in Buffer,
           \A i \in 0..(Len(p) - 1) : t[i] = p[i + 1]
    PROVE  Contents([t EXCEPT ![Len(p)] = CheckTo(p, Len(p))], Len(p) + 1) = Whole(p)
<1> DEFINE n == Len(p)
           c == CheckTo(p, n)
           u == [t EXCEPT ![n] = c]
<1>1. p \in Seq(Byte) /\ n \in Nat /\ n \in 1..MaxPacketSize /\ c \in Byte
  BY PacketFacts, LenProperties, CheckType
<1> HIDE DEF c
<1>2. /\ Append(p, c) \in Seq(Byte) /\ Len(Append(p, c)) = n + 1
      /\ \A i \in 1..n : Append(p, c)[i] = p[i]
      /\ Append(p, c)[n + 1] = c
  BY <1>1, AppendProperties
<1>3. Append(p, c) = [i \in 1..(n + 1) |-> Append(p, c)[i]]
  BY <1>1, <1>2, LenProperties
<1>4. ASSUME NEW i \in 1..(n + 1) PROVE u[i - 1] = Append(p, c)[i]
  <2>1. CASE i = n + 1
    <3>1. u[n] = c
      BY <1>1, WaveformAssumption DEF Buffer
    <3> QED
      BY <1>1, <1>2, <2>1, <3>1
  <2>2. CASE i # n + 1
    <3>1. i \in 1..n /\ i - 1 \in 0..(n - 1) /\ i - 1 # n /\ (i - 1) + 1 = i
      BY <1>1, <2>2
    <3>2. u[i - 1] = t[i - 1]
      BY <1>1, <3>1, WaveformAssumption DEF Buffer
    <3> QED
      BY <1>2, <3>1, <3>2
  <2> QED
    BY <2>1, <2>2
<1> HIDE DEF u
<1>5. Contents(u, n + 1) = Append(p, c)
  BY <1>3, <1>4 DEF Contents
<1> QED
  BY <1>5 DEF Whole, u, c

LEMMA MainKeepsHandOver ==
    ASSUME HandOver, mainProgram PROVE HandOver'
<1> USE DEF HandOver
<1>0. TypeOK /\ pendingPacket \in Buffer /\ BufferOwned /\ Written
  BY DEF TypeOK
<1>1. ASSUME NEW p \in Packets, NEW r \in Repeats, schedulePacket(p, r) PROVE HandOver'
  <2>1. r \in Nat
    BY WaveformAssumption
  <2> QED
    BY <1>1, <2>1
       DEF schedulePacket, untouched, quiet, isrVars, railcomVars, pendingVars,
           TypeOK, requiredPreambles, WaveShape, BufferOwned, Written, Contents
<1>2. ASSUME waitNotPending PROVE HandOver'
  <2>1. /\ pc = "wait" /\ ~packetPending /\ pc' = "copy" /\ b' = 0 /\ checksum' = {}
        /\ UNCHANGED <<isMainTrack, isrVars, railcomVars, pendingVars, resets, arg, posts, hi>>
    BY <1>2 DEF waitNotPending, untouched, quiet
  <2>2. arg'.buf \in Packets /\ Len(arg'.buf) \in Nat /\ checksum' = CheckTo(arg'.buf, 0)
    BY <1>0, <2>1, PacketFacts, LenProperties, CheckZero DEF Written
  <2>3. Written'
    BY <1>0, <2>1, <2>2 DEF Written
  <2>4. TypeOK'
    BY <1>0, <2>1, WaveformAssumption
       DEF isrVars, railcomVars, pendingVars, TypeOK, requiredPreambles, Byte
  <2> QED
    BY <2>1, <2>3, <2>4 DEF isrVars, railcomVars, pendingVars, WaveShape, BufferOwned
<1>3. ASSUME copyByte PROVE HandOver'
  <2>1. /\ pc = "copy" /\ pc' = "copy" /\ b < Len(arg.buf) /\ b' = b + 1
        /\ checksum' = Xor(checksum, arg.buf[b + 1])
        /\ pendingPacket' = [pendingPacket EXCEPT ![b] = arg.buf[b + 1]]
        /\ UNCHANGED <<isMainTrack, isrVars, railcomVars, packetPending, pendingLength,
                       pendingRepeats, resets, arg, posts, hi>>
    BY <1>3 DEF copyByte, untouched, quiet
  <2>2. /\ arg.buf \in Packets /\ arg.buf \in Seq(Byte) /\ b \in Nat
        /\ Len(arg.buf) \in 1..MaxPacketSize
        /\ b + 1 \in 1..Len(arg.buf) /\ arg.buf[b + 1] \in Byte
    BY <1>0, <2>1, PacketFacts DEF Written, TypeOK
  <2>3. checksum' = CheckTo(arg.buf, b + 1)
    BY <1>0, <2>1, <2>2, CheckNext DEF Written
  <2>4. pendingPacket' \in Buffer /\ b' \in 0..MaxPacketSize /\ b' <= Len(arg.buf)
    BY <1>0, <2>1, <2>2, WaveformAssumption DEF Buffer
  <2>5. ASSUME NEW i \in 0..(b' - 1) PROVE pendingPacket'[i] = arg.buf[i + 1]
    <3>1. CASE i = b
      BY <1>0, <2>1, <2>2, <3>1, WaveformAssumption DEF Buffer
    <3>2. CASE i # b
      <4>1. i \in 0..(b - 1) /\ i \in 0..MaxPacketSize
        BY <2>1, <2>2, <3>2, WaveformAssumption
      <4>2. pendingPacket'[i] = pendingPacket[i]
        BY <1>0, <2>1, <3>2, <4>1 DEF Buffer
      <4> QED
        BY <1>0, <2>1, <4>1, <4>2 DEF Written
    <3> QED
      BY <3>1, <3>2
  <2>6. Written'
    BY <1>0, <2>1, <2>2, <2>3, <2>4, <2>5 DEF Written
  <2>7. TypeOK'
    BY <1>0, <2>1, <2>3, <2>4, CheckType DEF isrVars, railcomVars, TypeOK, requiredPreambles
  <2> QED
    BY <1>0, <2>1, <2>6, <2>7 DEF isrVars, railcomVars, WaveShape, BufferOwned
<1>4. ASSUME copyChecksum PROVE HandOver'
  <2>1. /\ pc = "copy" /\ pc' = "length" /\ b = Len(arg.buf)
        /\ pendingPacket' = [pendingPacket EXCEPT ![b] = checksum]
        /\ UNCHANGED <<isMainTrack, isrVars, railcomVars, packetPending, pendingLength,
                       pendingRepeats, resets, arg, b, checksum, posts, hi>>
    BY <1>4 DEF copyChecksum, untouched, quiet
  <2>2. /\ arg.buf \in Packets /\ checksum = CheckTo(arg.buf, Len(arg.buf))
        /\ \A i \in 0..(Len(arg.buf) - 1) : pendingPacket[i] = arg.buf[i + 1]
    BY <1>0, <2>1 DEF Written
  <2>3. Contents(pendingPacket', Len(arg.buf) + 1) = Whole(arg.buf)
    BY <1>0, <2>1, <2>2, WholeWritten
  <2>4. pendingPacket' \in Buffer
    BY <1>0, <2>1 DEF Buffer, TypeOK
  <2>5. Written'
    BY <1>0, <2>1, <2>2, <2>3 DEF Written
  <2>6. TypeOK'
    BY <1>0, <2>1, <2>4 DEF isrVars, railcomVars, TypeOK, requiredPreambles
  <2> QED
    BY <1>0, <2>1, <2>5, <2>6 DEF isrVars, railcomVars, WaveShape, BufferOwned
<1>5. ASSUME setLength PROVE HandOver'
  <2>1. pc = "length" /\ arg.buf \in Packets /\ Len(arg.buf) \in 1..MaxPacketSize
    BY <1>0, <1>5, PacketFacts DEF setLength, Written
  <2>2. Len(arg.buf) + 1 \in 0..(MaxPacketSize + 1)
    BY <2>1, WaveformAssumption
  <2> QED
    BY <1>5, <2>1, <2>2 DEF setLength, untouched, quiet, isrVars, railcomVars,
       TypeOK, requiredPreambles, WaveShape, BufferOwned, Written, Contents
<1>6. ASSUME setRepeats PROVE HandOver'
  BY <1>6 DEF setRepeats, untouched, quiet, isrVars, railcomVars,
     TypeOK, requiredPreambles, WaveShape, BufferOwned, Written, Contents
<1>7. ASSUME setPending PROVE HandOver'
  BY <1>7 DEF setPending, untouched, quiet, isrVars, railcomVars,
     TypeOK, requiredPreambles, WaveShape, BufferOwned, Written, Contents
<1>8. ASSUME schedulePacketEnd PROVE HandOver'
  <2>1. 0 \in 0..MaxResets
    BY WaveformAssumption
  <2> QED
    BY <1>8, <2>1 DEF schedulePacketEnd, untouched, quiet, isrVars, railcomVars,
       pendingVars, TypeOK, requiredPreambles, WaveShape, BufferOwned, Written, Contents
<1>9. ASSUME NEW on \in BOOLEAN, setRailcom(on) \/ pauseRailcom(on) PROVE HandOver'
  <2>1. UNCHANGED <<isMainTrack, isrVars, pendingVars, resets, mainVars, cutoutNextTime,
                    cutout, hi>>
    BY <1>9 DEF setRailcom, pauseRailcom, quiet
  <2>2. railcomActive' \in BOOLEAN /\ railcomPaused' \in BOOLEAN
    BY <1>0, <1>9 DEF setRailcom, pauseRailcom, TypeOK
  <2>3. TypeOK'
    BY <1>0, <2>1, <2>2 DEF isrVars, pendingVars, mainVars, TypeOK, requiredPreambles
  <2> QED
    BY <2>1, <2>3 DEF isrVars, pendingVars, mainVars, WaveShape, BufferOwned, Written, Contents
<1> QED
  BY <1>1, <1>2, <1>3, <1>4, <1>5, <1>6, <1>7, <1>8, <1>9
     DEF mainProgram, schedulePacketStep

LEMMA HandOverInductive ==
    /\ Init => HandOver
    /\ HandOver /\ [Next]_vars => HandOver'
<1>1. ASSUME Init PROVE HandOver
  <2>1. transmitPacket \in Buffer /\ pendingPacket \in Buffer
    <3>1. [i \in 0..MaxPacketSize |-> {}] \in Buffer
      BY DEF Buffer, Byte
    <3> QED
      BY <1>1, <3>1, FillFacts DEF Init
  <2>2. TypeOK
    BY <1>1, <2>1, WaveformAssumption DEF Init, TypeOK, requiredPreambles, stateTransform, Byte
  <2> QED
    BY <1>1, <2>2 DEF Init, HandOver, WaveShape, BufferOwned, Written
<1>2. ASSUME HandOver, UNCHANGED vars PROVE HandOver'
  BY <1>2 DEF vars, isrVars, pendingVars, mainVars, railcomVars, history,
     HandOver, TypeOK, requiredPreambles, WaveShape, BufferOwned, Written, Contents
<1> QED
  BY <1>1, <1>2, InterruptKeepsHandOver, MainKeepsHandOver DEF Next

\* All variables keep the types of the C++ members, and no index leaves its
\* array: bytes_sent stays inside transmitPacket for any packets scheduled.
THEOREM TypeCorrect == Spec => []TypeOK
<1>1. HandOver => TypeOK
  BY DEF HandOver
<1> QED
  BY <1>1, HandOverInductive, PTL DEF Spec

\* schedulePacket never writes the pending buffer while the interrupt may read it.
THEOREM OwnedBuffer == Spec => []BufferOwned
<1>1. HandOver => BufferOwned
  BY DEF HandOver
<1> QED
  BY <1>1, HandOverInductive, PTL DEF Spec

-----------------------------------------------------------------------------
(* The waveform implements the link.                                       *)

Box == IF packetPending
       THEN <<[frame |-> Contents(pendingPacket, pendingLength), left |-> pendingRepeats]>>
       ELSE <<>>
OnAir == [frame |-> Contents(transmitPacket, transmitLength), left |-> transmitRepeats]

\* The steps of PacketLink on Box and OnAir, written out.
LinkStep ==
    \/ \E f \in {Whole(p) : p \in Packets}, r \in Repeats :
          Box = <<>> /\ Box' = <<[frame |-> f, left |-> r]>> /\ OnAir' = OnAir
    \/ OnAir.left > 0 /\ OnAir' = [frame |-> OnAir.frame, left |-> OnAir.left - 1] /\ Box' = Box
    \/ OnAir.left = 0 /\ Box # <<>> /\ OnAir' = Box[1] /\ Box' = <<>>
    \/ /\ OnAir.left = 0 /\ Box = <<>> /\ Box' = Box
       /\ \E f \in {idlePacket, resetPacket} : OnAir' = [frame |-> f, left |-> 0]
    \/ OnAir' = [frame |-> OnAir.frame, left |-> 0] /\ Box' = Box
    \/ OnAir' = OnAir /\ Box' = Box

LEMMA SameLink ==
    ASSUME UNCHANGED <<transmitPacket, transmitLength, transmitRepeats>>,
           packetPending' = packetPending,
           packetPending => UNCHANGED <<pendingPacket, pendingLength, pendingRepeats>>
    PROVE  OnAir' = OnAir /\ Box' = Box
  BY DEF OnAir, Box, Contents

LEMMA PromoteIsLinkStep ==
    ASSUME TypeOK, promotePendingPacket,
           UNCHANGED <<pendingPacket, pendingLength, pendingRepeats>>
    PROVE  LinkStep
<1>1. CASE repeatPacket
  <2>1. /\ transmitRepeats > 0 /\ transmitRepeats' = transmitRepeats - 1
        /\ UNCHANGED <<transmitPacket, transmitLength, packetPending>>
    BY <1>1 DEF repeatPacket
  <2>2. OnAir.left > 0 /\ OnAir' = [frame |-> OnAir.frame, left |-> OnAir.left - 1]
    BY <2>1 DEF OnAir, Contents
  <2>3. Box' = Box
    BY <2>1 DEF Box, Contents
  <2> QED
    BY <2>2, <2>3 DEF LinkStep
<1>2. CASE sendPending
  <2>1. OnAir.left = 0 /\ Box # <<>> /\ OnAir' = Box[1] /\ Box' = <<>>
    BY <1>2 DEF sendPending, OnAir, Box, Contents
  <2> QED
    BY <2>1 DEF LinkStep
<1>3. CASE sendFiller
  <2>1. /\ OnAir.left = 0 /\ Box = <<>> /\ Box' = <<>>
        /\ transmitRepeats' = 0
    BY <1>3 DEF sendFiller, OnAir, Box
  <2>2. Contents(transmitPacket', transmitLength') = Filler
    BY <1>3, FillFacts, FillerFacts DEF sendFiller, TypeOK
  <2>3. OnAir' = [frame |-> Filler, left |-> 0]
    BY <2>1, <2>2 DEF OnAir, Contents
  <2> QED
    BY <2>1, <2>3 DEF LinkStep, Filler
<1> QED
  BY <1>1, <1>2, <1>3 DEF promotePendingPacket

LEMMA InterruptIsLinkStep ==
    ASSUME HandOver, interruptHandler PROVE LinkStep
<1>0. TypeOK /\ UNCHANGED <<pendingPacket, pendingLength, pendingRepeats>>
  BY DEF HandOver, interruptHandler
<1>1. ASSUME keepPacket PROVE LinkStep
  BY <1>0, <1>1, SameLink DEF keepPacket, LinkStep
<1>2. ASSUME waveOnly PROVE LinkStep
  <2>1. UNCHANGED <<transmitPacket, transmitLength, packetPending>>
    BY <1>2 DEF waveOnly
  <2>2. CASE transmitRepeats' = transmitRepeats
    BY <1>0, <2>1, <2>2, SameLink DEF LinkStep
  <2>3. CASE transmitRepeats' = 0
    <3>1. OnAir' = [frame |-> OnAir.frame, left |-> 0] /\ Box' = Box
      BY <1>0, <2>1, <2>3 DEF OnAir, Box, Contents
    <3> QED
      BY <3>1 DEF LinkStep
  <2> QED
    BY <1>2, <2>2, <2>3 DEF waveOnly
<1> QED
  BY <1>0, <1>1, <1>2, PromoteIsLinkStep
     DEF interruptHandler, interrupt2, preambleBit, packetBit

LEMMA MainIsLinkStep ==
    ASSUME HandOver, mainProgram PROVE LinkStep
<1>0. BufferOwned /\ Written
  BY DEF HandOver
<1>1. ASSUME setPending PROVE LinkStep
  <2>1. /\ pc = "flag" /\ packetPending' = TRUE /\ ~packetPending
        /\ UNCHANGED <<pendingPacket, pendingLength, pendingRepeats,
                       transmitPacket, transmitLength, transmitRepeats>>
    BY <1>0, <1>1 DEF setPending, untouched, isrVars, BufferOwned
  <2>2. /\ arg.buf \in Packets /\ arg.repeats \in Repeats
        /\ Contents(pendingPacket, pendingLength) = Whole(arg.buf)
        /\ pendingRepeats = arg.repeats
    BY <1>0, <2>1 DEF Written
  <2>3. Box = <<>> /\ OnAir' = OnAir
    BY <2>1 DEF Box, OnAir, Contents
  <2>4. Contents(pendingPacket', pendingLength') = Whole(arg.buf)
    BY <2>1, <2>2 DEF Contents
  <2>5. Box' = <<[frame |-> Whole(arg.buf), left |-> arg.repeats]>>
    BY <2>1, <2>2, <2>4 DEF Box, Contents
  <2> QED
    BY <2>2, <2>3, <2>5 DEF LinkStep
<1>2. ASSUME ~setPending
      PROVE  /\ UNCHANGED <<transmitPacket, transmitLength, transmitRepeats>>
             /\ packetPending' = packetPending
             /\ packetPending => UNCHANGED <<pendingPacket, pendingLength, pendingRepeats>>
  BY <1>0, <1>2 DEF mainProgram, schedulePacketStep, schedulePacket, waitNotPending,
     copyByte, copyChecksum, setLength, setRepeats, schedulePacketEnd, setRailcom,
     pauseRailcom, untouched, isrVars, pendingVars, BufferOwned
<1> QED
  BY <1>1, <1>2, SameLink DEF LinkStep

\* The pending buffer, its flag and the transmit buffer implement a box for one
\* packet and a packet on the air, in every interleaving of schedulePacket with
\* the timer interrupt: packets go on the air whole, in order, with the
\* repeats asked for.
THEOREM WaveformImplementsLink == Spec => RefinesLink
<1>1. Init => Link!Init
  <2>1. ASSUME Init
        PROVE  /\ Box = <<>>
               /\ OnAir = [frame |-> <<>>, left |-> 0]
    <3>1. [i \in 1..0 |-> transmitPacket[i - 1]] = <<>>
      OBVIOUS
    <3> QED
      BY <2>1, <3>1 DEF Init, Box, OnAir, Contents
  <2> QED
    BY <2>1 DEF Link!Init, Box, OnAir
<1>2. HandOver /\ [Next]_vars => [Link!Next]_(Link!LinkVars)
  <2>1. ASSUME HandOver, [Next]_vars PROVE LinkStep
    <3>1. CASE UNCHANGED vars
      BY <3>1, SameLink DEF vars, isrVars, pendingVars, LinkStep
    <3> QED
      BY <2>1, <3>1, InterruptIsLinkStep, MainIsLinkStep DEF Next
  <2>2. LinkStep => [Link!Next]_(Link!LinkVars)
    BY DEF LinkStep, Box, OnAir, Link!Next, Link!Post, Link!NextFrame,
       Link!CutRepeats, Link!LinkVars
  <2> QED
    BY <2>1, <2>2
<1> QED
  BY <1>1, <1>2, HandOverInductive, PTL DEF Spec, RefinesLink, Link!Spec
=============================================================================
