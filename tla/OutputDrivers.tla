--------------------------- MODULE OutputDrivers ----------------------------
(***************************************************************************)
(* The HAL drivers of sound players, pixel strips, displays, DCC accessory *)
(* decoders and bit maps.                                                  *)
(***************************************************************************)
EXTENDS I2CChips

(* ---- DFPlayer on a serial port or behind an I2C-UART bridge (bridge).   *)
(* Commands wait in a ring of Q_SIZE entries, one of them always free, and *)
(* are sent one per 120ms.  The player reports the end of a track.         *)
Q_SIZE == 8

(* The volume of the sound module after a reset of its own.                *)
PlayerVolume == 30

DFPlayer(c) ==
  Device("DFPlayer", c.first, c.n, c.addr,
    [playing |-> FALSE, flagLoop |-> FALSE, lastTrack |-> 1, volume |-> 20, folder |-> 1, queue |-> <<>>,
     unlock |-> FALSE, repeat |-> FALSE, xtalChecked |-> FALSE, bridge |-> c.bridge,
     hw |-> [up |-> TRUE, disturbed |-> FALSE, home |-> [track |-> 0, paused |-> 0, volume |-> PlayerVolume],
             track |-> 0, paused |-> 0, volume |-> PlayerVolume, finished |-> FALSE]])

queuePacket(d, cmd, arg) ==
  IF d.state = "FAILED" \/ Len(d.queue) = Q_SIZE - 1 THEN d
  ELSE [d EXCEPT !.queue = Append(@, [cmd |-> cmd, arg |-> arg])]

DF_begin(d) ==
  IF d.state = "FAILED" THEN d
  ELSE queuePacket(After([d EXCEPT !.state = "INITIALISING"], "init"), "RESET", 0)

DFI2C_begin(d) == IF d.hw.up THEN DF_begin(d) ELSE Failed(d)

DFSerial_begin(d) == DF_begin([d EXCEPT !.state = "NORMAL"])

DFPlayer_begin(d) == IF d.bridge THEN DFI2C_begin(d) ELSE DFSerial_begin(d)

DF_write(d, pin, value) ==
  LET w == [d EXCEPT !.flagLoop = FALSE, !.repeat = FALSE]
  IN  CASE d.state # "NORMAL" -> d
        [] d.state = "NORMAL" /\ value # 0 ->
             queuePacket([w EXCEPT !.playing = TRUE, !.lastTrack = pin + 1], "PLAY", pin + 1)
        [] OTHER -> queuePacket([w EXCEPT !.unlock = FALSE, !.playing = FALSE], "STOPPLAY", 0)

(* forceUpdate writes to the first vpin of the device, which is this one.  *)
forceUpdate(d, value) == DF_write(d, 0, value)

DF_writeAnalogue(d, v1, v2, cmd) ==
  IF d.state # "NORMAL" THEN d ELSE
  CASE cmd \in {"PLAY", "REPEATPLAY"} ->
         LET p == [d EXCEPT !.flagLoop = cmd = "REPEATPLAY", !.repeat = FALSE, !.playing = TRUE, !.lastTrack = v1]
             v == IF v2 \in 1 .. 30 THEN queuePacket([p EXCEPT !.volume = v2], "VOL", v2) ELSE p
         IN  queuePacket(v, "PLAY", v1)
    [] cmd = "FOLDER" ->
         queuePacket([d EXCEPT !.flagLoop = FALSE, !.playing = TRUE, !.folder = v2, !.lastTrack = v1], "FOLDER", v1)
    [] cmd = "STOPPLAY" ->
         forceUpdate(queuePacket([d EXCEPT !.flagLoop = FALSE, !.playing = FALSE, !.unlock = FALSE,
                                           !.repeat = FALSE], "STOPPLAY", 0), 0)
    [] cmd = "VOL" ->
         LET v == IF v2 > 0 THEN v2 ELSE 15 IN queuePacket([d EXCEPT !.volume = v], "VOL", v)
    [] cmd = "EQ" -> queuePacket(d, "EQ", v2)
    [] cmd = "PAUSE" -> queuePacket([d EXCEPT !.playing = FALSE], "PAUSE", 0)
    [] cmd = "RESUME" -> queuePacket([d EXCEPT !.playing = TRUE], "RESUME", 0)
    [] cmd = "RESET" ->
         After([queuePacket([d EXCEPT !.queue = <<>>], "RESET", 0) EXCEPT
                  !.state = "INITIALISING", !.xtalChecked = FALSE], "init")

(* The end-of-track report (0x3D): the byte that completes it starts the   *)
(* timer that plays the track again, or the one that declares it over.     *)
DF_processIncomingByte(d) ==
  IF ~d.hw.finished THEN d
  ELSE IF d.flagLoop THEN After([d EXCEPT !.repeat = TRUE, !.hw.finished = FALSE], "repeat")
  ELSE After([d EXCEPT !.unlock = TRUE, !.hw.finished = FALSE], "unlock")

DFI2C_processIncoming(d) == IF d.hw.up THEN DF_processIncomingByte(d) ELSE Failed(d)

DFSerial_processIncoming(d) == DF_processIncomingByte(d)

(* detectXtal tries both crystals of the bridge; what it finds only sets   *)
(* the baud rate.                                                          *)
DF_detectXtal(d) == [d EXCEPT !.xtalChecked = TRUE]

DF_initialised(d) ==
  IF d.state = "INITIALISING" /\ "init" \in d.due /\ ~d.xtalChecked
  THEN queuePacket([DF_detectXtal(d) EXCEPT !.state = "NORMAL"], "VOL", d.volume) ELSE d

DF_repeated(d) ==
  IF d.repeat /\ "repeat" \in d.due THEN queuePacket([d EXCEPT !.repeat = FALSE], "PLAY", d.lastTrack) ELSE d

DF_unlocked(d) ==
  IF d.unlock /\ "unlock" \in d.due
  THEN forceUpdate([d EXCEPT !.unlock = FALSE, !.playing = FALSE], 0) ELSE d

(* What the player does with a command.                                    *)
Obeys(hw, p) ==
  CASE p.cmd \in {"PLAY", "FOLDER"} -> [hw EXCEPT !.track = p.arg, !.paused = 0]
    [] p.cmd = "STOPPLAY" -> [hw EXCEPT !.track = 0, !.paused = 0]
    [] p.cmd = "PAUSE"    -> [hw EXCEPT !.track = 0, !.paused = hw.track]
    [] p.cmd = "RESUME"   -> [hw EXCEPT !.track = IF hw.track = 0 THEN hw.paused ELSE @]
    [] p.cmd = "VOL"      -> [hw EXCEPT !.volume = p.arg]
    [] p.cmd = "RESET"    -> [hw EXCEPT !.track = 0, !.paused = 0, !.volume = PlayerVolume]
    [] OTHER              -> hw

DF_transmit(d) ==
  IF d.queue = <<>> \/ "xmit" \notin d.due THEN d
  ELSE After([d EXCEPT !.queue = Tail(@),
                       !.hw = IF d.hw.up THEN Obeys(d.hw, Head(d.queue)) ELSE @], "xmit")

DF_loop(d) ==
  LET i == IF d.bridge THEN DFI2C_processIncoming(d) ELSE DFSerial_processIncoming(d)
  IN  DF_transmit(DF_unlocked(DF_repeated(DF_initialised(i))))

(* ---- NeoPixel: the adapter holds the pixels and shows them on command.  *)
NeoPixel(c) ==
  Device("NeoPixel", c.first, c.n, c.addr,
    [colour |-> [p \in 0 .. c.n - 1 |-> "white"], on |-> [p \in 0 .. c.n - 1 |-> FALSE], showPending |-> FALSE,
     hw |-> [up |-> TRUE, disturbed |-> FALSE, pixel |-> [p \in 0 .. c.n - 1 |-> "black"],
             lit |-> [p \in 0 .. c.n - 1 |-> "black"],
             home |-> [pixel |-> [p \in 0 .. c.n - 1 |-> "black"], lit |-> [p \in 0 .. c.n - 1 |-> "black"]]]])

Neo_transmit(d, pixel) ==
  [Do(d, [what |-> "pixel", pin |-> pixel, value |-> IF d.on[pixel] THEN d.colour[pixel] ELSE "black"])
     EXCEPT !.showPending = TRUE]

Neo_begin(d) ==
  LET sent[p \in -1 .. d.n - 1] == IF p = -1 THEN d ELSE Neo_transmit(sent[p - 1], p)
  IN  IF d.hw.up THEN sent[d.n - 1] ELSE Failed(d)

Neo_loop(d) == IF d.showPending THEN [Do(d, [what |-> "show"]) EXCEPT !.showPending = FALSE] ELSE d

Neo_write(d, pixel, value) ==
  IF d.state = "FAILED" \/ d.on[pixel] = (value # 0) THEN d
  ELSE Neo_transmit([d EXCEPT !.on[pixel] = value # 0], pixel)

Neo_writeAnalogue(d, pixel, colour, onoff) ==
  IF d.state = "FAILED" \/ (d.colour[pixel] = colour /\ d.on[pixel] = onoff) THEN d
  ELSE Neo_transmit([d EXCEPT !.on[pixel] = onoff, !.colour[pixel] = colour], pixel)

(* _writeRange: the pins it has taken, counted from the start of the range.*)
Neo_rangeTaken(d, count) == IF count > d.n THEN d.n ELSE count

Neo_writeRange(d, pin, value, count) ==
  LET upTo[k \in 0 .. Neo_rangeTaken(d, count)] ==
        IF k = 0 THEN d ELSE Neo_write(upTo[k - 1], pin + k - 1, value)
  IN  upTo[Neo_rangeTaken(d, count)]

Neo_writeAnalogueRange(d, pin, colour, onoff, count) ==
  LET upTo[k \in 0 .. Neo_rangeTaken(d, count)] ==
        IF k = 0 THEN d ELSE Neo_writeAnalogue(upTo[k - 1], pin + k - 1, colour, onoff)
  IN  upTo[Neo_rangeTaken(d, count)]

(* ---- HALDisplay: rows are written to a buffer, and redrawn character by *)
(* character when their generation has changed.  A row is a sequence of    *)
(* numCols characters, 0 being the blank.                                  *)
Blank(c) == [r \in 0 .. c.rows - 1 |-> [k \in 0 .. c.cols - 1 |-> 0]]

HALDisplay(c) ==
  Device("HALDisplay", 0, 0, c.addr,
    [rows |-> c.rows, cols |-> c.cols, buffer |-> Blank(c), rowNo |-> 0, colNo |-> 0,
     generation |-> [r \in 0 .. c.rows - 1 |-> 0], drawn |-> [r \in 0 .. c.rows - 1 |-> 0],
     rowToScreen |-> 0, charToScreen |-> c.cols, startAgain |-> FALSE,
     hw |-> [up |-> TRUE, disturbed |-> FALSE, screen |-> Blank(c), row |-> 0, home |-> [screen |-> Blank(c)]]])

Bump(g) == (g + 1) % 256

Display_begin(d) ==
  IF ~d.hw.up THEN d
  ELSE [d EXCEPT !.generation = [r \in DOMAIN @ |-> Bump(@[r])], !.rowToScreen = d.rows, !.charToScreen = d.cols]

(* The end of a row: on to the next, or to the top after a change.         *)
Display_nextRow(d) ==
  LET row == IF d.rowToScreen + 1 >= d.rows \/ d.startAgain THEN 0 ELSE d.rowToScreen + 1
      n == [d EXCEPT !.rowToScreen = row, !.startAgain = IF row = 0 THEN FALSE ELSE @]
  IN  IF d.generation[row] = d.drawn[row] THEN n
      ELSE [n EXCEPT !.drawn[row] = d.generation[row], !.charToScreen = 0, !.hw.row = row]

screenUpdate(d) ==
  IF d.charToScreen >= d.cols THEN Display_nextRow(d)
  ELSE [d EXCEPT !.charToScreen = @ + 1,
                 !.hw.screen = IF d.hw.up THEN [@ EXCEPT ![d.hw.row][d.charToScreen] =
                                                  d.buffer[d.rowToScreen][d.charToScreen]] ELSE @]

Display_loop(d) == screenUpdate(d)


(* Row 255 scrolls the screen and writes the bottom row.                   *)
Display_setRow(d, line) ==
  LET last == d.rows - 1
      s == IF line # 255 THEN d
           ELSE [d EXCEPT !.buffer = [r \in DOMAIN @ |-> IF r < last THEN @[r + 1] ELSE @[r]],
                          !.generation = [r \in DOMAIN @ |-> IF r < last THEN Bump(@[r]) ELSE @[r]]]
      row == IF line >= d.rows THEN last ELSE line
  IN  [s EXCEPT !.rowNo = row, !.colNo = 0, !.buffer[row] = [k \in DOMAIN @ |-> 0],
                !.generation[row] = Bump(@), !.startAgain = TRUE]

Display_write(d, c) ==
  IF d.colNo >= d.cols THEN d ELSE [d EXCEPT !.buffer[d.rowNo][d.colNo] = c, !.colNo = @ + 1]

(* ---- DCCAccessoryDecoder: pins are consecutive decoder outputs.         *)
DCCAccessoryDecoder(c) ==
  Device("DCCAccessoryDecoder", c.first, c.n, 0,
    [packed |-> c.decoder * 4 + c.sub, hw |-> [up |-> TRUE, disturbed |-> FALSE, home |-> <<>>, sent |-> <<>>]])

DCCAcc_write(d, pin, value) ==
  LET a == d.packed + pin
  IN  [d EXCEPT !.hw.sent = Append(@, [address |-> a \div 4, sub |-> a % 4, gate |-> value])]

(* ---- Bitmap: pins that remember what was written to them.               *)
Bitmap(c) ==
  Device("Bitmap", c.first, c.n, 0,
    [value |-> [p \in 0 .. c.n - 1 |-> 0], hw |-> [up |-> TRUE, disturbed |-> FALSE, home |-> <<>>]])

Bitmap_begin(d) == [d EXCEPT !.state = "NORMAL"]

Bitmap_write(d, pin, value) == [d EXCEPT !.value[pin] = IF value # 0 THEN 1 ELSE 0]

Bitmap_writeAnalogue(d, pin, value) == [d EXCEPT !.value[pin] = value]

Bitmap_read(d, pin) == IF d.value[pin] # 0 THEN 1 ELSE 0

Bitmap_readAnalogue(d, pin) == d.value[pin]
=============================================================================
