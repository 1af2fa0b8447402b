------------------------------ MODULE RingStream ------------------------------
(***************************************************************************)
(* RingStream.cpp: a ring of bytes that holds messages, each a client id,  *)
(* two bytes of count and the text.  A ring is a record and the methods of *)
(* the class are operators from rings to rings.                            *)
(*                                                                         *)
(* A string in flash is written as a marker and its two address bytes; the *)
(* count is its real length and read() expands it.  ins is what is left of *)
(* the string being expanded.                                              *)
(***************************************************************************)
EXTENDS Integers, Sequences, SequencesExt, FiniteSets

CONSTANT
    FlashAt     \* the strings in flash: a function from addresses to texts

NO_CLIENT == 255
FLASH_INSERT_MARKER == 255    \* not a byte of text

ASSUME RingAssumption ==
    /\ DOMAIN FlashAt \subseteq 0..255
    /\ \A a \in DOMAIN FlashAt : Len(FlashAt[a]) > 0

NewRing(_len) ==
    [len |-> _len, buf |-> [i \in 0..(_len - 1) |-> 0], pr |-> 0, pw |-> 0, overflow |-> FALSE,
     mark |-> 0, count |-> 0, client |-> NO_CLIENT, ins |-> <<>>]

Step(r, i) == IF i + 1 = r.len THEN 0 ELSE i + 1

write(r, b) ==
    IF r.overflow THEN r
    ELSE IF Step(r, r.pw) = r.pr
         THEN [r EXCEPT !.buf[r.pw] = b, !.pw = Step(r, @), !.overflow = TRUE]
         ELSE [r EXCEPT !.buf[r.pw] = b, !.pw = Step(r, @), !.count = @ + 1]

print(r, text) == FoldLeft(write, r, text)

\* The address takes two bytes, the high one 0.
printFlash(r, addr) ==
    [print(r, <<FLASH_INSERT_MARKER, addr, 0>>)
        EXCEPT !.count = r.count + Len(FlashAt[addr])]

readRawByte(r) == [r EXCEPT !.pr = Step(r, @), !.overflow = FALSE]

Empty(r) == r.pr = r.pw /\ ~r.overflow

\* Mutant: the pointer into a flash string is not advanced past the first byte.
read_SameByte(r) ==
    IF r.ins # <<>> THEN [byte |-> Head(r.ins), ring |-> [r EXCEPT !.ins = Tail(@)]]
    ELSE IF Empty(r) THEN [byte |-> -1, ring |-> r]
    ELSE IF r.buf[r.pr] # FLASH_INSERT_MARKER
    THEN [byte |-> r.buf[r.pr], ring |-> readRawByte(r)]
    ELSE LET text == FlashAt[r.buf[Step(r, r.pr)]]
         IN  [byte |-> Head(text),
              ring |-> [readRawByte(readRawByte(readRawByte(r))) EXCEPT !.ins = text]]

\* The byte that read() returns (-1: none) and the ring after it.
read(r) ==
    IF r.ins # <<>> THEN [byte |-> Head(r.ins), ring |-> [r EXCEPT !.ins = Tail(@)]]
    ELSE IF Empty(r) THEN [byte |-> -1, ring |-> r]
    ELSE IF r.buf[r.pr] # FLASH_INSERT_MARKER
    THEN [byte |-> r.buf[r.pr], ring |-> readRawByte(r)]
    ELSE LET text == FlashAt[r.buf[Step(r, r.pr)]]
         IN  [byte |-> Head(text),
              ring |-> [readRawByte(readRawByte(readRawByte(r)))
                            EXCEPT !.ins = Tail(text)]]

\* The number in the next two bytes, and the ring after them.
count(r) ==
    [n |-> 256 * r.buf[r.pr] + r.buf[Step(r, r.pr)],
     ring |-> readRawByte(readRawByte(r))]

\* n calls of read().
readText(r, n) ==
    FoldLeft(LAMBDA x, i : LET y == read(x.ring)
                           IN  [text |-> Append(x.text, y.byte), ring |-> y.ring],
             [text |-> <<>>, ring |-> r], [i \in 1..n |-> i])

\* Room for the text of one more message.
freeSpace(r) == (IF r.pr > r.pw THEN r.pr - r.pw ELSE r.len - r.pw + r.pr) - 3

mark(r, b) ==
    [print([r EXCEPT !.client = b, !.mark = r.pw], <<b, 0, 0>>)
        EXCEPT !.count = 0]

commit(r) ==
    IF r.overflow
    THEN [r EXCEPT !.ins = <<>>, !.pw = r.mark, !.overflow = FALSE]
    ELSE IF r.count = 0
    THEN [r EXCEPT !.ins = <<>>, !.pw = r.mark, !.client = NO_CLIENT]
    ELSE [r EXCEPT !.ins = <<>>, !.client = NO_CLIENT,
                   !.mark = Step(r, Step(r, @)), !.buf[Step(r, r.mark)] = r.count \div 256,
                   !.buf[Step(r, Step(r, r.mark))] = r.count % 256]

\* commit() returns true and leaves a message.
Commits(r) == ~r.overflow /\ r.count > 0

\* The bytes between the reader and the writer.
Contents(r) ==
    LET n == IF r.overflow THEN r.len ELSE (r.pw - r.pr + r.len) % r.len
    IN  [i \in 1..n |-> r.buf[(r.pr + i - 1) % r.len]]
=============================================================================
