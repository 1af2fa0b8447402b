------------------------------- MODULE AckProgs -------------------------------
(***************************************************************************)
(* The programs DCC.cpp gives to the ack manager, and the decoder on the   *)
(* programming track that they talk to.                                    *)
(*                                                                         *)
(* A program is a sequence of operations.  An operation is the tuple of    *)
(* its opcode and, for SETCV, SETBIT and SETBYTE, the operand that follows *)
(* the opcode in flash.                                                    *)
(***************************************************************************)
EXTENDS Integers, Sequences

HIGHEST_SHORT_ADDR == 127
LONG_ADDR_MARKER == 16384

Bit(b, n) == (b \div 2^n) % 2
WithBit(b, n, v) == b + (v - Bit(b, n)) * 2^n

Ops(names) == [i \in 1..Len(names) |-> <<names[i]>>]
SetCV(n) == << <<"SETCV", n>> >>
SetBit(n) == << <<"SETBIT", n>> >>
SetByte(n) == << <<"SETBYTE", n>> >>

MergeBits(n) == [i \in 1..(3 * n) |-> << <<"V0", "WACK", "MERGE">>[((i - 1) % 3) + 1] >>]

\* Read a byte bit by bit, then verify the merged byte.
ReadByte == Ops(<<"STARTMERGE">>) \o MergeBits(8) \o Ops(<<"VB", "WACK">>)

\* The same, giving up after bit 7 if neither of its values is acknowledged.
ReadByteEarlyFail ==
    Ops(<<"STARTMERGE", "V0", "WACK", "MERGE", "ITSKIP">>) \o SetBit(7)
    \o Ops(<<"V1", "WACK", "NAKFAIL">>) \o SetBit(6) \o Ops(<<"SKIPTARGET">>)
    \o MergeBits(7) \o Ops(<<"VB", "WACK">>)

\* Write a byte; a decoder that does not acknowledge writes is asked to verify.
WriteOrVerify == Ops(<<"WB", "WACK", "ITC1", "VB", "WACK", "ITC1", "CALLFAIL">>)

\* Skip the long address if bit 5 of CV 29 is zero.
ReadLocoId ==
    SetCV(29) \o SetBit(5) \o Ops(<<"V0", "WACK", "ITSKIP">>)
    \o SetCV(17) \o ReadByte \o Ops(<<"NAKFAIL", "STASHLOCOID">>)
    \o SetCV(18) \o ReadByte \o Ops(<<"NAKFAIL", "COMBINELOCOID", "SKIPTARGET">>)
    \o SetCV(1) \o Ops(<<"STARTMERGE">>) \o SetBit(6) \o MergeBits(7)
    \o Ops(<<"VB", "WACK", "ITCB", "CALLFAIL">>)

ReadExtended ==
    SetCV(20) \o SetByte(0) \o Ops(<<"VB", "WACK", "ITSKIP">>)
    \o ReadByte \o Ops(<<"NAKSKIP", "BAD20SKIP", "STASHLOCOID">>)
    \o SetCV(19) \o ReadByte \o Ops(<<"NAKFAIL", "COMBINE1920", "SKIPTARGET">>)

\* ifNone: what to do when CV 19 says that there is no consist.
ReadConsist(ifNone) ==
    SetCV(19) \o SetByte(0) \o Ops(<<"VB", "WACK", ifNone>>)
    \o SetByte(128) \o Ops(<<"VB", "WACK", ifNone>>)
    \o ReadByte \o Ops(<<"ITCB7">>)

ClearConsist ==
    SetCV(20) \o SetByte(0) \o Ops(<<"WB", "WACK">>)
    \o SetCV(19) \o SetByte(0) \o Ops(<<"WB", "WACK">>)

WriteBit(w, v) == Ops(<<"BASELINE", w, "WACK", v, "WACK", "ITC1", "CALLFAIL">>)
TestBit(v, c, w, d) ==
    Ops(<<"BASELINE", v, "WACK", c, w, "WACK", d, "CALLFAIL">>)

WRITE_BYTE_PROG == Ops(<<"BASELINE">>) \o WriteOrVerify

VERIFY_BYTE_PROG ==
    Ops(<<"BASELINE", "BIV", "VB", "WACK", "ITCB">>) \o ReadByteEarlyFail
    \o Ops(<<"ITCBV", "CALLFAIL">>)

READ_CV_PROG ==
    Ops(<<"BASELINE">>) \o ReadByteEarlyFail \o Ops(<<"ITCB", "CALLFAIL">>)

LOCO_DRIVEAWAY_PROG ==
    Ops(<<"BASELINE">>) \o ReadExtended \o ReadConsist("ITSKIP")
    \o Ops(<<"SKIPTARGET">>) \o ReadLocoId

LOCO_READ_ID_PROG == Ops(<<"BASELINE">>) \o ReadLocoId

LOCO_READ_CONSIST_PROG ==
    Ops(<<"BASELINE">>) \o ReadExtended \o ReadConsist("ITC0") \o Ops(<<"CALLFAIL">>)

SHORT_LOCO_ID_PROG ==
    Ops(<<"BASELINE">>) \o ClearConsist
    \o SetCV(29) \o SetBit(5) \o Ops(<<"W0", "WACK", "V0", "WACK", "NAKFAIL">>)
    \o SetCV(1) \o Ops(<<"SETBYTEL">>) \o WriteOrVerify

CONSIST_ID_PROG ==
    Ops(<<"BASELINE">>) \o SetCV(20)
    \o Ops(<<"SETBYTEH", "WB", "WACK", "ITSKIP", "FAIL_IF_NONZERO_NAK", "SKIPTARGET">>)
    \o SetCV(19) \o Ops(<<"SETBYTEL">>) \o WriteOrVerify

LONG_LOCO_ID_PROG ==
    Ops(<<"BASELINE">>) \o ClearConsist
    \o SetCV(29) \o SetBit(5) \o Ops(<<"W1", "WACK", "V1", "WACK", "NAKFAIL">>)
    \o SetCV(17)
    \o Ops(<<"SETBYTEH", "WB", "WACK", "ITSKIP", "VB", "WACK", "ITSKIP", "CALLFAIL",
             "SKIPTARGET">>)
    \o SetCV(18) \o Ops(<<"SETBYTEL">>) \o WriteOrVerify

Programs == [
    WRITE_BIT0_PROG  |-> WriteBit("W0", "V0"),
    WRITE_BIT1_PROG  |-> WriteBit("W1", "V1"),
    VERIFY_BIT0_PROG |-> TestBit("V0", "ITC0", "V1", "ITC1"),
    VERIFY_BIT1_PROG |-> TestBit("V1", "ITC1", "V0", "ITC0"),
    READ_BIT_PROG    |-> TestBit("V1", "ITC1", "V0", "ITC0"),
    WRITE_BYTE_PROG  |-> WRITE_BYTE_PROG,
    VERIFY_BYTE_PROG |-> VERIFY_BYTE_PROG,
    READ_CV_PROG     |-> READ_CV_PROG,
    LOCO_DRIVEAWAY_PROG |-> LOCO_DRIVEAWAY_PROG,
    LOCO_READ_ID_PROG |-> LOCO_READ_ID_PROG,
    LOCO_READ_CONSIST_PROG |-> LOCO_READ_CONSIST_PROG,
    SHORT_LOCO_ID_PROG |-> SHORT_LOCO_ID_PROG,
    CONSIST_ID_PROG |-> CONSIST_ID_PROG,
    LONG_LOCO_ID_PROG |-> LONG_LOCO_ID_PROG ]

\* Where a skip that starts at pc lands.
SkipFrom(prog, pc) ==
    CHOOSE t \in pc..Len(prog) :
        /\ prog[t][1] = "SKIPTARGET"
        /\ \A u \in pc..(t - 1) : prog[u][1] # "SKIPTARGET"

(***************************************************************************)
(* A request: [user, kind, cv, bit, val], where val is a byte, a bit or an *)
(* address.  Job(r) is what the wrapper in DCC.cpp gives to Setup.         *)
(***************************************************************************)
BitKinds == {"writeCVBit", "verifyCVBit", "readCVBit"}
Kinds ==
    BitKinds
    \union {"writeCVByte", "verifyCVByte", "readCV", "getDriveawayLocoId", "getLocoId",
            "getConsistId", "setLocoId", "setConsistId", "setConsistIdReverse"}

Rejected(r) ==
    \/ r.kind \in BitKinds /\ r.bit >= 8
    \/ r.kind = "setLocoId" /\ (r.val < 1 \/ r.val > 10239)
    \/ r.kind \in {"setConsistId", "setConsistIdReverse"}
          /\ (r.val < 0 \/ r.val > 10239)

ByteJob(cv, byte, prog) == [cv |-> cv, byte |-> byte, word |-> {}, prog |-> prog]
WordJob(word, prog) == [cv |-> 0, byte |-> 0, word |-> {word}, prog |-> prog]

ConsistWord(id) ==
    IF id <= HIGHEST_SHORT_ADDR THEN id ELSE (id \div 100) * 256 + (id % 100)

Job(r) ==
    CASE r.kind = "writeCVByte"  -> ByteJob(r.cv, r.val, "WRITE_BYTE_PROG")
      [] r.kind = "writeCVBit"   ->
            ByteJob(r.cv, r.bit, IF r.val = 1 THEN "WRITE_BIT1_PROG"
                                              ELSE "WRITE_BIT0_PROG")
      [] r.kind = "verifyCVByte" -> ByteJob(r.cv, r.val, "VERIFY_BYTE_PROG")
      [] r.kind = "verifyCVBit"  ->
            ByteJob(r.cv, r.bit, IF r.val = 1 THEN "VERIFY_BIT1_PROG"
                                              ELSE "VERIFY_BIT0_PROG")
      [] r.kind = "readCVBit"    -> ByteJob(r.cv, r.bit, "READ_BIT_PROG")
      [] r.kind = "readCV"       -> ByteJob(r.cv, 0, "READ_CV_PROG")
      [] r.kind = "getDriveawayLocoId" -> ByteJob(0, 0, "LOCO_DRIVEAWAY_PROG")
      [] r.kind = "getLocoId"    -> ByteJob(0, 0, "LOCO_READ_ID_PROG")
      [] r.kind = "getConsistId" -> ByteJob(0, 0, "LOCO_READ_CONSIST_PROG")
      [] r.kind = "setLocoId"    ->
            IF r.val <= HIGHEST_SHORT_ADDR
            THEN WordJob(r.val, "SHORT_LOCO_ID_PROG")
            ELSE WordJob(r.val + 49152, "LONG_LOCO_ID_PROG")
      [] r.kind = "setConsistId" -> WordJob(ConsistWord(r.val), "CONSIST_ID_PROG")
      [] r.kind = "setConsistIdReverse" ->
            WordJob(ConsistWord(r.val) + 128, "CONSIST_ID_PROG")

(***************************************************************************)
(* The decoder: a function from the CVs it supports to bytes.              *)
(***************************************************************************)
\* Does the decoder agree with what the packet asks of CV cv?
Agrees(cvs, op, cv, bit, byte) ==
    /\ cv \in DOMAIN cvs
    /\ CASE op \in {"V0", "V1"} -> Bit(cvs[cv], bit) = (IF op = "V1" THEN 1 ELSE 0)
         [] op = "VB" -> cvs[cv] = byte
         [] OTHER -> TRUE

\* The CVs after the packet.
Written(cvs, op, cv, bit, byte) ==
    IF cv \notin DOMAIN cvs THEN cvs
    ELSE CASE op = "WB" -> [cvs EXCEPT ![cv] = byte]
           [] op = "W0" -> [cvs EXCEPT ![cv] = WithBit(@, bit, 0)]
           [] op = "W1" -> [cvs EXCEPT ![cv] = WithBit(@, bit, 1)]
           [] OTHER -> cvs

(***************************************************************************)
(* What the CVs mean, for comparison with the answers of the programs.     *)
(***************************************************************************)
CV(cvs, n) == IF n \in DOMAIN cvs THEN cvs[n] ELSE 0

AddressOf(cvs) ==
    IF Bit(CV(cvs, 29), 5) = 0 THEN CV(cvs, 1)
    ELSE LONG_ADDR_MARKER + (CV(cvs, 17) - 192) * 256 + CV(cvs, 18)

\* 0: no consist.
ConsistOf(cvs) ==
    IF CV(cvs, 20) \in 1..120
    THEN CV(cvs, 20) * 100 + ((CV(cvs, 19) % 128) % 100)
    ELSE CV(cvs, 19) % 128

DriveawayOf(cvs) ==
    IF ConsistOf(cvs) = 0 THEN AddressOf(cvs) ELSE ConsistOf(cvs)

\* A loco id as the programs return it.
Marked(id) == IF id <= HIGHEST_SHORT_ADDR THEN id ELSE id + LONG_ADDR_MARKER

\* The answer v to the request r is true of the decoder.
True(r, v, cvs) ==
    CASE r.kind \in {"readCV", "verifyCVByte"} -> v = CV(cvs, r.cv)
      [] r.kind \in {"readCVBit", "verifyCVBit"} -> v = Bit(CV(cvs, r.cv), r.bit)
      [] r.kind = "writeCVByte" -> v = 1 /\ CV(cvs, r.cv) = r.val
      [] r.kind = "writeCVBit" -> v = 1 /\ Bit(CV(cvs, r.cv), r.bit) = r.val
      [] r.kind = "getLocoId" -> v = AddressOf(cvs)
      [] r.kind = "getConsistId" -> v = ConsistOf(cvs)
      [] r.kind = "getDriveawayLocoId" -> v = DriveawayOf(cvs)
      [] r.kind = "setLocoId" ->
            v = 1 /\ AddressOf(cvs) = Marked(r.val) /\ ConsistOf(cvs) = 0
      [] r.kind \in {"setConsistId", "setConsistIdReverse"} ->
            v = 1 /\ ConsistOf(cvs) = r.val
=============================================================================
