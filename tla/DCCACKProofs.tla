----------------------------- MODULE DCCACKProofs -----------------------------
(***************************************************************************)
(* One answer for each request of the programming track, for any requests, *)
(* decoders, tracks, rails, retries and bounds; and what the programs of   *)
(* AckProgs have in common.                                                *)
(***************************************************************************)
EXTENDS DCCACK, SequenceTheorems, WellFoundedInduction, TLAPS

\* The manager has the two registers that name its job; the users' requests are
\* those of the session; the answers are a sequence.
TypeOK ==
    /\ {"prog", "cb"} \subseteq DOMAIN m
    /\ asked \in Seq(S.requests)
    /\ session \in DOMAIN Sessions
    /\ \E A : answers \in Seq(A)

\* Answers are given to requests that were made, and the request that is being run
\* has none yet: what makes AnsweredOnce inductive.
Unanswered ==
    /\ \A k \in DOMAIN answers : answers[k].id \in DOMAIN asked
    /\ ~Idle => m.cb \in Open

IInv == TypeOK /\ Unanswered /\ AnsweredOnce

-----------------------------------------------------------------------------
(* Requests and answers as sequences. *)

LEMMA AppendFacts ==
    ASSUME NEW A, NEW q \in Seq(A), NEW x
    PROVE  /\ Append(q, x) \in Seq(A \union {x})
           /\ Len(q) \in Nat
           /\ DOMAIN q = 1..Len(q)
           /\ DOMAIN Append(q, x) = 1..(Len(q) + 1)
           /\ \A i \in DOMAIN q : Append(q, x)[i] = q[i]
           /\ Append(q, x)[Len(q) + 1] = x
<1>1. q \in Seq(A \union {x})
  <2>1. Len(q) \in Nat /\ q \in [1..Len(q) -> A]
    BY LenProperties
  <2>2. q \in [1..Len(q) -> A \union {x}]
    BY <2>1
  <2> QED
    BY <2>1, <2>2
<1> QED
  BY <1>1, AppendProperties, LenProperties

\* Every program that a wrapper gives to Setup is one.
LEMMA JobHasProgram ==
    ASSUME NEW r, r.kind \in Kinds PROVE Job(r).prog # NULL
  BY DEF Kinds, BitKinds, Job, ByteJob, WordJob, NULL

-----------------------------------------------------------------------------
(* The kinds of step: nobody asks and nobody is answered; an answer to the *)
(* request that is being run, which ends it; and a request.                *)

QuietStep ==
    /\ UNCHANGED <<asked, answers, stashBusy, session>>
    /\ {"prog", "cb"} \subseteq DOMAIN m'
    /\ m'.prog = m.prog /\ m'.cb = m.cb

Answering(id, v) ==
    /\ answers' = Append(answers, [id |-> id, value |-> v])
    /\ stashBusy' = (stashBusy /\ asked'[id].user # "parser")

FinishStep ==
    /\ UNCHANGED <<asked, session>>
    /\ ~Idle
    /\ \E v : Answering(m.cb, v)
    /\ {"prog", "cb"} \subseteq DOMAIN m'
    /\ m'.prog = NULL

\* A request that Setup runs, one that is answered at once, and <W CV VALUE
\* CALLBACKNUM>, which is never answered.
SetupStep(r, id) ==
    /\ m'.prog # NULL /\ m'.cb = id
    /\ stashBusy' = (stashBusy \/ r.user = "parser")
    /\ UNCHANGED answers

AtOnceStep(id) ==
    /\ m'.prog = m.prog /\ m'.cb = m.cb
    /\ \E v : Answering(id, v)

LostStep(r) ==
    /\ r.params = 3
    /\ m'.prog = m.prog /\ m'.cb = m.cb
    /\ UNCHANGED answers

RequestStep ==
    /\ UNCHANGED session
    /\ {"prog", "cb"} \subseteq DOMAIN m'
    /\ \E r \in S.requests :
          /\ r.user = "parser" => ~stashBusy
          /\ asked' = Append(asked, r)
          /\ \/ SetupStep(r, Len(asked) + 1)
             \/ AtOnceStep(Len(asked) + 1)
             \/ LostStep(r)

LEMMA QuietKeeps == ASSUME IInv, QuietStep PROVE IInv'
  BY DEF IInv, TypeOK, Unanswered, AnsweredOnce, QuietStep, Idle, Open, Answers,
         ParserOnly, S

\* What a new answer does to the requests that are open.
LEMMA AnswerFacts ==
    ASSUME NEW A, answers \in Seq(A), NEW id, NEW v, Answering(id, v)
    PROVE  /\ \E B : answers' \in Seq(B)
           /\ DOMAIN answers = 1..Len(answers) /\ Len(answers) \in Nat
           /\ DOMAIN answers' = 1..(Len(answers) + 1)
           /\ \A k \in DOMAIN answers : answers'[k].id = answers[k].id
           /\ answers'[Len(answers) + 1].id = id
<1> DEFINE a == [id |-> id, value |-> v]
<1>1. a.id = id
  OBVIOUS
<1>2. answers' = Append(answers, a)
  BY DEF Answering
<1> HIDE DEF a
<1>3. /\ Append(answers, a) \in Seq(A \union {a})
      /\ Len(answers) \in Nat
      /\ DOMAIN answers = 1..Len(answers)
      /\ DOMAIN Append(answers, a) = 1..(Len(answers) + 1)
      /\ \A i \in DOMAIN answers : Append(answers, a)[i] = answers[i]
      /\ Append(answers, a)[Len(answers) + 1] = a
  BY AppendFacts
<1> QED
  BY <1>1, <1>2, <1>3

LEMMA FinishKeeps == ASSUME IInv, FinishStep PROVE IInv'
<1>1. PICK v : Answering(m.cb, v)
  BY DEF FinishStep
<1>2. PICK A : answers \in Seq(A)
  BY DEF IInv, TypeOK
<1>3. /\ \E B : answers' \in Seq(B)
      /\ DOMAIN answers = 1..Len(answers) /\ Len(answers) \in Nat
      /\ DOMAIN answers' = 1..(Len(answers) + 1)
      /\ \A k \in DOMAIN answers : answers'[k].id = answers[k].id
      /\ answers'[Len(answers) + 1].id = m.cb
  BY <1>1, <1>2, AnswerFacts
<1>4. m.cb \in DOMAIN asked /\ \A k \in DOMAIN answers : answers[k].id # m.cb
  BY DEF IInv, Unanswered, FinishStep, Open, Answers
<1>5. asked' = asked /\ session' = session
  BY DEF FinishStep
<1>6. TypeOK'
  BY <1>3, <1>5 DEF IInv, TypeOK, FinishStep, S
<1>7. Unanswered'
  BY <1>3, <1>4, <1>5 DEF IInv, Unanswered, FinishStep, Idle
<1>8. \A j, k \in DOMAIN answers' : answers'[j].id = answers'[k].id => j = k
  BY <1>3, <1>4 DEF IInv, AnsweredOnce
<1>9. ASSUME ParserOnly' PROVE ~stashBusy' /\ Open' = {}
  <2>1. ParserOnly /\ asked[m.cb].user = "parser"
    BY <1>4, <1>5, <1>9 DEF ParserOnly
  <2>2. Open = {m.cb}
    BY <1>4, <2>1 DEF IInv, AnsweredOnce, FinishStep, Open, Answers
  <2>3. \A id \in DOMAIN asked : id # m.cb => \E k \in DOMAIN answers : answers[k].id = id
    BY <2>2 DEF Open, Answers
  <2>4. \A id \in DOMAIN asked : \E k \in DOMAIN answers' : answers'[k].id = id
    BY <1>3, <2>3
  <2> QED
    BY Zenon, <1>1, <1>5, <2>1, <2>4 DEF Answering, Open, Answers
<1> QED
  BY <1>6, <1>7, <1>8, <1>9 DEF IInv, AnsweredOnce

LEMMA RequestKeeps == ASSUME IInv, RequestStep PROVE IInv'
<1> DEFINE n == Len(asked) + 1
<1>1. PICK r \in S.requests :
          /\ r.user = "parser" => ~stashBusy
          /\ asked' = Append(asked, r)
          /\ SetupStep(r, n) \/ AtOnceStep(n) \/ LostStep(r)
  BY DEF RequestStep
<1>2. /\ asked' \in Seq(S.requests)
      /\ DOMAIN asked = 1..Len(asked) /\ Len(asked) \in Nat
      /\ DOMAIN asked' = 1..n
      /\ \A i \in DOMAIN asked : asked'[i] = asked[i]
      /\ asked'[n] = r
  BY <1>1, AppendFacts DEF IInv, TypeOK
<1>3. n \notin DOMAIN asked /\ DOMAIN asked' = DOMAIN asked \union {n}
  BY <1>2
<1>4. \A k \in DOMAIN answers : answers[k].id \in DOMAIN asked /\ answers[k].id # n
  BY <1>3 DEF IInv, Unanswered
<1>5. S' = S /\ session' = session /\ {"prog", "cb"} \subseteq DOMAIN m'
  BY DEF RequestStep, S
<1>6. ParserOnly' => ParserOnly /\ r.user = "parser" /\ r.params # 3
  BY <1>2, <1>3 DEF ParserOnly
\* The parser asks only when nothing is open, and then the manager is idle.
<1>7. ParserOnly' => Open = {} /\ Idle /\ ~stashBusy
  <2>1. ~Idle => Open # {}
    BY DEF IInv, Unanswered
  <2> QED
    BY <1>1, <1>6, <2>1 DEF IInv, AnsweredOnce
<1> HIDE DEF n
<1>8. CASE SetupStep(r, n)
  <2>1. answers' = answers /\ Open' = Open \union {n}
    BY <1>3, <1>4, <1>8 DEF SetupStep, Open, Answers
  <2>2. TypeOK'
    BY <1>2, <1>5, <2>1 DEF IInv, TypeOK
  <2>3. Unanswered'
    BY <1>3, <1>4, <1>8, <2>1 DEF Unanswered, SetupStep
  <2>4. ParserOnly' => stashBusy' /\ ~Idle' /\ Open' = {m'.cb}
    BY Zenon, <1>6, <1>7, <1>8, <2>1 DEF SetupStep, Idle
  <2> QED
    BY <2>1, <2>2, <2>3, <2>4 DEF IInv, AnsweredOnce
<1>9. CASE AtOnceStep(n)
  <2>1. PICK v : Answering(n, v)
    BY <1>9 DEF AtOnceStep
  <2>2. PICK A : answers \in Seq(A)
    BY DEF IInv, TypeOK
  <2>3. /\ \E B : answers' \in Seq(B)
        /\ DOMAIN answers = 1..Len(answers) /\ Len(answers) \in Nat
        /\ DOMAIN answers' = 1..(Len(answers) + 1)
        /\ \A k \in DOMAIN answers : answers'[k].id = answers[k].id
        /\ answers'[Len(answers) + 1].id = n
    BY <2>1, <2>2, AnswerFacts
  <2>4. DOMAIN answers' = DOMAIN answers \union {Len(answers) + 1}
    BY <2>3
  <2>5. Open' = Open
    BY <1>3, <1>4, <2>3, <2>4 DEF Open, Answers
  <2>6. TypeOK'
    BY <1>2, <1>5, <2>3 DEF IInv, TypeOK
  <2>7. Unanswered'
    <3>1. \A k \in DOMAIN answers' : answers'[k].id \in DOMAIN asked'
      BY <1>3, <1>4, <2>3, <2>4
    <3> QED
      BY <1>9, <2>5, <3>1 DEF IInv, Unanswered, AtOnceStep, Idle
  <2>8. \A j, k \in DOMAIN answers' : answers'[j].id = answers'[k].id => j = k
    BY <1>4, <2>3, <2>4 DEF IInv, AnsweredOnce
  <2>9. ParserOnly' => ~stashBusy' /\ Open' = {}
    BY Zenon, <1>7, <2>1, <2>5 DEF Answering
  <2> QED
    BY <2>6, <2>7, <2>8, <2>9 DEF IInv, AnsweredOnce
<1>10. CASE LostStep(r)
  <2>1. ~ParserOnly'
    BY <1>6, <1>10 DEF LostStep
  <2>2. answers' = answers /\ Open \subseteq Open'
    BY <1>3, <1>10 DEF LostStep, Open, Answers
  <2>3. TypeOK'
    BY <1>2, <1>5, <2>2 DEF IInv, TypeOK
  <2>4. Unanswered'
    BY <1>3, <1>4, <1>10, <2>2 DEF IInv, Unanswered, LostStep, Idle
  <2> QED
    BY <2>1, <2>2, <2>3, <2>4 DEF IInv, AnsweredOnce
<1> QED
  BY <1>1, <1>8, <1>9, <1>10 DEF n

-----------------------------------------------------------------------------
(* Every step is of one of these kinds. *)

LEMMA RequestIsOne == ASSUME IInv, request PROVE RequestStep
<1>1. PICK r \in S.requests :
          /\ r.user = "parser" => ~stashBusy
          /\ asked' = Append(asked, r)
          /\ \/ Rejected(r) /\ Reject(r, Len(asked) + 1)
             \/ ~Rejected(r) /\ r.params # 3 /\ SetupNow(r, Len(asked) + 1)
             \/ ~Rejected(r) /\ r.params # 3 /\ SetupFails(r, Len(asked) + 1)
             \/ r.params = 3 /\ stashBusy' = TRUE
                /\ UNCHANGED <<m, answers, ready, railVars, before>>
  BY DEF request
<1> DEFINE n == Len(asked) + 1
<1> HIDE DEF n
<1>2. {"prog", "cb"} \subseteq DOMAIN m
  BY DEF IInv, TypeOK
<1>3. session' = session
  BY DEF request, decoderVars
<1>4. Job(r).prog # NULL
  BY RequestAssumption, JobHasProgram DEF IInv, TypeOK, S
<1>5. ASSUME Reject(r, n) PROVE AtOnceStep(n) /\ {"prog", "cb"} \subseteq DOMAIN m'
  BY Zenon, <1>2, <1>5 DEF Reject, Answer, AtOnceStep, Answering
<1>6. ASSUME SetupNow(r, n) PROVE SetupStep(r, n) /\ {"prog", "cb"} \subseteq DOMAIN m'
  <2> DEFINE j == Job(r)
             w == IF j.word = {} THEN m.word ELSE CHOOSE x \in j.word : TRUE
  <2>1. m' = [m EXCEPT !.rejoin = joined, !.autoOff = (power = "OFF"),
                       !.cv = j.cv, !.prog = j.prog, !.pc = 1,
                       !.retry = S.ackRetry, !.byte = j.byte,
                       !.verify = j.byte, !.bit = j.byte, !.cb = n,
                       !.word = w]
    BY <1>6 DEF SetupNow
  <2>2. j.prog # NULL
    BY <1>4
  <2> HIDE DEF j, w
  <2>3. DOMAIN m' = DOMAIN m /\ m'.prog = j.prog /\ m'.cb = n
    BY Zenon, <1>2, <2>1
  <2> QED
    BY Zenon, <1>2, <1>6, <2>2, <2>3 DEF SetupNow, SetupStep
<1>7. ASSUME SetupFails(r, n) PROVE AtOnceStep(n) /\ {"prog", "cb"} \subseteq DOMAIN m'
  <2>1. DOMAIN m' = DOMAIN m /\ m'.prog = m.prog /\ m'.cb = m.cb
    BY <1>2, <1>7 DEF SetupFails
  <2> QED
    BY Zenon, <1>2, <1>7, <2>1 DEF SetupFails, Answer, AtOnceStep, Answering
<1>8. ASSUME r.params = 3, UNCHANGED <<m, answers>>
      PROVE  LostStep(r) /\ {"prog", "cb"} \subseteq DOMAIN m'
  BY <1>2, <1>8 DEF LostStep
<1> QED
  BY <1>1, <1>3, <1>5, <1>6, <1>7, <1>8 DEF RequestStep, n

SameJob(mm) == {"prog", "cb"} \subseteq DOMAIN mm /\ mm.prog = m.prog /\ mm.cb = m.cb

\* DCCACK::callback keeps the job, or answers it and ends it.
LEMMA CallbackIsOne ==
    ASSUME ~Idle, session' = session, NEW mm, SameJob(mm), NEW v, callback(mm, v)
    PROVE  QuietStep \/ FinishStep
<1>1. CASE retry(mm, v)
  <2>1. SameJob(m')
    BY <1>1 DEF retry, SameJob
  <2> QED
    BY <1>1, <2>1 DEF retry, QuietStep, SameJob, userVars
<1>2. CASE m' = Ended(mm) /\ finish(mm, v)
  <2>1. m' = [mm EXCEPT !.prog = NULL]
    BY <1>2 DEF Ended, finish
  <2>2. {"prog", "cb"} \subseteq DOMAIN m' /\ m'.prog = NULL
    BY <2>1 DEF SameJob
  <2>3. Answering(m.cb, v) /\ asked' = asked
    BY <1>2 DEF finish, Answer, Answering, SameJob
  <2> QED
    BY <2>2, <2>3 DEF FinishStep
<1>3. CASE /\ m' = Ended(mm)
           /\ afterRead(mm) \/ afterWrite(mm) \/ waiting \/ waited100(mm) \/ waited30
  <2>1. callbackState # "READY"
    BY <1>3 DEF afterRead, afterWrite, waiting, waited100, waited30
  <2>2. UNCHANGED userVars
    BY <1>3 DEF afterRead, afterWrite, waiting, waited100, waited30, cutPower, wait,
                toReady
  <2> QED
    BY <1>3, <2>1, <2>2 DEF Ended, QuietStep, SameJob, userVars
<1> QED
  BY <1>1, <1>2, <1>3 DEF callback

LEMMA LoopIsOne == ASSUME IInv, loop PROVE QuietStep \/ FinishStep
<1>1. ~Idle /\ session' = session /\ SameJob(m)
  BY Zenon DEF loop, BASELINE, packet, WACK, ifAck, ifNak, COMBINELOCOID, COMBINE1920,
         FAIL_IF_NONZERO_NAK, assign, skip, At, IInv, TypeOK, SameJob
<1>2. ASSUME Return PROVE QuietStep
  BY <1>1, <1>2 DEF Return, QuietStep, SameJob, loopVars, userVars
<1>3. ASSUME NEW mm, SameJob(mm), Break(mm) PROVE QuietStep
  <2>1. SameJob(m')
    BY <1>3 DEF Break, SameJob
  <2> QED
    BY <1>1, <1>3, <2>1 DEF Break, QuietStep, SameJob, loopVars, userVars
<1>4. ASSUME NEW mm, SameJob(mm), NEW v, Call(mm, v) PROVE QuietStep \/ FinishStep
  BY <1>1, <1>4, CallbackIsOne DEF Call
<1>5. CASE BASELINE
  <2>1. CASE m' = [m EXCEPT !.pc = @ + 1] /\ UNCHANGED userVars
    <3>1. SameJob(m')
      BY <1>1, <2>1 DEF SameJob
    <3> QED
      BY <1>1, <2>1, <3>1 DEF QuietStep, SameJob, userVars
  <2> QED
    BY <1>2, <1>5, <2>1 DEF BASELINE
<1>6. CASE packet
  <2>1. CASE m' = [m EXCEPT !.pc = @ + 1] /\ UNCHANGED userVars
    <3>1. SameJob(m')
      BY <1>1, <2>1 DEF SameJob
    <3> QED
      BY <1>1, <2>1, <3>1 DEF QuietStep, SameJob, userVars
  <2> QED
    BY Zenon, <1>2, <1>6, <2>1 DEF packet
<1>7. CASE WACK
  <2> DEFINE mm == [m EXCEPT !.got = (ack = 1)]
  <2>1. SameJob(mm)
    BY <1>1 DEF SameJob
  <2> QED
    BY <1>2, <1>3, <1>7, <2>1 DEF WACK
<1>8. CASE ifAck
  BY <1>1, <1>3, <1>4, <1>8 DEF ifAck
<1>9. CASE ifNak
  BY <1>1, <1>3, <1>4, <1>9 DEF ifNak
<1>10. CASE COMBINELOCOID
  BY <1>1, <1>4, <1>10 DEF COMBINELOCOID
<1>11. CASE COMBINE1920
  <2> DEFINE mm(b) == [m EXCEPT !.byte = b]
  <2>1. ASSUME NEW b PROVE SameJob(mm(b))
    BY <1>1 DEF SameJob
  <2>2. \E b, v : Call(mm(b), v)
    BY Zenon, <1>11 DEF COMBINE1920
  <2> HIDE DEF mm
  <2> QED
    BY <1>4, <2>1, <2>2
<1>12. CASE FAIL_IF_NONZERO_NAK
  BY <1>1, <1>3, <1>4, <1>12 DEF FAIL_IF_NONZERO_NAK
<1>13. CASE assign
  <2>1. SameJob(Assign(Op))
    BY ZenonT(30), <1>1, <1>13 DEF assign, At, Assign, Merged, SameJob
  <2> QED
    BY <1>3, <1>13, <2>1 DEF assign
<1>14. CASE skip
  <2> DEFINE mm == [m EXCEPT !.pc = SkipFrom(Programs[m.prog], @)]
  <2>1. SameJob(mm)
    BY <1>1 DEF SameJob
  <2>2. Skip(m) => Break(mm)
    BY DEF Skip
  <2> HIDE DEF mm
  <2> QED
    BY <1>1, <1>3, <1>14, <2>1, <2>2 DEF skip
<1> QED
  BY <1>5, <1>6, <1>7, <1>8, <1>9, <1>10, <1>11, <1>12, <1>13, <1>14 DEF loop

LEMMA OthersAreQuiet ==
    ASSUME IInv,
           \/ powerCommand \/ overload \/ overloadOver \/ checkAck \/ resetsSent \/ Tick
           \/ UNCHANGED vars
    PROVE  QuietStep
  BY DEF powerCommand, overload, overloadOver, checkAck, resetsSent, Tick, vars,
         userVars, decoderVars, QuietStep, IInv, TypeOK

LEMMA InitAnswers == ASSUME Init PROVE IInv
<1>1. TypeOK
  BY DEF Init, TypeOK
<1>2. Open = {} /\ Idle /\ answers = <<>>
  BY DEF Init, Open, Idle
<1> QED
  BY <1>1, <1>2 DEF Init, IInv, Unanswered, AnsweredOnce

LEMMA AnswersKept == ASSUME IInv, [Next]_vars PROVE IInv'
  BY QuietKeeps, FinishKeeps, RequestKeeps, RequestIsOne, LoopIsOne, OthersAreQuiet
     DEF Next

\* No request of the programming track is answered twice; and with the parser as the
\* only user its stash is taken exactly while one request is open, the one that the
\* ack manager runs (DCCACK::Setup, DCCACK::callback, DCCEXParser::stashCallback).
THEOREM OneAnswerEach == Spec => []AnsweredOnce
<1>1. Init => IInv
  BY InitAnswers
<1>2. IInv /\ [Next]_vars => IInv'
  BY AnswersKept
<1>3. IInv => AnsweredOnce
  BY DEF IInv
<1> QED
  BY <1>1, <1>2, <1>3, PTL DEF Spec

-----------------------------------------------------------------------------
(* The programs: each begins with BASELINE and ends with CALLFAIL, and each *)
(* skip has a target to land on.                                           *)

Operands == {"SETCV", "SETBIT", "SETBYTE"}
Names ==
    {"BASELINE", "W0", "W1", "WB", "V0", "V1", "VB", "WACK", "ITC0", "ITC1", "ITCB", "ITCBV",
     "ITCB7", "NAKFAIL", "CALLFAIL", "COMBINELOCOID", "COMBINE1920", "FAIL_IF_NONZERO_NAK",
     "BIV", "STARTMERGE", "MERGE", "SETBYTEH", "SETBYTEL", "STASHLOCOID", "SKIPTARGET",
     "ITSKIP", "NAKSKIP", "BAD20SKIP"}
OpSet == {<<n>> : n \in Names} \union {<<n, k>> : n \in Operands, k \in Int}
SkipNames == {"ITSKIP", "NAKSKIP", "BAD20SKIP"}

Fragment(x) == x \in Seq(OpSet) /\ Len(x) >= 1
Begins(x) == Fragment(x) /\ x[1][1] = "BASELINE"
Lands(x) == Fragment(x) /\ x[Len(x)][1] = "SKIPTARGET"
Fails(x) == Fragment(x) /\ x[Len(x)][1] = "CALLFAIL"
Closed(x) ==
    /\ Fragment(x)
    /\ \A i \in 1..Len(x) : x[i][1] \in SkipNames =>
         \E t \in i..Len(x) : x[t][1] = "SKIPTARGET"

LEMMA ConcatFacts ==
    ASSUME NEW x, NEW y, Fragment(x), Fragment(y)
    PROVE  /\ Fragment(x \o y)
           /\ Len(x) \in Nat /\ Len(y) \in Nat
           /\ Len(x \o y) = Len(x) + Len(y)
           /\ \A i \in 1..Len(x) : (x \o y)[i] = x[i]
           /\ \A i \in 1..Len(y) : (x \o y)[Len(x) + i] = y[i]
<1>1. x \in Seq(OpSet) /\ y \in Seq(OpSet) /\ Len(x) >= 1 /\ Len(y) >= 1
  BY DEF Fragment
<1>2. Len(x) \in Nat /\ Len(y) \in Nat
  BY <1>1, LenProperties
<1>3. x \o y \in Seq(OpSet) /\ Len(x \o y) = Len(x) + Len(y)
  BY <1>1, ConcatProperties
<1>4. \A i \in 1..Len(x) + Len(y) :
        (x \o y)[i] = IF i <= Len(x) THEN x[i] ELSE y[i - Len(x)]
  BY <1>1, ConcatProperties
<1>5. \A i \in 1..Len(x) : (x \o y)[i] = x[i]
  BY <1>2, <1>4
<1>6. \A i \in 1..Len(y) : (x \o y)[Len(x) + i] = y[i]
  BY <1>2, <1>4
<1> QED
  BY <1>1, <1>2, <1>3, <1>5, <1>6 DEF Fragment

\* What a concatenation inherits from its parts.
LEMMA Concat ==
    ASSUME NEW x, NEW y, Fragment(x), Fragment(y)
    PROVE  /\ Fragment(x \o y)
           /\ Begins(x) => Begins(x \o y)
           /\ Fails(y) => Fails(x \o y)
           /\ Lands(y) => Closed(x \o y)
           /\ Closed(x) /\ Closed(y) => Closed(x \o y)
<1> DEFINE z == x \o y
<1>1. /\ Fragment(z)
      /\ Len(x) \in Nat /\ Len(y) \in Nat
      /\ Len(z) = Len(x) + Len(y)
      /\ \A i \in 1..Len(x) : z[i] = x[i]
      /\ \A i \in 1..Len(y) : z[Len(x) + i] = y[i]
  BY ConcatFacts
<1>2. Len(x) >= 1 /\ Len(y) >= 1
  BY DEF Fragment
<1> HIDE DEF z
<1>3. 1 \in 1..Len(x) /\ Len(y) \in 1..Len(y)
  BY <1>1, <1>2
<1>4. z[1] = x[1] /\ z[Len(z)] = y[Len(y)]
  BY <1>1, <1>3
<1>5. Begins(x) => Begins(z)
  BY <1>1, <1>4 DEF Begins
<1>6. Fails(y) => Fails(z)
  BY <1>1, <1>4 DEF Fails
<1>7. ASSUME Lands(y) PROVE Closed(z)
  <2>1. z[Len(z)][1] = "SKIPTARGET"
    BY <1>4, <1>7 DEF Lands
  <2>2. \A i \in 1..Len(z) : Len(z) \in i..Len(z)
    BY <1>1
  <2> QED
    BY <1>1, <2>1, <2>2 DEF Closed
<1>8. ASSUME Closed(x), Closed(y) PROVE Closed(z)
  <2>1. ASSUME NEW i \in 1..Len(z), z[i][1] \in SkipNames
        PROVE  \E t \in i..Len(z) : z[t][1] = "SKIPTARGET"
    <3>1. CASE i <= Len(x)
      <4>1. i \in 1..Len(x) /\ x[i][1] \in SkipNames
        BY <1>1, <2>1, <3>1
      <4>2. PICK t \in i..Len(x) : x[t][1] = "SKIPTARGET"
        BY <1>8, <4>1 DEF Closed
      <4>3. t \in 1..Len(x) /\ t \in i..Len(z)
        BY <1>1, <4>1
      <4> QED
        BY <1>1, <4>2, <4>3
    <3>2. CASE i > Len(x)
      <4> DEFINE k == i - Len(x)
      <4>1. k \in 1..Len(y) /\ i = Len(x) + k
        BY <1>1, <2>1, <3>2
      <4> HIDE DEF k
      <4>2. y[k][1] \in SkipNames
        BY <1>1, <2>1, <4>1
      <4>3. PICK t \in k..Len(y) : y[t][1] = "SKIPTARGET"
        BY <1>8, <4>1, <4>2 DEF Closed
      <4>4. t \in 1..Len(y) /\ Len(x) + t \in i..Len(z)
        BY <1>1, <4>1
      <4> QED
        BY <1>1, <4>3, <4>4
    <3> QED
      BY <1>1, <3>1, <3>2
  <2> QED
    BY <1>1, <2>1 DEF Closed
<1> QED
  BY <1>1, <1>5, <1>6, <1>7, <1>8 DEF z

\* Operations without operands.
LEMMA OpsFacts ==
    ASSUME NEW names \in Seq(Names), Len(names) >= 1
    PROVE  /\ Fragment(Ops(names))
           /\ names[1] = "BASELINE" => Begins(Ops(names))
           /\ names[Len(names)] = "CALLFAIL" => Fails(Ops(names))
           /\ names[Len(names)] = "SKIPTARGET" => Lands(Ops(names))
           /\ (\A i \in 1..Len(names) : names[i] \notin SkipNames) => Closed(Ops(names))
<1> DEFINE n == Len(names)
           x == Ops(names)
<1>1. n \in Nat /\ n >= 1 /\ \A i \in 1..n : names[i] \in Names
  BY LenProperties, ElementOfSeq
<1>2. x = [i \in 1..n |-> <<names[i]>>]
  BY DEF Ops
<1> HIDE DEF n, x
<1>3. \A i \in 1..n : x[i] = <<names[i]>> /\ x[i] \in OpSet /\ x[i][1] = names[i]
  BY <1>1, <1>2 DEF OpSet
<1>4. x \in [1..n -> OpSet]
  BY <1>2, <1>3
<1>5. x \in Seq(OpSet) /\ Len(x) = n
  BY <1>1, <1>4, IsASeq, LenProperties
<1>6. Fragment(x) /\ x[1][1] = names[1] /\ x[Len(x)][1] = names[n]
  BY <1>1, <1>3, <1>5 DEF Fragment
<1>7. (\A i \in 1..n : names[i] \notin SkipNames) => Closed(x)
  BY <1>3, <1>5, <1>6 DEF Closed
<1> QED
  BY <1>6, <1>7 DEF Begins, Fails, Lands, n, x

LEMMA OperandFacts ==
    ASSUME NEW n \in Int
    PROVE  /\ Fragment(SetCV(n)) /\ Closed(SetCV(n))
           /\ Fragment(SetBit(n)) /\ Closed(SetBit(n))
           /\ Fragment(SetByte(n)) /\ Closed(SetByte(n))
<1>1. ASSUME NEW o \in Operands PROVE Fragment(<< <<o, n>> >>) /\ Closed(<< <<o, n>> >>)
  <2>1. <<o, n>> \in OpSet /\ <<o, n>>[1] = o /\ o \notin SkipNames
    BY <1>1 DEF OpSet, Operands, SkipNames
  <2> DEFINE x == <<o, n>>
  <2> HIDE DEF x
  <2>2. x \in OpSet => <<x>> \in Seq(OpSet) /\ Len(<<x>>) = 1 /\ <<x>>[1] = x
    OBVIOUS
  <2>3. << <<o, n>> >> \in Seq(OpSet) /\ Len(<< <<o, n>> >>) = 1 /\ << <<o, n>> >>[1] = <<o, n>>
    BY <2>1, <2>2 DEF x
  <2> QED
    BY <2>1, <2>3 DEF Fragment, Closed
<1> QED
  BY <1>1 DEF SetCV, SetBit, SetByte, Operands

LEMMA MergeFacts ==
    ASSUME NEW n \in Nat, n >= 1
    PROVE  Fragment(MergeBits(n)) /\ Closed(MergeBits(n))
<1> DEFINE w == <<"V0", "WACK", "MERGE">>
           x == MergeBits(n)
<1>1. \A i \in 1..(3 * n) : ((i - 1) % 3) + 1 \in 1..3
  OBVIOUS
<1>2. \A k \in 1..3 : w[k] \in Names /\ w[k] \notin SkipNames
  <2>1. \A k \in 1..3 : w[k] \in {"V0", "WACK", "MERGE"}
    OBVIOUS
  <2> QED
    BY <2>1 DEF Names, Operands, SkipNames
<1>3. x = [i \in 1..(3 * n) |-> <<w[((i - 1) % 3) + 1]>>]
  BY DEF MergeBits
<1> HIDE DEF w, x
<1>4. \A i \in 1..(3 * n) : x[i] \in OpSet /\ x[i][1] \notin SkipNames
  <2> TAKE i \in 1..(3 * n)
  <2> DEFINE v == w[((i - 1) % 3) + 1]
  <2>1. v \in Names /\ v \notin SkipNames /\ x[i] = <<v>>
    BY <1>1, <1>2, <1>3
  <2> HIDE DEF v
  <2> QED
    BY <2>1 DEF OpSet
<1>5. x \in [1..(3 * n) -> OpSet]
  BY <1>3, <1>4
<1>6. x \in Seq(OpSet) /\ Len(x) = 3 * n
  BY <1>5, IsASeq, LenProperties
<1> QED
  BY <1>4, <1>6 DEF Fragment, Closed, x

\* Lists of operations that do not skip, and lists that may.
Listed(names) == names \in Seq(Names) /\ Len(names) >= 1
Plain(names) == Listed(names) /\ \A i \in 1..Len(names) : names[i] \notin SkipNames

LEMMA OpsKinds ==
    ASSUME NEW names
    PROVE  /\ Listed(names) => Fragment(Ops(names))
           /\ Plain(names) => Closed(Ops(names))
           /\ Listed(names) /\ names[1] = "BASELINE" => Begins(Ops(names))
           /\ Listed(names) /\ names[Len(names)] = "CALLFAIL" => Fails(Ops(names))
           /\ Listed(names) /\ names[Len(names)] = "SKIPTARGET" => Lands(Ops(names))
  BY OpsFacts DEF Listed, Plain

LEMMA Joins ==
    /\ \A x : Closed(x) => Fragment(x)
    /\ \A x : Lands(x) => Fragment(x)
    /\ \A x : Fails(x) => Fragment(x)
    /\ \A x : Begins(x) => Fragment(x)
    /\ \A x, y : Fragment(x) /\ Fragment(y) => Fragment(x \o y)
    /\ \A x, y : Closed(x) /\ Closed(y) => Closed(x \o y)
    /\ \A x, y : Fragment(x) /\ Lands(y) => Closed(x \o y)
    /\ \A x, y : Fragment(x) /\ Fails(y) => Fails(x \o y)
    /\ \A x, y : Begins(x) /\ Fragment(y) => Begins(x \o y)
<1>1. /\ \A x : Closed(x) => Fragment(x)
      /\ \A x : Lands(x) => Fragment(x)
      /\ \A x : Fails(x) => Fragment(x)
      /\ \A x : Begins(x) => Fragment(x)
  BY DEF Closed, Lands, Fails, Begins
<1> QED
  BY <1>1, Concat, Zenon

LEMMA ReadByteClosed == Closed(ReadByte)
<1>1. Plain(<<"STARTMERGE">>) /\ Plain(<<"VB", "WACK">>)
  BY DEF Plain, Listed, Names, SkipNames
<1>2. Closed(MergeBits(8))
  BY MergeFacts
<1> QED
  BY <1>1, <1>2, OpsKinds, Joins, Zenon DEF ReadByte

LEMMA EarlyFailClosed == Closed(ReadByteEarlyFail)
<1>1. /\ Listed(<<"STARTMERGE", "V0", "WACK", "MERGE", "ITSKIP">>)
      /\ Plain(<<"V1", "WACK", "NAKFAIL">>)
      /\ Plain(<<"SKIPTARGET">>) /\ <<"SKIPTARGET">>[Len(<<"SKIPTARGET">>)] = "SKIPTARGET"
      /\ Plain(<<"VB", "WACK">>)
  BY DEF Plain, Listed, Names, SkipNames
<1>2. Closed(MergeBits(7)) /\ Closed(SetBit(7)) /\ Closed(SetBit(6))
  BY MergeFacts, OperandFacts
<1> DEFINE a == Ops(<<"STARTMERGE", "V0", "WACK", "MERGE", "ITSKIP">>)
           b == Ops(<<"V1", "WACK", "NAKFAIL">>)
           c == Ops(<<"SKIPTARGET">>)
           d == Ops(<<"VB", "WACK">>)
<1>3. Fragment(a) /\ Closed(b) /\ Lands(c) /\ Closed(d)
  BY <1>1, OpsKinds, Zenon DEF Plain
<1> HIDE DEF a, b, c, d
<1>4. Fragment(a \o SetBit(7) \o b \o SetBit(6))
  BY <1>2, <1>3, Joins, Zenon
<1>5. Closed(a \o SetBit(7) \o b \o SetBit(6) \o c)
  BY <1>3, <1>4, Joins, Zenon
<1>6. Closed(a \o SetBit(7) \o b \o SetBit(6) \o c \o MergeBits(7) \o d)
  BY <1>2, <1>3, <1>5, Joins, Zenon
<1> QED
  BY <1>6 DEF ReadByteEarlyFail, a, b, c, d

LEMMA WriteOrVerifyFails == Closed(WriteOrVerify) /\ Fails(WriteOrVerify)
<1> DEFINE w == <<"WB", "WACK", "ITC1", "VB", "WACK", "ITC1", "CALLFAIL">>
<1>1. Plain(w) /\ w[Len(w)] = "CALLFAIL"
  BY DEF Plain, Listed, Names, SkipNames
<1> HIDE DEF w
<1>2. Closed(Ops(w)) /\ Fails(Ops(w))
  BY <1>1, OpsKinds, Zenon DEF Plain
<1> QED
  BY <1>2 DEF WriteOrVerify, w

LEMMA ReadLocoIdFails == Closed(ReadLocoId) /\ Fails(ReadLocoId)
<1> DEFINE a == Ops(<<"V0", "WACK", "ITSKIP">>)
           b == Ops(<<"NAKFAIL", "STASHLOCOID">>)
           w == <<"NAKFAIL", "COMBINELOCOID", "SKIPTARGET">>
           c == Ops(w)
           d == Ops(<<"STARTMERGE">>)
           u == <<"VB", "WACK", "ITCB", "CALLFAIL">>
           e == Ops(u)
<1>1. /\ Listed(<<"V0", "WACK", "ITSKIP">>) /\ Plain(<<"NAKFAIL", "STASHLOCOID">>)
      /\ Plain(w) /\ w[Len(w)] = "SKIPTARGET" /\ Plain(<<"STARTMERGE">>)
      /\ Plain(u) /\ u[Len(u)] = "CALLFAIL"
  BY DEF Plain, Listed, Names, SkipNames
<1>2. /\ Closed(SetCV(29)) /\ Closed(SetBit(5)) /\ Closed(SetCV(17)) /\ Closed(SetCV(18))
      /\ Closed(SetCV(1)) /\ Closed(SetBit(6)) /\ Closed(MergeBits(7)) /\ Closed(ReadByte)
  BY OperandFacts, MergeFacts, ReadByteClosed
<1> HIDE DEF w, u
<1>3. Fragment(a) /\ Closed(b) /\ Lands(c) /\ Closed(d) /\ Closed(e) /\ Fails(e)
  BY <1>1, OpsKinds, Zenon DEF Plain
<1> HIDE DEF a, b, c, d, e
<1> DEFINE x == SetCV(29) \o SetBit(5) \o a \o SetCV(17) \o ReadByte \o b \o SetCV(18) \o ReadByte
<1>4. Fragment(x)
  <2>1. Fragment(SetCV(29) \o SetBit(5) \o a \o SetCV(17))
    BY <1>2, <1>3, Joins, Zenon
  <2>2. Fragment(ReadByte) /\ Fragment(b) /\ Fragment(SetCV(18))
    BY <1>2, <1>3, Joins, Zenon
  <2> QED
    BY <2>1, <2>2, Joins, Zenon
<1> DEFINE y == x \o c
<1>5. Closed(y)
  BY <1>3, <1>4, Joins, Zenon
<1> HIDE DEF x, y
<1>6. Closed(y \o SetCV(1) \o d \o SetBit(6) \o MergeBits(7))
  BY <1>2, <1>3, <1>5, Joins, Zenon
<1>7. Closed(y \o SetCV(1) \o d \o SetBit(6) \o MergeBits(7) \o e)
      /\ Fails(y \o SetCV(1) \o d \o SetBit(6) \o MergeBits(7) \o e)
  BY <1>3, <1>6, Joins, Zenon
<1>8. ReadLocoId = y \o SetCV(1) \o d \o SetBit(6) \o MergeBits(7) \o e
  BY DEF ReadLocoId, y, x, a, b, c, d, e, w, u
<1> QED
  BY <1>7, <1>8

LEMMA ReadExtendedClosed == Closed(ReadExtended)
<1> DEFINE a == Ops(<<"VB", "WACK", "ITSKIP">>)
           b == Ops(<<"NAKSKIP", "BAD20SKIP", "STASHLOCOID">>)
           w == <<"NAKFAIL", "COMBINE1920", "SKIPTARGET">>
           c == Ops(w)
<1>1. /\ Listed(<<"VB", "WACK", "ITSKIP">>)
      /\ Listed(<<"NAKSKIP", "BAD20SKIP", "STASHLOCOID">>)
      /\ Listed(w) /\ w[Len(w)] = "SKIPTARGET"
  BY DEF Listed, Names
<1>2. Closed(SetCV(20)) /\ Closed(SetByte(0)) /\ Closed(SetCV(19)) /\ Closed(ReadByte)
  BY OperandFacts, ReadByteClosed
<1> HIDE DEF w
<1>3. Fragment(a) /\ Fragment(b) /\ Lands(c)
  BY <1>1, OpsKinds, Zenon
<1> HIDE DEF a, b, c
<1>4. Fragment(SetCV(20)) /\ Fragment(SetByte(0)) /\ Fragment(SetCV(19)) /\ Fragment(ReadByte)
  BY <1>2, Joins, Zenon
<1>5. Fragment(SetCV(20) \o SetByte(0) \o a \o ReadByte \o b \o SetCV(19) \o ReadByte)
  BY <1>3, <1>4, Joins, Zenon
<1>6. Closed(SetCV(20) \o SetByte(0) \o a \o ReadByte \o b \o SetCV(19) \o ReadByte \o c)
  BY <1>3, <1>5, Joins, Zenon
<1> QED
  BY <1>6 DEF ReadExtended, a, b, c, w

LEMMA ReadConsistFragment ==
    /\ Fragment(ReadConsist("ITSKIP"))
    /\ Closed(ReadConsist("ITC0"))
<1> DEFINE a(n) == Ops(<<"VB", "WACK", n>>)
           b == Ops(<<"ITCB7">>)
<1>1. /\ Listed(<<"VB", "WACK", "ITSKIP">>) /\ Plain(<<"VB", "WACK", "ITC0">>)
      /\ Plain(<<"ITCB7">>)
  BY DEF Plain, Listed, Names, SkipNames
<1>2. Closed(SetCV(19)) /\ Closed(SetByte(0)) /\ Closed(SetByte(128)) /\ Closed(ReadByte)
  BY OperandFacts, ReadByteClosed
<1>3. Fragment(a("ITSKIP")) /\ Closed(a("ITC0")) /\ Closed(b)
  BY <1>1, OpsKinds, Zenon
<1> HIDE DEF a, b
<1> DEFINE x(n) == SetCV(19) \o SetByte(0) \o a(n) \o SetByte(128) \o a(n) \o ReadByte \o b
<1>4. /\ Fragment(SetCV(19)) /\ Fragment(SetByte(0)) /\ Fragment(SetByte(128))
      /\ Fragment(ReadByte) /\ Fragment(b)
  BY <1>2, <1>3, Joins, Zenon
<1>5. Fragment(x("ITSKIP"))
  <2>1. Fragment(SetCV(19) \o SetByte(0) \o a("ITSKIP"))
    BY <1>3, <1>4, Joins, Zenon
  <2>2. Fragment(SetCV(19) \o SetByte(0) \o a("ITSKIP") \o SetByte(128) \o a("ITSKIP"))
    BY <1>3, <1>4, <2>1, Joins, Zenon
  <2> QED
    BY <1>3, <1>4, <2>2, Joins, Zenon
<1>6. Closed(x("ITC0"))
  <2>1. Closed(SetCV(19) \o SetByte(0) \o a("ITC0"))
    BY <1>2, <1>3, Joins, Zenon
  <2>2. Closed(SetCV(19) \o SetByte(0) \o a("ITC0") \o SetByte(128) \o a("ITC0"))
    BY <1>2, <1>3, <2>1, Joins, Zenon
  <2> QED
    BY <1>2, <1>3, <2>2, Joins, Zenon
<1>7. ReadConsist("ITSKIP") = x("ITSKIP") /\ ReadConsist("ITC0") = x("ITC0")
  BY Zenon DEF ReadConsist, a, b
<1> QED
  BY <1>5, <1>6, <1>7, Zenon

LEMMA ClearConsistClosed == Closed(ClearConsist)
<1>1. Plain(<<"WB", "WACK">>)
  BY DEF Plain, Listed, Names, SkipNames
<1>2. Closed(SetCV(20)) /\ Closed(SetByte(0)) /\ Closed(SetCV(19))
  BY OperandFacts
<1>3. Closed(Ops(<<"WB", "WACK">>))
  BY <1>1, OpsKinds, Zenon
<1> QED
  BY <1>2, <1>3, Joins, Zenon DEF ClearConsist

WellFormed(x) == Begins(x) /\ Fails(x) /\ Closed(x)

\* BASELINE, and then the rest of a program.
LEMMA Baseline ==
    ASSUME NEW x, Closed(x), Fails(x)
    PROVE  WellFormed(Ops(<<"BASELINE">>) \o x)
<1> DEFINE w == <<"BASELINE">>
<1>1. Plain(w) /\ w[1] = "BASELINE"
  BY DEF Plain, Listed, Names, SkipNames
<1> HIDE DEF w
<1>2. Begins(Ops(w)) /\ Closed(Ops(w))
  BY <1>1, OpsKinds, Zenon DEF Plain
<1>3. WellFormed(Ops(w) \o x)
  BY <1>2, Joins, Zenon DEF WellFormed
<1> QED
  BY <1>3 DEF w

\* The same, when the text of the program is longer than one block.
LEMMA Longer ==
    ASSUME NEW x, NEW y, Begins(x), Closed(x), Closed(y)
    PROVE  /\ Begins(x \o y) /\ Closed(x \o y)
           /\ Fails(y) => WellFormed(x \o y)
  BY Joins, Zenon DEF WellFormed

LEMMA BaselineBegins == Begins(Ops(<<"BASELINE">>)) /\ Closed(Ops(<<"BASELINE">>))
<1> DEFINE w == <<"BASELINE">>
<1>1. Plain(w) /\ w[1] = "BASELINE"
  BY DEF Plain, Listed, Names, SkipNames
<1> HIDE DEF w
<1>2. Begins(Ops(w)) /\ Closed(Ops(w))
  BY <1>1, OpsKinds, Zenon DEF Plain
<1> QED
  BY <1>2 DEF w

LEMMA BitPrograms ==
    /\ \A w \in {"W0", "W1"}, v \in {"V0", "V1"} : WellFormed(WriteBit(w, v))
    /\ \A v, w \in {"V0", "V1"}, c, d \in {"ITC0", "ITC1"} : WellFormed(TestBit(v, c, w, d))
<1>1. ASSUME NEW w \in {"W0", "W1"}, NEW v \in {"V0", "V1"} PROVE WellFormed(WriteBit(w, v))
  <2> DEFINE x == <<"BASELINE", w, "WACK", v, "WACK", "ITC1", "CALLFAIL">>
  <2>1. Plain(x) /\ x[1] = "BASELINE" /\ x[Len(x)] = "CALLFAIL"
    BY DEF Plain, Listed, Names, SkipNames
  <2> HIDE DEF x
  <2>2. WellFormed(Ops(x))
    BY <2>1, OpsKinds, Zenon DEF Plain, WellFormed
  <2> QED
    BY <2>2 DEF WriteBit, x
<1>2. ASSUME NEW v \in {"V0", "V1"}, NEW w \in {"V0", "V1"},
             NEW c \in {"ITC0", "ITC1"}, NEW d \in {"ITC0", "ITC1"}
      PROVE  WellFormed(TestBit(v, c, w, d))
  <2> DEFINE x == <<"BASELINE", v, "WACK", c, w, "WACK", d, "CALLFAIL">>
  <2>1. Plain(x) /\ x[1] = "BASELINE" /\ x[Len(x)] = "CALLFAIL"
    BY DEF Plain, Listed, Names, SkipNames
  <2> HIDE DEF x
  <2>2. WellFormed(Ops(x))
    BY <2>1, OpsKinds, Zenon DEF Plain, WellFormed
  <2> QED
    BY <2>2 DEF TestBit, x
<1> QED
  BY <1>1, <1>2

LEMMA BytePrograms ==
    /\ WellFormed(WRITE_BYTE_PROG)
    /\ WellFormed(VERIFY_BYTE_PROG)
    /\ WellFormed(READ_CV_PROG)
<1> DEFINE a == <<"BASELINE", "BIV", "VB", "WACK", "ITCB">>
           b == <<"ITCBV", "CALLFAIL">>
           c == <<"ITCB", "CALLFAIL">>
<1>1. /\ Plain(a) /\ a[1] = "BASELINE"
      /\ Plain(b) /\ b[Len(b)] = "CALLFAIL"
      /\ Plain(c) /\ c[Len(c)] = "CALLFAIL"
  BY DEF Plain, Listed, Names, SkipNames
<1> HIDE DEF a, b, c
<1>2. Begins(Ops(a)) /\ Closed(Ops(a)) /\ Closed(Ops(b)) /\ Fails(Ops(b))
      /\ Closed(Ops(c)) /\ Fails(Ops(c))
  BY <1>1, OpsKinds, Zenon DEF Plain
<1>3. WellFormed(Ops(a) \o ReadByteEarlyFail \o Ops(b))
  BY <1>2, EarlyFailClosed, Longer, Zenon
<1>4. WellFormed(Ops(<<"BASELINE">>) \o ReadByteEarlyFail \o Ops(c))
  BY <1>2, BaselineBegins, EarlyFailClosed, Longer, Zenon
<1> QED
  BY <1>3, <1>4, WriteOrVerifyFails, Baseline, Zenon
     DEF WRITE_BYTE_PROG, VERIFY_BYTE_PROG, READ_CV_PROG, a, b, c

LEMMA ReadPrograms ==
    /\ WellFormed(LOCO_READ_ID_PROG)
    /\ WellFormed(LOCO_DRIVEAWAY_PROG)
    /\ WellFormed(LOCO_READ_CONSIST_PROG)
<1> DEFINE s == <<"SKIPTARGET">>
           f == <<"CALLFAIL">>
<1>1. Listed(s) /\ s[Len(s)] = "SKIPTARGET" /\ Plain(f) /\ f[Len(f)] = "CALLFAIL"
  BY DEF Plain, Listed, Names, SkipNames
<1> HIDE DEF s, f
<1>2. Lands(Ops(s)) /\ Closed(Ops(f)) /\ Fails(Ops(f))
  BY <1>1, OpsKinds, Zenon DEF Plain
<1>3. WellFormed(LOCO_READ_ID_PROG)
  BY ReadLocoIdFails, Baseline DEF LOCO_READ_ID_PROG
<1> DEFINE x == Ops(<<"BASELINE">>) \o ReadExtended
<1>4. Begins(x) /\ Closed(x)
  BY BaselineBegins, ReadExtendedClosed, Longer, Zenon
<1> HIDE DEF x
<1>5. WellFormed(x \o ReadConsist("ITC0") \o Ops(f))
  BY <1>2, <1>4, ReadConsistFragment, Longer, Zenon
<1>6. Begins(x \o ReadConsist("ITSKIP")) /\ Fragment(x \o ReadConsist("ITSKIP"))
  BY <1>4, ReadConsistFragment, Joins, Zenon
<1>7. Begins(x \o ReadConsist("ITSKIP") \o Ops(s)) /\ Closed(x \o ReadConsist("ITSKIP") \o Ops(s))
  BY <1>2, <1>6, Joins, Zenon
<1>8. WellFormed(x \o ReadConsist("ITSKIP") \o Ops(s) \o ReadLocoId)
  BY <1>7, ReadLocoIdFails, Longer, Zenon
<1> QED
  BY <1>3, <1>5, <1>8 DEF LOCO_DRIVEAWAY_PROG, LOCO_READ_CONSIST_PROG, x, s, f

LEMMA WritePrograms ==
    /\ WellFormed(SHORT_LOCO_ID_PROG)
    /\ WellFormed(LONG_LOCO_ID_PROG)
    /\ WellFormed(CONSIST_ID_PROG)
<1> DEFINE a == Ops(<<"W0", "WACK", "V0", "WACK", "NAKFAIL">>)
           b == Ops(<<"W1", "WACK", "V1", "WACK", "NAKFAIL">>)
           l == Ops(<<"SETBYTEL">>)
           u == <<"SETBYTEH", "WB", "WACK", "ITSKIP", "VB", "WACK", "ITSKIP", "CALLFAIL",
                  "SKIPTARGET">>
           v == <<"SETBYTEH", "WB", "WACK", "ITSKIP", "FAIL_IF_NONZERO_NAK", "SKIPTARGET">>
           z == Ops(<<"BASELINE">>)
<1>1. /\ Plain(<<"W0", "WACK", "V0", "WACK", "NAKFAIL">>)
      /\ Plain(<<"W1", "WACK", "V1", "WACK", "NAKFAIL">>)
      /\ Plain(<<"SETBYTEL">>)
  BY DEF Plain, Listed, Names, SkipNames
<1>2. Listed(u) /\ u[Len(u)] = "SKIPTARGET" /\ Listed(v) /\ v[Len(v)] = "SKIPTARGET"
  BY DEF Listed, Names
<1> HIDE DEF u, v
<1>3. Closed(a) /\ Closed(b) /\ Closed(l) /\ Lands(Ops(u)) /\ Lands(Ops(v))
  BY <1>1, <1>2, OpsKinds, Zenon
<1>4. Begins(z) /\ Closed(z)
  BY BaselineBegins
<1> HIDE DEF a, b, l, z
<1>5. /\ Closed(SetCV(29)) /\ Closed(SetBit(5)) /\ Closed(SetCV(1)) /\ Closed(SetCV(17))
      /\ Closed(SetCV(18)) /\ Closed(SetCV(19)) /\ Closed(SetCV(20)) /\ Closed(ClearConsist)
      /\ Closed(WriteOrVerify) /\ Fails(WriteOrVerify)
  BY OperandFacts, ClearConsistClosed, WriteOrVerifyFails
<1> DEFINE x == z \o ClearConsist \o SetCV(29) \o SetBit(5)
<1>6. Begins(x) /\ Closed(x)
  BY <1>4, <1>5, Longer, Zenon
<1> HIDE DEF x
<1>7. WellFormed(x \o a \o SetCV(1) \o l \o WriteOrVerify)
  BY <1>3, <1>5, <1>6, Longer, Zenon
<1> DEFINE y == x \o b \o SetCV(17)
<1>8. Begins(y) /\ Closed(y)
  BY <1>3, <1>5, <1>6, Longer, Zenon
<1> HIDE DEF y
<1>9. Begins(y \o Ops(u)) /\ Closed(y \o Ops(u))
  BY <1>3, <1>8, Joins, Zenon
<1>10. WellFormed(y \o Ops(u) \o SetCV(18) \o l \o WriteOrVerify)
  BY <1>3, <1>5, <1>9, Longer, Zenon
<1>11. Begins(z \o SetCV(20)) /\ Closed(z \o SetCV(20))
  BY <1>4, <1>5, Longer, Zenon
<1>12. Begins(z \o SetCV(20) \o Ops(v)) /\ Closed(z \o SetCV(20) \o Ops(v))
  BY <1>3, <1>11, Joins, Zenon
<1>13. WellFormed(z \o SetCV(20) \o Ops(v) \o SetCV(19) \o l \o WriteOrVerify)
  BY <1>3, <1>5, <1>12, Longer, Zenon
<1> QED
  BY <1>7, <1>10, <1>13, Zenon
     DEF SHORT_LOCO_ID_PROG, LONG_LOCO_ID_PROG, CONSIST_ID_PROG, a, b, l, u, v, x, y, z

\* Every program of DCC.cpp begins with BASELINE, ends with CALLFAIL and skips only to
\* targets that it has.
LEMMA ProgramsFit == \A p \in DOMAIN Programs : WellFormed(Programs[p])
<1>1. /\ WellFormed(WriteBit("W0", "V0")) /\ WellFormed(WriteBit("W1", "V1"))
      /\ WellFormed(TestBit("V0", "ITC0", "V1", "ITC1"))
      /\ WellFormed(TestBit("V1", "ITC1", "V0", "ITC0"))
  BY BitPrograms
<1> QED
  BY <1>1, BytePrograms, ReadPrograms, WritePrograms DEF Programs
-----------------------------------------------------------------------------
(* The program counter.                                                    *)

Fields == {"prog", "pc", "cb", "retry", "got", "byte", "verify", "word", "stash", "bit", "cv",
           "rejoin", "autoOff"}

\* The manager has its registers, and a program that runs has an operation to run:
\* DCCACK::loop never reads past the end of a program.
Control ==
    /\ session \in DOMAIN Sessions
    /\ Fields \subseteq DOMAIN m
    /\ ~Idle => m.prog \in DOMAIN Programs /\ m.pc \in DOMAIN Programs[m.prog]
    /\ m.byte \in Int /\ m.verify \in Int /\ m.word \in Int
    /\ m.rejoin \in BOOLEAN /\ m.autoOff \in BOOLEAN

\* The operation of a program p at pc, when it is not the last: the one behind it.
LEMMA NextOp ==
    ASSUME NEW p \in DOMAIN Programs, NEW pc \in DOMAIN Programs[p],
           Programs[p][pc][1] # "CALLFAIL"
    PROVE  pc + 1 \in DOMAIN Programs[p]
<1> DEFINE x == Programs[p]
<1>1. Fails(x)
  BY ProgramsFit DEF WellFormed
<1> HIDE DEF x
<1>2. x \in Seq(OpSet) /\ x[Len(x)][1] = "CALLFAIL"
  BY <1>1 DEF Fails, Fragment
<1>3. DOMAIN x = 1..Len(x) /\ Len(x) \in Nat
  BY <1>2, LenProperties
<1>4. pc \in 1..Len(x) /\ pc # Len(x)
  BY <1>2, <1>3 DEF x
<1>5. pc + 1 \in 1..Len(x)
  BY <1>3, <1>4
<1> QED
  BY <1>3, <1>5 DEF x

LEMMA OpTypes ==
    ASSUME NEW p \in DOMAIN Programs, NEW pc \in DOMAIN Programs[p],
           Programs[p][pc][1] \in Operands
    PROVE  Programs[p][pc][2] \in Int
<1> DEFINE x == Programs[p]
           o == x[pc]
<1>1. x \in Seq(OpSet)
  BY ProgramsFit DEF WellFormed, Fails, Fragment
<1>2. o \in OpSet
  <2> HIDE DEF x
  <2>1. pc \in 1..Len(x)
    BY <1>1, LenProperties DEF x
  <2> QED
    BY <1>1, <2>1, ElementOfSeq
<1>3. o[1] \in Operands
  OBVIOUS
<1>4. o[2] \in Int
  <2> HIDE DEF o
  <2>1. CASE o \in {<<n>> : n \in Names}
    BY <1>3, <2>1 DEF Names, Operands
  <2>2. CASE o \in {<<n, k>> : n \in Operands, k \in Int}
    BY <2>2
  <2> QED
    BY <1>2, <2>1, <2>2 DEF OpSet
<1> QED
  BY <1>4

\* A non-empty set of naturals has a least element: the library's WFMin in a form
\* the provers can use.
LEMMA LeastNatural ==
    ASSUME NEW T, T \subseteq Nat, T # {}
    PROVE  \E x \in T : \A y \in T : x <= y
<1> DEFINE R == OpToRel(<, Nat)
<1>1. PICK x \in T : \A y \in T : <<y, x>> \notin R
  BY Zenon, NatLessThanWellFounded, WFMin
<1>2. \A y \in Nat : y < x => <<y, x>> \in R
  BY DEF OpToRel
<1> HIDE DEF R
<1>3. \A y \in T : ~(y < x)
  BY Zenon, <1>1, <1>2
<1> QED
  BY <1>3

\* A skip lands on a target, which is not the last operation.
LEMMA SkipLands ==
    ASSUME NEW p \in DOMAIN Programs, NEW pc \in DOMAIN Programs[p],
           Programs[p][pc][1] \in SkipNames
    PROVE  /\ SkipFrom(Programs[p], pc) \in DOMAIN Programs[p]
           /\ Programs[p][SkipFrom(Programs[p], pc)][1] = "SKIPTARGET"
<1> DEFINE x == Programs[p]
<1>1. Closed(x)
  BY ProgramsFit DEF WellFormed
<1> HIDE DEF x
<1>2. DOMAIN x = 1..Len(x) /\ Len(x) \in Nat
  BY <1>1, LenProperties DEF Closed, Fragment
<1>3. pc \in 1..Len(x) /\ x[pc][1] \in SkipNames
  BY <1>2 DEF x
<1> DEFINE T == {t \in pc..Len(x) : x[t][1] = "SKIPTARGET"}
<1>4. T \subseteq Nat /\ T # {}
  BY <1>1, <1>2, <1>3 DEF Closed
<1>5. PICK t \in T : \A u \in T : t <= u
  BY Zenon, <1>4, LeastNatural
<1>6. /\ t \in pc..Len(x) /\ x[t][1] = "SKIPTARGET"
      /\ \A u \in pc..(t - 1) : x[u][1] # "SKIPTARGET"
  BY <1>2, <1>3, <1>5
<1>7. /\ SkipFrom(x, pc) \in pc..Len(x)
      /\ x[SkipFrom(x, pc)][1] = "SKIPTARGET"
  BY <1>6 DEF SkipFrom
<1>8. SkipFrom(x, pc) \in 1..Len(x)
  BY <1>2, <1>3, <1>7
<1> QED
  BY <1>2, <1>7, <1>8 DEF x

LEMMA FirstInside == ASSUME NEW p \in DOMAIN Programs PROVE 1 \in DOMAIN Programs[p]
<1> DEFINE x == Programs[p]
<1>1. x \in Seq(OpSet) /\ Len(x) >= 1
  BY ProgramsFit DEF WellFormed, Begins, Fragment
<1> HIDE DEF x
<1>2. DOMAIN x = 1..Len(x) /\ Len(x) \in Nat
  BY <1>1, LenProperties
<1>3. 1 \in DOMAIN x
  BY <1>1, <1>2
<1> QED
  BY <1>3 DEF x

\* What the wrappers give to Setup are programs and numbers.
JobTyped(j) ==
    /\ j.prog \in DOMAIN Programs
    /\ j.byte \in Int
    /\ j.word = {} \/ \E w \in Int : j.word = {w}

LEMMA ByteJobTyped ==
    ASSUME NEW c, NEW b \in Int, NEW p \in DOMAIN Programs PROVE JobTyped(ByteJob(c, b, p))
<1> DEFINE j == ByteJob(c, b, p)
<1>1. j.prog = p /\ j.byte = b /\ j.word = {}
  BY DEF ByteJob
<1> HIDE DEF j
<1>2. JobTyped(j)
  BY Zenon, <1>1 DEF JobTyped
<1> QED
  BY <1>2 DEF j

LEMMA WordJobTyped ==
    ASSUME NEW w \in Int, NEW p \in DOMAIN Programs PROVE JobTyped(WordJob(w, p))
<1> DEFINE j == WordJob(w, p)
<1>1. j.prog = p /\ j.byte = 0 /\ j.word = {w} /\ 0 \in Int
  BY DEF WordJob
<1> HIDE DEF j
<1>2. JobTyped(j)
  BY ZenonT(30), <1>1 DEF JobTyped
<1> QED
  BY <1>2 DEF j

LEMMA ProgramNames ==
    /\ "WRITE_BYTE_PROG" \in DOMAIN Programs /\ "WRITE_BIT1_PROG" \in DOMAIN Programs
    /\ "WRITE_BIT0_PROG" \in DOMAIN Programs /\ "VERIFY_BYTE_PROG" \in DOMAIN Programs
    /\ "VERIFY_BIT1_PROG" \in DOMAIN Programs /\ "VERIFY_BIT0_PROG" \in DOMAIN Programs
    /\ "READ_BIT_PROG" \in DOMAIN Programs /\ "READ_CV_PROG" \in DOMAIN Programs
    /\ "LOCO_DRIVEAWAY_PROG" \in DOMAIN Programs /\ "LOCO_READ_ID_PROG" \in DOMAIN Programs
    /\ "LOCO_READ_CONSIST_PROG" \in DOMAIN Programs /\ "SHORT_LOCO_ID_PROG" \in DOMAIN Programs
    /\ "LONG_LOCO_ID_PROG" \in DOMAIN Programs /\ "CONSIST_ID_PROG" \in DOMAIN Programs
  BY Zenon DEF Programs

LEMMA JobTypes ==
    ASSUME NEW r, r.kind \in Kinds, r.bit \in Int, r.val \in Int PROVE JobTyped(Job(r))
<1>1. /\ ConsistWord(r.val) \in Int /\ ConsistWord(r.val) + 128 \in Int
      /\ r.val + 49152 \in Int /\ 0 \in Int
  BY DEF ConsistWord, HIGHEST_SHORT_ADDR
<1>2. CASE r.kind = "writeCVByte"
  <2>1. Job(r) = ByteJob(r.cv, r.val, "WRITE_BYTE_PROG")
    BY <1>2 DEF Job
  <2> QED
    BY <1>1, <2>1, ByteJobTyped, ProgramNames
<1>3. CASE r.kind = "writeCVBit"
  <2>1. \/ Job(r) = ByteJob(r.cv, r.bit, "WRITE_BIT1_PROG")
        \/ Job(r) = ByteJob(r.cv, r.bit, "WRITE_BIT0_PROG")
    BY <1>3 DEF Job
  <2> QED
    BY <1>1, <2>1, ByteJobTyped, ProgramNames
<1>4. CASE r.kind = "verifyCVByte"
  <2>1. Job(r) = ByteJob(r.cv, r.val, "VERIFY_BYTE_PROG")
    BY <1>4 DEF Job
  <2> QED
    BY <1>1, <2>1, ByteJobTyped, ProgramNames
<1>5. CASE r.kind = "verifyCVBit"
  <2>1. \/ Job(r) = ByteJob(r.cv, r.bit, "VERIFY_BIT1_PROG")
        \/ Job(r) = ByteJob(r.cv, r.bit, "VERIFY_BIT0_PROG")
    BY <1>5 DEF Job
  <2> QED
    BY <1>1, <2>1, ByteJobTyped, ProgramNames
<1>6. CASE r.kind = "readCVBit"
  <2>1. Job(r) = ByteJob(r.cv, r.bit, "READ_BIT_PROG")
    BY <1>6 DEF Job
  <2> QED
    BY <1>1, <2>1, ByteJobTyped, ProgramNames
<1>7. CASE r.kind = "readCV"
  <2>1. Job(r) = ByteJob(r.cv, 0, "READ_CV_PROG")
    BY <1>7 DEF Job
  <2> QED
    BY <1>1, <2>1, ByteJobTyped, ProgramNames
<1>8. CASE r.kind = "getDriveawayLocoId"
  <2>1. Job(r) = ByteJob(0, 0, "LOCO_DRIVEAWAY_PROG")
    BY <1>8 DEF Job
  <2> QED
    BY <1>1, <2>1, ByteJobTyped, ProgramNames
<1>9. CASE r.kind = "getLocoId"
  <2>1. Job(r) = ByteJob(0, 0, "LOCO_READ_ID_PROG")
    BY <1>9 DEF Job
  <2> QED
    BY <1>1, <2>1, ByteJobTyped, ProgramNames
<1>10. CASE r.kind = "getConsistId"
  <2>1. Job(r) = ByteJob(0, 0, "LOCO_READ_CONSIST_PROG")
    BY <1>10 DEF Job
  <2> QED
    BY <1>1, <2>1, ByteJobTyped, ProgramNames
<1>11. CASE r.kind = "setLocoId"
  <2>1. \/ Job(r) = WordJob(r.val, "SHORT_LOCO_ID_PROG")
        \/ Job(r) = WordJob(r.val + 49152, "LONG_LOCO_ID_PROG")
    BY <1>11 DEF Job
  <2> QED
    BY <1>1, <2>1, WordJobTyped, ProgramNames
<1>12. CASE r.kind = "setConsistId"
  <2>1. Job(r) = WordJob(ConsistWord(r.val), "CONSIST_ID_PROG")
    BY <1>12 DEF Job
  <2> QED
    BY <1>1, <2>1, WordJobTyped, ProgramNames
<1>13. CASE r.kind = "setConsistIdReverse"
  <2>1. Job(r) = WordJob(ConsistWord(r.val) + 128, "CONSIST_ID_PROG")
    BY <1>13 DEF Job
  <2> QED
    BY <1>1, <2>1, WordJobTyped, ProgramNames
<1> QED
  BY <1>2, <1>3, <1>4, <1>5, <1>6, <1>7, <1>8, <1>9, <1>10, <1>11, <1>12, <1>13 DEF Kinds, BitKinds
=============================================================================
