------------------------------- MODULE LocoSlot -------------------------------
(***************************************************************************)
(* LocoSlot.cpp and DCCConsist.cpp: the table of locos and the consists    *)
(* chained through it.                                                     *)
(*                                                                         *)
(* The storage for a slot is a cell; Null is nullptr.  A table is a record *)
(* of the chain that starts at firstSlot, the recycler, slotCount,         *)
(* chainModified and the contents of the cells.  An operation on the table *)
(* is an operator from tables to tables, so that callers can run several   *)
(* of them in one step, as the code does.                                  *)
(*                                                                         *)
(* A speed code is a direction and a speed: 0 stop, 1 emergency stop.      *)
(***************************************************************************)
EXTENDS Integers, Sequences, Functions, FiniteSets

CONSTANTS
    MAX_LOCOS,      \* size of the table
    MaxSpeed,       \* highest speed code (127)
    UseDefault      \* MOMENTUM_USE_DEFAULT

ASSUME SlotAssumption ==
    MAX_LOCOS \in Nat \ {0} /\ MaxSpeed \in Nat /\ MaxSpeed > 1 /\ UseDefault \in Nat

\* The three operators of SequencesExt that are needed; each proof obligation
\* would carry the whole of that module.
Cons(x, seq) == <<x>> \o seq
Last(seq) == seq[Len(seq)]
RemoveAt(seq, i) == SubSeq(seq, 1, i - 1) \o SubSeq(seq, i + 1, Len(seq))

Null == 0
Cells == 1..MAX_LOCOS
Estop == 1
Code(v, fwd) == [v |-> v, fwd |-> fwd]
SpeedCode == [v : 0..MaxSpeed, fwd : BOOLEAN]
Flip(code, rev) == [code EXCEPT !.fwd = (code.fwd # rev)]

\* What prepare leaves in a slot.
Prepared(id) ==
    [loco |-> id, speed |-> Code(0, TRUE), target |-> Code(0, TRUE),
     saved |-> Code(0, FALSE), base |-> 0, momA |-> UseDefault, momD |-> UseDefault,
     functions |-> {}, groups |-> {}, lead |-> Null, next |-> Null, rev |-> FALSE]

EmptyTable ==
    [list |-> <<>>, recycler |-> <<>>, count |-> 0, modified |-> FALSE,
     slot |-> [c \in Cells |-> Prepared(0)]]

Listed(t) == Range(t.list)
Recycled(t) == Range(t.recycler)

\* getSlot(id, false): the slot of a loco, or Null.
Find(t, id) ==
    IF \E c \in Listed(t) : t.slot[c].loco = id
    THEN CHOOSE c \in Listed(t) : t.slot[c].loco = id
    ELSE Null

prepare(t, c, id) ==
    [t EXCEPT !.list = Cons(c, t.list), !.modified = TRUE, !.slot[c] = Prepared(id)]

\* getSlot(id, true): the table in which id has a slot, if there is room.
getSlot(t, id) ==
    CASE id = 0 \/ Find(t, id) # Null -> t
      [] id # 0 /\ Find(t, id) = Null /\ t.recycler # <<>> ->
            prepare([t EXCEPT !.recycler = Tail(t.recycler)], t.recycler[1], id)
      [] id # 0 /\ Find(t, id) = Null /\ t.recycler = <<>> /\ t.count < MAX_LOCOS ->
            prepare([t EXCEPT !.count = t.count + 1],
                    CHOOSE c \in Cells : c \notin Listed(t), id)
      [] OTHER -> t

\* The place of a slot on the chain.
Index(t, c) == CHOOSE k \in DOMAIN t.list : t.list[k] = c

forget(t, c) ==
    [t EXCEPT !.list = RemoveAt(t.list, Index(t, c)),
              !.recycler = Cons(c, t.recycler), !.modified = TRUE]

forgetAll(t) == [EmptyTable EXCEPT !.modified = TRUE]

-----------------------------------------------------------------------------
isConsistLead(s) == s.next # Null /\ s.lead = Null
isConsistFollower(s) == s.lead # Null
inConsist(t, id) ==
    /\ Find(t, id) # Null
    /\ isConsistLead(t.slot[Find(t, id)]) \/ isConsistFollower(t.slot[Find(t, id)])

\* The cells met when consistNext is followed from c.  A chain without a cycle
\* has no more than MAX_LOCOS of them.
Chain(t, c) ==
    LET walk[n \in 0..MAX_LOCOS] ==
          IF n = 0 THEN <<c>>
          ELSE LET w == walk[n - 1]
               IN  IF t.slot[Last(w)].next = Null THEN w
                   ELSE Append(w, t.slot[Last(w)].next)
    IN  walk[MAX_LOCOS]

\* The while loop of deleteAnyConsist, started at c.
Unchain(t, c) ==
    LET members == Range(Chain(t, c))
    IN  [t EXCEPT !.slot = [d \in Cells |->
            IF d \in members
            THEN [t.slot[d] EXCEPT !.lead = Null, !.next = Null, !.rev = FALSE]
            ELSE t.slot[d]]]

deleteAnyConsist(t, id) ==
    LET c == Find(t, id)
        top == IF c = Null THEN Null
               ELSE IF isConsistLead(t.slot[c]) THEN c ELSE t.slot[c].lead
    IN  IF top = Null THEN t ELSE Unchain(t, top)

\* A result is the table and whether a null pointer was dereferenced.
Done(t) == [tab |-> t, ub |-> FALSE]

addLocoToConsist(t, consistId, id, rev) ==
    LET t1 == getSlot(t, consistId)
        c == Find(t1, consistId)
        top == IF t1.slot[c].lead # Null THEN t1.slot[c].lead ELSE c
        tail == Last(Chain(t1, top))
        t2 == getSlot(t1, id)
        add == Find(t2, id)
    IN  IF id = consistId THEN Done(t)
        ELSE IF c = Null THEN Done(t1)
        ELSE IF add = Null \/ inConsist(t2, id) THEN Done(t2)
        ELSE LET t3 == [t2 EXCEPT !.slot[add].rev = rev]
                 t4 == IF add # top THEN [t3 EXCEPT !.slot[add].lead = top] ELSE t3
             IN  Done(IF tail # add THEN [t4 EXCEPT !.slot[tail].next = add] ELSE t4)

\* parse chains the slots of p[2..], one after the other, behind the first.
\* getSlot's result is not tested: without room a null pointer is written to.
Join(res, p, i, lead) ==
    LET t1 == getSlot(res.tab, p[i].loco)
        c == Find(t1, p[i].loco)
        prev == Find(t1, p[i - 1].loco)
    IN  IF res.ub \/ c = Null THEN [tab |-> t1, ub |-> TRUE]
        ELSE Done([t1 EXCEPT !.slot[c].lead = lead, !.slot[c].rev = p[i].rev,
                             !.slot[prev].next = c])

\* parse, for one or more parameters (loco and sign) that are valid and not
\* repeated; without parameters it only lists.
parse(t, p) ==
    LET c == Find(t, p[1].loco)
        t1 == IF c # Null /\ isConsistLead(t.slot[c])
              THEN deleteAnyConsist(t, p[1].loco) ELSE t
        t2 == getSlot(t1, p[1].loco)
        lead == Find(t2, p[1].loco)
        joined[i \in 1..Len(p)] ==
            IF i = 1 THEN Done([t2 EXCEPT !.slot[lead].rev = p[1].rev])
                     ELSE Join(joined[i - 1], p, i, lead)
    IN  IF Len(p) < 2 \/ \E i \in DOMAIN p : inConsist(t1, p[i].loco) THEN Done(t1)
        ELSE IF lead = Null THEN [tab |-> t2, ub |-> TRUE]
        ELSE joined[Len(p)]

-----------------------------------------------------------------------------
\* Every cell that was allocated is on exactly one of the chain and the
\* recycler, slotCount counts them, and no loco has two slots.
TableWellFormed(t) ==
    /\ IsInjective(t.list) /\ IsInjective(t.recycler)
    /\ Listed(t) \cap Recycled(t) = {}
    /\ Len(t.list) + Len(t.recycler) = t.count /\ t.count <= MAX_LOCOS
    /\ \A c, d \in Listed(t) : t.slot[c].loco = t.slot[d].loco => c = d
    /\ \A c \in Listed(t) : t.slot[c].loco # 0

\* A consist is a lead followed by its followers: no pointer leads to a slot
\* that is not in use, no chain is cyclic, and a slot has a lead exactly when
\* it is on that lead's chain, behind it.
ConsistsWellFormed(t) ==
    \A c \in Listed(t) :
        /\ t.slot[c].lead \in Listed(t) \cup {Null}
        /\ t.slot[c].next \in Listed(t) \cup {Null}
        /\ IsInjective(Chain(t, c))
        /\ \A d \in Listed(t) :
              t.slot[c].lead = d <=> c # d /\ t.slot[d].lead = Null /\ c \in Range(Chain(t, d))
=============================================================================
