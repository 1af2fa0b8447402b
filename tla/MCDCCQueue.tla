------------------------------ MODULE MCDCCQueue ------------------------------
(* Values of DCCQueue's constants for TLC. *)
EXTENDS DCCQueue

TwoLocos == {50, 51}
TwoSpeeds == {0, 9}
OneGroup == {2}
OneAcc == {7}
Repeats == {1}
\* For the aliasing run: a loco whose address is a start time.
AliasLoco == {6}
Moving == {9}
NoGroup == {}

\* SubSeqAt agrees with SelectSeq on every sequence of up to four elements.
ASSUME SubSeqAtIsSelectSeq ==
    \A n \in 0..4 : \A q \in [1..n -> 1..3] : \A T \in SUBSET (1..3) :
        SubSeqAt(q, {i \in 1..n : q[i] \in T}) = SelectSeq(q, LAMBDA x : x \in T)
=============================================================================
