------------------------------ MODULE PacketLink ------------------------------
(***************************************************************************)
(* What DCCWaveform promises to the code that schedules packets: a box for *)
(* one packet and, behind it, the packet on the air with the repeats it    *)
(* still has.  Frames follow each other without end; a new packet goes on  *)
(* the air, whole, when the repeats of the last one are used up.           *)
(***************************************************************************)
EXTENDS Integers, Sequences

CONSTANTS
    Frames,     \* the frames that may be posted, checksum included
    Repeats,    \* repeats a packet may be given
    Fillers,    \* the frames that may be sent when there is nothing to send
    NoFrame     \* what is on the air before the first frame

VARIABLES box, onAir

Init == box = <<>> /\ onAir = [frame |-> NoFrame, left |-> 0]

Post(f, r) ==
    /\ box = <<>>
    /\ box' = <<[frame |-> f, left |-> r]>>
    /\ UNCHANGED onAir

\* The next frame begins: a repeat, the posted packet, or filler.
NextFrame ==
    \/ /\ onAir.left > 0
       /\ onAir' = [frame |-> onAir.frame, left |-> onAir.left - 1]
       /\ UNCHANGED box
    \/ /\ onAir.left = 0 /\ box # <<>>
       /\ onAir' = box[1]
       /\ box' = <<>>
    \/ /\ onAir.left = 0 /\ box = <<>>
       /\ \E f \in Fillers : onAir' = [frame |-> f, left |-> 0]
       /\ UNCHANGED box

CutRepeats ==
    /\ onAir' = [frame |-> onAir.frame, left |-> 0]
    /\ UNCHANGED box

Next == (\E f \in Frames, r \in Repeats : Post(f, r)) \/ NextFrame \/ CutRepeats

LinkVars == <<box, onAir>>
Spec == Init /\ [][Next]_LinkVars
=============================================================================
