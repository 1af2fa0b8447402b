---------------------------- MODULE MCDCCWaveform ----------------------------
(* Values of DCCWaveform's constants for TLC. *)
EXTENDS DCCWaveform

TwoPackets == {<<{1, 3}, {2, 8}>>, <<{8}, {}, {1, 2, 3}>>}
RepeatOne == {1}
=============================================================================
