---------------------------- MODULE MCAlarmSlot ----------------------------
(* Instances of AlarmSlot for TLC.                                         *)
EXTENDS AlarmSlot

=============================================================================
