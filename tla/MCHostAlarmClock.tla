-------------------------- MODULE MCHostAlarmClock --------------------------
(* The instance of HostAlarmClock for TLC; clock.cfg gives the constants.  *)
EXTENDS HostAlarmClock

=============================================================================
