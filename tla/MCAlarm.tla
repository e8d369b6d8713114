------------------------------ MODULE MCAlarm ------------------------------
(* Values for the constants of Alarm that a .cfg cannot express. *)
EXTENDS Alarm

CONSTANTS t1, t2, t3

MCThread == {t1, t2, t3}
=============================================================================
