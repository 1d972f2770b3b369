----------------------------- MODULE MCLogStore -----------------------------
(***************************************************************************)
(* LogStore for TLC.  Two or three kinds stand for the fifteen: the audit  *)
(* log (with a period and a backup group of its own), an event log (LOG)   *)
(* and TRAFFIC_DETECTION, which comes last in both lists of patterns.      *)
(***************************************************************************)
EXTENDS LogStore

OneKindOrder == <<"AUDIT">>
OneRetentionOrder == <<{"AUDIT"}>>
OneBackupOrder == <<{"AUDIT"}>>
OneGroupAt == <<"audit">>

TwoKindOrder == <<"LOG", "AUDIT">>
TwoRetentionOrder == <<{"LOG"}, {"AUDIT"}>>
TwoBackupOrder == <<{"AUDIT"}, {"LOG"}>>
OneGroupOfTwoAt == <<"detection", "detection">>
TwoGroupAt == <<"audit", "detection">>

ThreeKindOrder == <<"LOG", "AUDIT", "TRAFFIC_DETECTION">>
ThreeRetentionOrder == <<{"LOG"}, {"AUDIT"}, {"TRAFFIC_DETECTION"}>>
ThreeBackupOrder == <<{"AUDIT"}, {"LOG"}, {"TRAFFIC_DETECTION"}>>
ThreeGroupAt == <<"audit", "detection", "detection">>
=============================================================================
