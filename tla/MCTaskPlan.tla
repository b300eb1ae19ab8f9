----------------------------- MODULE MCTaskPlan -----------------------------
(* Small instances of TaskPlan for TLC.                                    *)
EXTENDS TaskPlan, TLC

CONSTANTS api, web, guest

AllStrategies == {"none", "S3", "S4"}
AllLateWrites == {"issues", "account", "board"}
NoLateWrites == {}
=============================================================================
