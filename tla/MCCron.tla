------------------------------ MODULE MCCron ------------------------------
(* One default shell job and one tool job that somebody may add.          *)
EXTENDS Cron

CONSTANTS d, u    \* the default job, the job of a user

MCKind == [j \in Jobs |-> IF j = d THEN "shell" ELSE "tool"]
MCInterval == [j \in Jobs |-> IF j = d THEN 2 ELSE 1]
=============================================================================
