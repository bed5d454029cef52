---------------------------- MODULE WeeklyTaskMC ----------------------------
(* Small instances of WeeklyTask for TLC.                                  *)
EXTENDS WeeklyTask, TLC

CONSTANTS btc, eth

TwoCoins == {btc, eth}
OneBook == {{btc, eth}}
AllFaults == {"miss", "fetch", "skip", "halt", "kill", "manual", "slow"}
SkipOnly == {"skip"}
=============================================================================
