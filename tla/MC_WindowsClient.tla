-------------------------- MODULE MC_WindowsClient --------------------------
(* WindowsClient with the polling loops cut to their shortest shape.      *)
EXTENDS WindowsClient

\* The polling loops with their deadline one tick away: a loop that counts
\* ticks against one time.After (the install poll, the start poll, Start's
\* service poll) ticks, or ends on the deadline when both fire together, as
\* at the last tick before 20s, 60s or 30s. The uninstall poll creates both
\* timers anew per iteration, so its tick comes strictly first, as the 1s
\* tick does before the fresh 20s time.After.
MCInstallTick == 1
MCInstallAfter == 1
MCStartTick == 1
MCStartAfter == 1
MCUninstallTick == 1
MCUninstallAfter == 2
MCWatchTick == 1
MCWatchAfter == 1

\* One backoff round in the 15s delete wait; one crash of the service.
MCDeleteWaitPolls == 1
MCMaxCrashes == 1

\* One retry (retryCounter is 2 in the code: a retry is a fresh attempt
\* like the first); Tx has capacity 5 in NewWatcher, and one slot already
\* makes a full channel block the watcher.
MCRetries == 1
MCTxCap == 1

\* At most one disturbance per behaviour: the service crashes once, or the
\* user runs the uninstaller, not both (a bound on the environment, as
\* MaxCrashes is).
OneDisturbance == crashes + (IF unPc = "idle" THEN 0 ELSE 1) <= 1
=============================================================================
