--------------------------- MODULE WindowsClient ---------------------------
(***************************************************************************)
(* The Windows client as one system: the tray's MiraWatcher and the        *)
(* elevated helpers with the service they manage. They interact in two    *)
(* places of the code:                                                     *)
(*   - isServiceRunning() (service_install.go lines 201-222), which the    *)
(*     watcher polls, reads the service state the SCM and the installer    *)
(*     drive: the watcher's svcUp is the service being "running";         *)
(*   - MiraWatcher.Start (part_000 lines 45-51) calls                      *)
(*     ElevateToInstallService (service_install.go lines 121-150), whose   *)
(*     ShellExecute starts the -install helper and returns at once; the    *)
(*     tray then polls while the installer works.                         *)
(* The helper processes, the service and the watcher's goroutines are     *)
(* instances of ServiceInstaller and MiraWatcher; each step of one leaves  *)
(* the other's variables alone. The uninstaller stays a user action.      *)
(***************************************************************************)
EXTENDS Naturals, Sequences

CONSTANTS
    InstallTick, InstallAfter, StartTick, StartAfter,
    UninstallTick, UninstallAfter, DeleteWaitPolls, MaxCrashes,
    TxCap, Retries,
    WatchTick, WatchAfter   \* Start's service poll: ticker 1s, time.After 30s

ASSUME TimerAssumption ==
    \A t \in {InstallTick, InstallAfter, StartTick, StartAfter,
              UninstallTick, UninstallAfter, WatchTick, WatchAfter} : t \in Nat \ {0}
ASSUME PollAssumption == DeleteWaitPolls \in Nat /\ MaxCrashes \in Nat
ASSUME WatcherAssumption == TxCap \in Nat \ {0} /\ Retries \in Nat

VARIABLES
    svc, marked, recovery, recovering, crashes, instPc, instWaited, unPc, unPolls,
    wPc, waited, retry, g1, g2, timerFired, egDone, firstErr, cancelled,
    broken, intSt, sigint, tx, lastSent

Ivars == <<svc, marked, recovery, recovering, crashes, instPc, instWaited, unPc, unPolls>>
Wvars == <<wPc, waited, retry, g1, g2, timerFired, egDone, firstErr, cancelled,
           broken, intSt, sigint, tx, lastSent>>
vars == <<Ivars, Wvars>>

Inst == INSTANCE ServiceInstaller
Watch == INSTANCE MiraWatcher
    WITH svcUp <- (svc = "running"), StartTick <- WatchTick, StartAfter <- WatchAfter

\* A step of the watcher's goroutines, the tray or a signal (the helpers'
\* variables come first: the watcher reads the service state).
W(A) == UNCHANGED Ivars /\ A
\* A step of a helper process or of the SCM.
I(A) == A /\ UNCHANGED Wvars

Init == Inst!Init /\ Watch!Init

\* if !isServiceRunning() { ElevateToInstallService() }: the -install helper
\* starts and the tray goes on to poll, or ShellExecute fails and the tray
\* ends in log.Fatalf; a running service is watched at once.
TrayStart ==
    \/ Inst!LaunchInstaller /\ Watch!StartCheck /\ wPc' = "pollSvc"
    \/ UNCHANGED Ivars /\ Watch!StartCheck /\ wPc' # "pollSvc"

\* The tray start, then each step of the watcher's goroutines, of the
\* helpers and of the SCM, the other component standing still.
Next ==
    \/ TrayStart
    \/ W(Watch!PollService) \/ W(Watch!G1Start) \/ W(Watch!G1Answer)
    \/ W(Watch!G1Canceled) \/ W(Watch!TimerFire) \/ W(Watch!G2Select)
    \/ W(Watch!AttemptDone) \/ W(Watch!WatchNextFailed) \/ W(Watch!WatchNext)
    \/ W(Watch!GetPrefs) \/ W(Watch!Interrupt) \/ W(Watch!SendInterrupt)
    \/ W(Watch!Consume)
    \/ I(Inst!InstallCheck) \/ I(Inst!PollInstalled) \/ I(Inst!CheckRunning)
    \/ I(Inst!StartQuery) \/ I(Inst!StartCall) \/ I(Inst!PollRunning)
    \/ I(Inst!LaunchUninstaller) \/ I(Inst!UninstallCheck)
    \/ I(Inst!UninstallService) \/ I(Inst!DeleteWait) \/ I(Inst!UninstallPoll)
    \/ I(Inst!ServiceStarted) \/ I(Inst!ServiceStartFailed)
    \/ I(Inst!ServiceStopped) \/ I(Inst!ServiceCrash) \/ I(Inst!ServiceRecover)

\* The fairness of both components: every goroutine and helper step is
\* scheduled, the timers fire and the SCM ends its pending states.
Fairness ==
    /\ WF_vars(TrayStart)
    /\ WF_vars(W(Watch!PollService)) /\ WF_vars(W(Watch!G1Start))
    /\ WF_vars(W(Watch!G1Canceled)) /\ WF_vars(W(Watch!TimerFire))
    /\ WF_vars(W(Watch!G2Select)) /\ WF_vars(W(Watch!AttemptDone))
    /\ WF_vars(W(Watch!WatchNextFailed)) /\ WF_vars(W(Watch!GetPrefs))
    /\ WF_vars(W(Watch!Interrupt)) /\ WF_vars(W(Watch!Consume))
    /\ WF_vars(I(Inst!InstallCheck)) /\ WF_vars(I(Inst!PollInstalled))
    /\ WF_vars(I(Inst!CheckRunning)) /\ WF_vars(I(Inst!StartQuery))
    /\ WF_vars(I(Inst!StartCall)) /\ WF_vars(I(Inst!PollRunning))
    /\ WF_vars(I(Inst!UninstallCheck)) /\ WF_vars(I(Inst!UninstallService))
    /\ WF_vars(I(Inst!DeleteWait)) /\ WF_vars(I(Inst!UninstallPoll))
    /\ WF_vars(I(Inst!ServiceStarted \/ Inst!ServiceStartFailed))
    /\ WF_vars(I(Inst!ServiceStopped)) /\ WF_vars(I(Inst!ServiceRecover))

Spec == Init /\ [][Next]_vars
FairSpec == Spec /\ Fairness

-----------------------------------------------------------------------------
(* Properties *)

\* Every variable of both components holds a value of its kind.
TypeOK == Inst!TypeOK /\ Watch!TypeOK

\* The installer the tray launched always exits, whatever the tray, the
\* uninstaller and the service do meanwhile.
InstallerTerminates == Inst!InstallerTerminates

\* The tray always hears how Start went, with the service driven by the
\* installer it launched: WatcherUpEvent or an error reaches Tx, or the tray
\* itself exits.
StartReports == Watch!StartReports

\* Where Start and WatchDaemon are, as the tray sees it: before
\* WatcherUpEvent, watching, or returned (the tray exited at log.Fatalf).
TrayPhase ==
    CASE wPc \in {"start", "pollSvc", "getw"} -> "starting"
      [] wPc \in {"watch", "prefs"}            -> "up"
      [] OTHER                                -> "ended"

Tray == INSTANCE TrayProtocol WITH phase <- TrayPhase

\* Refinement: what the watcher puts on Tx follows the tray's protocol:
\* at most one WatcherUpEvent, and before any notification; Start's error
\* ends it; nothing is sent once WatchDaemon has returned.
ImplementsTray == Tray!Spec

=============================================================================
