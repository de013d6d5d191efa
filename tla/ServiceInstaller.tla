-------------------------- MODULE ServiceInstaller --------------------------
(***************************************************************************)
(* The Windows client's elevated helper processes and the service they    *)
(* manage (src/mirageclient-win/service_install.go lines 23-328):          *)
(*   - the installer (-install): isServiceInstaller, which calls           *)
(*     InstallSystemDaemonWindows and startService and polls the service   *)
(*     state with a ticker against a time.After deadline;                  *)
(*   - the uninstaller (-uninstall): isServiceUninstaller, which calls     *)
(*     UninstallSystemDaemonWindows and polls until the service is gone;   *)
(*   - the service control manager and the service process, as the       *)
(*     environment: start pending, running, stop pending, stopped, the    *)
(*     mark for deletion and the recovery restart the installer sets up.   *)
(* Each SCM call of the code (OpenService, Query, Start, Control, Delete)  *)
(* is one atomic step; the other process and the service move between     *)
(* them. Time is counted per polling loop, in seconds since the loop's     *)
(* time.After was created.                                                 *)
(***************************************************************************)
EXTENDS Naturals

CONSTANTS
    InstallTick, InstallAfter,     \* the install poll: ticker 1s, time.After 20s
    StartTick, StartAfter,         \* the start poll: ticker 10s, time.After 60s
    UninstallTick, UninstallAfter, \* the uninstall poll: time.Tick 1s, time.After 20s
    DeleteWaitPolls,   \* backoff rounds of UninstallSystemDaemonWindows in 15s
    MaxCrashes         \* bound on crashes of the service process

VARIABLES
    svc,        \* the service: "absent", "stopped", "starting", "running", "stopping"
    marked,     \* DeleteService has marked it for deletion
    recovery,   \* its recovery actions (SetRecoveryActions) are configured
    recovering, \* the SCM will restart it after a crash
    crashes,    \* crashes so far (bounded)
    instPc,     \* the installer process
    instWaited, \* seconds since the installer's current time.After was created
    unPc,       \* the uninstaller process
    unPolls     \* backoff rounds in UninstallSystemDaemonWindows' delete wait

vars == <<svc, marked, recovery, recovering, crashes, instPc, instWaited,
          unPc, unPolls>>

SvcStates == {"absent", "stopped", "starting", "running", "stopping"}
InstPcs == {"idle", "check", "pollInst", "checkRun", "startWait", "startCall",
            "pollRun", "done", "fatal"}
UnPcs == {"idle", "check", "uninstall", "deleteWait", "poll", "done", "fatal"}
MaxWait == IF InstallAfter > StartAfter THEN InstallAfter ELSE StartAfter

-----------------------------------------------------------------------------
(* Helpers *)

\* Mutant: the deadline never wins the select.
SelectNoTimeout(waited, tick, after) == {"tick"}

\* The cases a select between a ticker of period tick and a time.After of
\* after may take, when waited seconds have passed since the time.After was
\* created: whichever fires first, either one when they fire together.
SelectOutcome(waited, tick, after) ==
    {c \in {"tick", "timeout"} :
        \/ c = "tick" /\ waited + tick <= after
        \/ c = "timeout" /\ after <= waited + tick}

\* A service that stops leaves the SCM database if it is marked for deletion.
Halt == IF marked THEN svc' = "absent" /\ marked' = FALSE
        ELSE svc' = "stopped" /\ UNCHANGED marked

Installed == svc # "absent"

-----------------------------------------------------------------------------
(* The installer, isServiceInstaller *)

Init ==
    /\ svc \in {"absent", "stopped", "running"}
    /\ marked = FALSE
    /\ recovery = (svc # "absent")
    /\ recovering = FALSE
    /\ crashes = 0
    /\ instPc = "idle"
    /\ instWaited = 0
    /\ unPc = "idle"
    /\ unPolls = 0

InstVars == <<instPc, instWaited>>
SvcVars == <<svc, marked, recovery, recovering, crashes>>
UnVars == <<unPc, unPolls>>

\* The tray client or the user runs the -install helper.
LaunchInstaller ==
    /\ instPc = "idle"
    /\ instPc' = "check"
    /\ UNCHANGED <<instWaited, SvcVars, UnVars>>

\* if !isServiceInstalled() { InstallSystemDaemonWindows() }: CreateService
\* then SetRecoveryActions; a failure of either is log.Fatalf, and a failure
\* of the second leaves a service without recovery actions.
InstallCheck ==
    /\ instPc = "check"
    /\ \/ Installed /\ instPc' = "pollInst" /\ UNCHANGED SvcVars
       \/ /\ ~Installed
          /\ \/ instPc' = "fatal" /\ UNCHANGED SvcVars
             \/ /\ svc' = "stopped"
                /\ \/ instPc' = "pollInst" /\ recovery' = TRUE
                   \/ instPc' = "fatal" /\ recovery' = FALSE
                /\ UNCHANGED <<marked, recovering, crashes>>
    /\ instWaited' = 0
    /\ UNCHANGED UnVars

\* for !isServiceInstalled() { select { ticker 1s, after 20s } }
PollInstalled ==
    /\ instPc = "pollInst"
    /\ \/ Installed /\ instPc' = "checkRun" /\ UNCHANGED instWaited
       \/ /\ ~Installed
          /\ \E c \in SelectOutcome(instWaited, InstallTick, InstallAfter) :
                IF c = "tick" THEN instPc' = "pollInst" /\ instWaited' = instWaited + InstallTick
                ELSE instPc' = "fatal" /\ UNCHANGED instWaited
    /\ UNCHANGED <<SvcVars, UnVars>>

\* if !isServiceRunning() { startService() }; the 60s time.After of the
\* next loop starts after it.
CheckRunning ==
    /\ instPc = "checkRun"
    /\ instPc' = IF svc = "running" THEN "pollRun" ELSE "startWait"
    /\ instWaited' = 0
    /\ UNCHANGED <<SvcVars, UnVars>>

\* Mutant: the wait in startService ends on Running only.
StartQueryRunningOnly ==
    /\ instPc = "startWait"
    /\ \/ svc = "absent" /\ instPc' = "fatal"
       \/ svc = "running" /\ instPc' = "startCall"
    /\ UNCHANGED <<instWaited, SvcVars, UnVars>>

\* startService: OpenService and Query fail once the service is gone
\* (log.Fatalf in the caller); otherwise it waits while the state is a
\* pending one, and goes on to Start when it is Running or Stopped.
StartQuery ==
    /\ instPc = "startWait"
    /\ \/ svc = "absent" /\ instPc' = "fatal"
       \/ svc \in {"running", "stopped"} /\ instPc' = "startCall"
    /\ UNCHANGED <<instWaited, SvcVars, UnVars>>

\* s.Start(): StartService succeeds on a stopped service that is not marked
\* for deletion; on any other it fails (ERROR_SERVICE_ALREADY_RUNNING,
\* ERROR_SERVICE_MARKED_FOR_DELETE), and the caller calls log.Fatalf.
StartCall ==
    /\ instPc = "startCall"
    /\ IF svc = "stopped" /\ ~marked
       THEN svc' = "starting" /\ instPc' = "pollRun"
       ELSE instPc' = "fatal" /\ UNCHANGED svc
    /\ UNCHANGED <<marked, recovery, recovering, crashes, instWaited, UnVars>>

\* for !isServiceRunning() { select { ticker 10s: startService(), after 60s } }
PollRunning ==
    /\ instPc = "pollRun"
    /\ \/ svc = "running" /\ instPc' = "done" /\ UNCHANGED instWaited
       \/ /\ svc # "running"
          /\ \E c \in SelectOutcome(instWaited, StartTick, StartAfter) :
                IF c = "tick" THEN instPc' = "startWait" /\ instWaited' = instWaited + StartTick
                ELSE instPc' = "fatal" /\ UNCHANGED instWaited
    /\ UNCHANGED <<SvcVars, UnVars>>

-----------------------------------------------------------------------------
(* The uninstaller, isServiceUninstaller and UninstallSystemDaemonWindows *)

LaunchUninstaller ==
    /\ unPc = "idle"
    /\ unPc' = "check"
    /\ UNCHANGED <<unPolls, SvcVars, InstVars>>

\* if !isServiceInstalled() { log.Fatalf }
UninstallCheck ==
    /\ unPc = "check"
    /\ unPc' = IF Installed THEN "uninstall" ELSE "fatal"
    /\ UNCHANGED <<unPolls, SvcVars, InstVars>>

\* OpenService, Query, Control(Stop) when not Stopped (accepted only by a
\* running service; a start pending one refuses the control and the error
\* is dropped), Delete, Close. A stopped service marked for deletion is
\* removed when its handle is closed. An error returns early, and the
\* caller ignores it: a service already marked makes Delete fail, which
\* skips the wait for the deletion.
UninstallService ==
    /\ unPc = "uninstall"
    /\ \/ ~Installed /\ unPc' = "poll" /\ UNCHANGED SvcVars
       \/ /\ Installed /\ marked /\ unPc' = "poll"
          /\ svc' = IF svc = "running" THEN "stopping" ELSE svc
          /\ UNCHANGED <<marked, recovery, recovering, crashes>>
       \/ /\ Installed /\ ~marked
          /\ unPc' = "deleteWait"
          /\ IF svc = "stopped" THEN svc' = "absent" /\ marked' = FALSE
             ELSE /\ svc' = IF svc = "running" THEN "stopping" ELSE svc
                  /\ marked' = TRUE
          /\ UNCHANGED <<recovery, recovering, crashes>>
    /\ unPolls' = 0
    /\ UNCHANGED InstVars

\* for time.Until(end) > 0 { OpenService; bo.BackOff }: ends when the
\* service can no longer be opened, or after the 15 seconds.
DeleteWait ==
    /\ unPc = "deleteWait"
    /\ \/ ~Installed /\ unPc' = "poll" /\ UNCHANGED unPolls
       \/ Installed /\ unPolls < DeleteWaitPolls /\ unPolls' = unPolls + 1
          /\ UNCHANGED unPc
       \/ Installed /\ unPolls >= DeleteWaitPolls /\ unPc' = "poll"
          /\ UNCHANGED unPolls
    /\ UNCHANGED <<SvcVars, InstVars>>

\* for isServiceInstalled() { select { time.Tick(1s), time.After(20s) } };
\* both timers are created anew on every iteration. uninstallWinTun on exit.
UninstallPoll ==
    /\ unPc = "poll"
    /\ \/ ~Installed /\ unPc' = "done"
       \/ /\ Installed
          /\ \E c \in SelectOutcome(0, UninstallTick, UninstallAfter) :
                unPc' = IF c = "tick" THEN "poll" ELSE "fatal"
    /\ UNCHANGED <<unPolls, SvcVars, InstVars>>

-----------------------------------------------------------------------------
(* The service control manager and the service process *)

\* The service reports SERVICE_RUNNING.
ServiceStarted ==
    /\ svc = "starting"
    /\ svc' = "running"
    /\ UNCHANGED <<marked, recovery, recovering, crashes, InstVars, UnVars>>

\* The service fails to start, or the SCM's start timeout expires.
ServiceStartFailed ==
    /\ svc = "starting"
    /\ Halt
    /\ UNCHANGED <<recovery, recovering, crashes, InstVars, UnVars>>

\* The service handles SERVICE_CONTROL_STOP and reports SERVICE_STOPPED.
ServiceStopped ==
    /\ svc = "stopping"
    /\ Halt
    /\ UNCHANGED <<recovery, recovering, crashes, InstVars, UnVars>>

\* The service process dies; with recovery actions the SCM restarts it.
ServiceCrash ==
    /\ svc = "running" /\ crashes < MaxCrashes
    /\ Halt
    /\ crashes' = crashes + 1
    /\ recovering' = recovery
    /\ UNCHANGED <<recovery, InstVars, UnVars>>

\* The recovery actions set at lines 56-73 (ServiceRestart after a delay).
ServiceRecover ==
    /\ recovering /\ svc = "stopped" /\ ~marked
    /\ svc' = "starting"
    /\ recovering' = FALSE
    /\ UNCHANGED <<marked, recovery, crashes, InstVars, UnVars>>

Installer == LaunchInstaller \/ InstallCheck \/ PollInstalled \/ CheckRunning
             \/ StartQuery \/ StartCall \/ PollRunning
Uninstaller == LaunchUninstaller \/ UninstallCheck \/ UninstallService
               \/ DeleteWait \/ UninstallPoll
Service == ServiceStarted \/ ServiceStartFailed \/ ServiceStopped
           \/ ServiceCrash \/ ServiceRecover

Next == Installer \/ Uninstaller \/ Service

\* Both helpers run their steps; the SCM ends every pending state (the start
\* timeout, the stop handler) and carries out the recovery restart. Nothing
\* obliges the user to launch a helper, or the service to crash or fail.
Fairness ==
    /\ WF_vars(InstallCheck) /\ WF_vars(PollInstalled) /\ WF_vars(CheckRunning)
    /\ WF_vars(StartQuery) /\ WF_vars(StartCall) /\ WF_vars(PollRunning)
    /\ WF_vars(UninstallCheck) /\ WF_vars(UninstallService)
    /\ WF_vars(DeleteWait) /\ WF_vars(UninstallPoll)
    /\ WF_vars(ServiceStarted \/ ServiceStartFailed)
    /\ WF_vars(ServiceStopped)
    /\ WF_vars(ServiceRecover)

Spec == Init /\ [][Next]_vars
FairSpec == Spec /\ Fairness

-----------------------------------------------------------------------------
(* Properties *)

\* Every variable holds a value of its kind; the poll counters stay within
\* the deadlines of their loops.
TypeOK ==
    /\ svc \in SvcStates /\ marked \in BOOLEAN
    /\ recovery \in BOOLEAN /\ recovering \in BOOLEAN
    /\ crashes \in 0..MaxCrashes
    /\ instPc \in InstPcs /\ instWaited \in 0..MaxWait
    /\ unPc \in UnPcs /\ unPolls \in 0..DeleteWaitPolls

\* isServiceInstaller always ends: every polling loop is bounded by its
\* time.After, and the wait inside startService ends with the pending state.
InstallerTerminates == instPc # "idle" ~> instPc \in {"done", "fatal"}

=============================================================================
