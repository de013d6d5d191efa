---------------------------- MODULE MiraWatcher ----------------------------
(***************************************************************************)
(* The Windows client's watcher of the local daemon's IPN bus             *)
(* (src/unnamed/part_000, MiraWatcher.Start, WatchDaemon and              *)
(* GetWatcherWithTimeout). Its goroutines:                                 *)
(*   - the watcher: Start waits for the service, then WatchDaemon makes up *)
(*     to three attempts to open the bus, reports WatcherUpEvent or the    *)
(*     error on Tx, and forwards every notification on Tx;                *)
(*   - per attempt, the two errgroup goroutines of GetWatcherWithTimeout: *)
(*     g1 calls WatchIPNBus, g2 waits for time.After(timeout) and cancels  *)
(*     the attempt's watchCtx;                                             *)
(*   - the interrupt goroutine, which cancels watchCtx on SIGINT/SIGTERM;  *)
(*   - the tray UI, which reads Tx (a channel of capacity 5).             *)
(* The daemon and the service are the environment (WindowsClient puts the *)
(* service of ServiceInstaller in its place). Only the kind of each        *)
(* message on Tx is kept: "up", "event" or "err".                          *)
(***************************************************************************)
EXTENDS Naturals, Sequences

CONSTANTS
    TxCap,        \* capacity of the Tx channel (5)
    Retries,      \* retryCounter's initial value (2): Retries + 1 attempts
    StartTick,    \* Start's service poll: ticker 1s
    StartAfter    \* against time.After(30s)

VARIABLES
    wPc,        \* the watcher goroutine
    waited,     \* seconds since Start's time.After was created
    svcUp,      \* isServiceRunning() would return true
    retry,      \* retryCounter
    g1,         \* the WatchIPNBus goroutine of the current attempt
    g2,         \* the timeout goroutine of the current attempt
    timerFired, \* the attempt's time.After channel is ready
    egDone,     \* the attempt's errgroup context is cancelled
    firstErr,   \* the first error an attempt goroutine returned
    cancelled,  \* the current attempt's watchCtx is cancelled
    broken,     \* the watcher's stream failed with a non-EOF error
    intSt,      \* the interrupt goroutine
    sigint,     \* SIGINT or SIGTERM was delivered to the interrupt channel
    tx,         \* the Tx channel
    lastSent    \* history: the last message the watcher put on Tx

vars == <<wPc, waited, svcUp, retry, g1, g2, timerFired, egDone, firstErr,
          cancelled, broken, intSt, sigint, tx, lastSent>>

AttemptVars == <<g1, g2, timerFired, egDone, firstErr>>
Msgs == {"up", "event", "err"}

-----------------------------------------------------------------------------
(* Helpers *)

\* Start's select between the 1s ticker and time.After(30s), as in
\* ServiceInstaller: the earlier one fires, either one on a tie.
SelectOutcome(w, tick, after) ==
    {c \in {"tick", "timeout"} :
        \/ c = "tick" /\ w + tick <= after
        \/ c = "timeout" /\ after <= w + tick}

\* w.Tx <- m: blocks while the channel is full.
CanSend == Len(tx) < TxCap
Send(m) == tx' = Append(tx, m) /\ lastSent' = m

\* errgroup.WithContext: the first non-nil error is kept and cancels egctx.
\* Every return of g1 and g2 is a non-nil error ("Watcher is OK" included).
Record(e) ==
    /\ firstErr' = IF firstErr = "none" THEN e ELSE firstErr
    /\ egDone' = TRUE

\* GetWatcherWithTimeout starts a fresh attempt.
NewAttempt ==
    /\ g1' = "start" /\ g2' = "waiting" /\ timerFired' = FALSE
    /\ egDone' = FALSE /\ firstErr' = "none"

Init ==
    /\ wPc = "start"
    /\ waited = 0
    /\ svcUp \in BOOLEAN
    /\ retry = Retries
    /\ g1 = "idle" /\ g2 = "idle" /\ timerFired = FALSE
    /\ egDone = FALSE /\ firstErr = "none"
    /\ cancelled = FALSE
    /\ broken = FALSE
    /\ intSt = "none"
    /\ sigint = FALSE
    /\ tx = <<>>
    /\ lastSent = "none"

-----------------------------------------------------------------------------
(* Start *)

\* if !isServiceRunning() { ElevateToInstallService() }: the elevation runs
\* the -install helper; a ShellExecute failure is log.Fatalf in the tray.
StartCheck ==
    /\ wPc = "start"
    /\ \/ svcUp /\ wPc' = "getw" /\ NewAttempt
       \/ ~svcUp /\ wPc' \in {"pollSvc", "exit"} /\ UNCHANGED AttemptVars
    /\ UNCHANGED <<waited, svcUp, retry, cancelled, broken, intSt, sigint, tx, lastSent>>

\* for !isServiceRunning() { select { ticker 1s, after 30s: Tx <- err } }
PollService ==
    /\ wPc = "pollSvc"
    /\ \/ svcUp /\ wPc' = "getw" /\ NewAttempt /\ UNCHANGED <<waited, tx, lastSent>>
       \/ /\ ~svcUp
          /\ \E c \in SelectOutcome(waited, StartTick, StartAfter) :
                IF c = "tick" THEN waited' = waited + StartTick /\ UNCHANGED <<wPc, tx, lastSent>>
                ELSE CanSend /\ Send("err") /\ wPc' = "done" /\ UNCHANGED waited
          /\ UNCHANGED AttemptVars
    /\ UNCHANGED <<svcUp, retry, cancelled, broken, intSt, sigint>>

-----------------------------------------------------------------------------
(* GetWatcherWithTimeout: the two errgroup goroutines *)

\* g1: select { case <-egctx.Done(): ...; default: WatchIPNBus(watchCtx) }
G1Start ==
    /\ g1 = "start"
    /\ IF egDone THEN g1' = "returned" /\ Record("canceled")
       ELSE g1' = "calling" /\ UNCHANGED <<egDone, firstErr>>
    /\ UNCHANGED <<wPc, waited, svcUp, retry, g2, timerFired, cancelled,
                   broken, intSt, sigint, tx, lastSent>>

\* The daemon answers WatchIPNBus: a watcher ("Watcher is OK") or an error.
G1Answer ==
    /\ g1 = "calling" /\ ~cancelled
    /\ g1' = "returned"
    /\ \E e \in {"ok", "fail"} : Record(e)
    /\ UNCHANGED <<wPc, waited, svcUp, retry, g2, timerFired, cancelled,
                   broken, intSt, sigint, tx, lastSent>>

\* WatchIPNBus returns the context's error once watchCtx is cancelled.
G1Canceled ==
    /\ g1 = "calling" /\ cancelled
    /\ g1' = "returned"
    /\ Record("canceled")
    /\ UNCHANGED <<wPc, waited, svcUp, retry, g2, timerFired, cancelled,
                   broken, intSt, sigint, tx, lastSent>>

\* time.After(timeout) fires.
TimerFire ==
    /\ g2 = "waiting" /\ ~timerFired
    /\ timerFired' = TRUE
    /\ UNCHANGED <<wPc, waited, svcUp, retry, g1, g2, egDone, firstErr,
                   cancelled, broken, intSt, sigint, tx, lastSent>>

\* Mutant: the timeout goroutine returns without cancelWatch().
G2SelectNoCancel ==
    /\ g2 = "waiting"
    /\ \/ egDone /\ g2' = "returned" /\ UNCHANGED <<egDone, firstErr>>
       \/ timerFired /\ g2' = "returned" /\ Record("timeout")
    /\ UNCHANGED <<wPc, waited, svcUp, retry, g1, timerFired, cancelled,
                   broken, intSt, sigint, tx, lastSent>>

\* g2: select { case <-egctx.Done(): return egctx.Err();
\*              case <-time.After(timeout): cancelWatch(); return timeout }
\* Either ready case may be taken. Cancelling watchCtx cancels egctx too.
G2Select ==
    /\ g2 = "waiting"
    /\ \/ egDone /\ g2' = "returned"
          /\ UNCHANGED <<egDone, firstErr, cancelled>>
       \/ timerFired /\ g2' = "returned" /\ Record("timeout")
          /\ cancelled' = TRUE
    /\ UNCHANGED <<wPc, waited, svcUp, retry, g1, timerFired, broken, intSt,
                   sigint, tx, lastSent>>

-----------------------------------------------------------------------------
(* WatchDaemon *)

\* Mutant: every failed attempt is reported on Tx before it is retried.
AttemptDoneReportEach ==
    /\ wPc = "getw" /\ g1 = "returned" /\ g2 = "returned"
    /\ \/ firstErr = "ok" /\ CanSend /\ Send("up") /\ wPc' = "watch"
          /\ intSt' = "waiting" /\ UNCHANGED <<retry, cancelled, AttemptVars>>
       \/ firstErr # "ok" /\ retry = 0 /\ CanSend /\ Send("err")
          /\ wPc' = "done" /\ cancelled' = TRUE
          /\ UNCHANGED <<retry, intSt, AttemptVars>>
       \/ firstErr # "ok" /\ retry > 0 /\ retry' = retry - 1
          /\ cancelled' = FALSE /\ NewAttempt /\ CanSend /\ Send("err")
          /\ UNCHANGED <<wPc, intSt>>
    /\ UNCHANGED <<waited, svcUp, broken, sigint>>

\* err = eg.Wait(), then the retry loop: "Watcher is OK" sends
\* WatcherUpEvent and starts the interrupt goroutine; with retryCounter 0
\* the error is sent and WatchDaemon returns (running its deferred
\* cancelWatch calls); otherwise it sleeps 1s and makes a new attempt with
\* a fresh watchCtx.
AttemptDone ==
    /\ wPc = "getw" /\ g1 = "returned" /\ g2 = "returned"
    /\ \/ firstErr = "ok" /\ CanSend /\ Send("up") /\ wPc' = "watch"
          /\ intSt' = "waiting" /\ UNCHANGED <<retry, cancelled, AttemptVars>>
       \/ firstErr # "ok" /\ retry = 0 /\ CanSend /\ Send("err")
          /\ wPc' = "done" /\ cancelled' = TRUE
          /\ UNCHANGED <<retry, intSt, AttemptVars>>
       \/ firstErr # "ok" /\ retry > 0 /\ retry' = retry - 1
          /\ cancelled' = FALSE /\ NewAttempt
          /\ UNCHANGED <<wPc, intSt, tx, lastSent>>
    /\ UNCHANGED <<waited, svcUp, broken, sigint>>

\* n, err := watcher.Next() once watchCtx is cancelled, or the stream failed
\* before: Next returns at once with a non-EOF error (the context's error
\* or the decoder's sticky one); it is sent and the loop continues.
WatchNextFailed ==
    /\ wPc = "watch" /\ CanSend
    /\ cancelled \/ broken
    /\ Send("err")
    /\ UNCHANGED <<wPc, waited, svcUp, retry, cancelled, broken, intSt, sigint,
                   AttemptVars>>

\* n, err := watcher.Next() on a live stream: the daemon sends a
\* notification (forwarded), closes the stream (EOF: the error is sent and
\* WatchDaemon returns, running its deferred cancelWatch), fails it with
\* another error (sent; the loop continues), or asks for a login URL.
WatchNext ==
    /\ wPc = "watch" /\ CanSend
    /\ ~cancelled /\ ~broken
    /\ \/ Send("event") /\ UNCHANGED <<wPc, cancelled, broken>>
       \/ Send("err") /\ wPc' = "done" /\ cancelled' = TRUE /\ UNCHANGED broken
       \/ Send("err") /\ broken' = TRUE /\ UNCHANGED <<wPc, cancelled>>
       \/ wPc' = "prefs" /\ UNCHANGED <<cancelled, broken, tx, lastSent>>
    /\ UNCHANGED <<waited, svcUp, retry, intSt, sigint, AttemptVars>>

\* BrowseToURL: prefs, err := LC.GetPrefs(ctx); on error "break" leaves the
\* for loop, and WatchDaemon returns; otherwise the URL may be opened.
GetPrefs ==
    /\ wPc = "prefs"
    /\ \/ wPc' = "watch" /\ UNCHANGED cancelled
       \/ wPc' = "done" /\ cancelled' = TRUE
    /\ UNCHANGED <<waited, svcUp, retry, broken, intSt, sigint, tx, lastSent,
                   AttemptVars>>

\* The interrupt goroutine: select { <-interrupt: cancelWatch(); <-watchCtx.Done() }
Interrupt ==
    /\ intSt = "waiting"
    /\ \/ sigint /\ cancelled' = TRUE
       \/ cancelled /\ UNCHANGED cancelled
    /\ intSt' = "done"
    /\ UNCHANGED <<wPc, waited, svcUp, retry, broken, sigint, tx, lastSent,
                   AttemptVars>>

-----------------------------------------------------------------------------
(* The environment *)

\* The -install helper brings the service up.
ServiceUp ==
    /\ ~svcUp /\ svcUp' = TRUE
    /\ UNCHANGED <<wPc, waited, retry, cancelled, broken, intSt, sigint, tx,
                   lastSent, AttemptVars>>

\* Ctrl-C or a termination request reaches the notified channel.
SendInterrupt ==
    /\ intSt = "waiting" /\ ~sigint
    /\ sigint' = TRUE
    /\ UNCHANGED <<wPc, waited, svcUp, retry, cancelled, broken, intSt, tx,
                   lastSent, AttemptVars>>

\* The tray UI reads one message from Tx.
Consume ==
    /\ tx # <<>>
    /\ tx' = Tail(tx)
    /\ UNCHANGED <<wPc, waited, svcUp, retry, cancelled, broken, intSt, sigint,
                   lastSent, AttemptVars>>

Next ==
    \/ StartCheck \/ PollService
    \/ G1Start \/ G1Answer \/ G1Canceled \/ TimerFire \/ G2Select
    \/ AttemptDone \/ WatchNextFailed \/ WatchNext \/ GetPrefs \/ Interrupt
    \/ ServiceUp \/ SendInterrupt \/ Consume

\* Every goroutine step is scheduled and the timers fire; the tray keeps
\* reading Tx. Whether the daemon answers WatchIPNBus, sends notifications,
\* or the service comes up, and whether a signal arrives, is not assumed.
Fairness ==
    /\ WF_vars(StartCheck) /\ WF_vars(PollService)
    /\ WF_vars(G1Start) /\ WF_vars(G1Canceled) /\ WF_vars(TimerFire)
    /\ WF_vars(G2Select) /\ WF_vars(AttemptDone) /\ WF_vars(WatchNextFailed)
    /\ WF_vars(GetPrefs)
    /\ WF_vars(Interrupt) /\ WF_vars(Consume)

Spec == Init /\ [][Next]_vars
FairSpec == Spec /\ Fairness

-----------------------------------------------------------------------------
(* Properties *)

\* Every variable holds a value of its kind, and Tx never holds more than
\* its capacity.
TypeOK ==
    /\ wPc \in {"start", "pollSvc", "getw", "watch", "prefs", "done", "exit"}
    /\ waited \in 0..StartAfter /\ svcUp \in BOOLEAN /\ retry \in 0..Retries
    /\ g1 \in {"idle", "start", "calling", "returned"}
    /\ g2 \in {"idle", "waiting", "returned"}
    /\ {timerFired, egDone, cancelled, broken, sigint} \subseteq BOOLEAN
    /\ firstErr \in {"none", "ok", "fail", "timeout", "canceled"}
    /\ intSt \in {"none", "waiting", "done"}
    /\ tx \in Seq(Msgs) /\ Len(tx) <= TxCap
    /\ lastSent \in Msgs \cup {"none"}

\* Start always tells the tray how it went: whether the daemon never
\* answers, the service never comes up or every attempt fails, WatcherUpEvent
\* or an error is eventually put on Tx (unless the tray itself exits).
StartReports == <>(lastSent \in {"up", "err"} \/ wPc = "exit")

=============================================================================
