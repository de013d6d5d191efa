------------------------- MODULE WindowsClientProofs -------------------------
(***************************************************************************)
(* Machine-checked proof that the composed Windows client is well typed  *)
(* for every value of the constants: the poll waits stay within their     *)
(* deadlines, the delete wait within its rounds, the crashes within their *)
(* bound and Tx within its capacity, whatever the tray, the helpers and   *)
(* the service manager interleave.                                        *)
(***************************************************************************)
EXTENDS WindowsClient, SequenceTheorems, TLAPS

\* The numeric constants are natural numbers.
LEMMA ConstNat ==
    /\ {InstallTick, InstallAfter, StartTick, StartAfter, UninstallTick,
        UninstallAfter, WatchTick, WatchAfter, DeleteWaitPolls, MaxCrashes,
        TxCap, Retries} \subseteq Nat
    /\ TxCap > 0
<1>1. \A t \in {InstallTick, InstallAfter, StartTick, StartAfter,
                UninstallTick, UninstallAfter, WatchTick, WatchAfter} : t \in Nat
  BY TimerAssumption, Zenon
<1>2. TxCap \in Nat /\ TxCap > 0
  BY WatcherAssumption
<1>3. QED
  BY <1>1, <1>2, PollAssumption, WatcherAssumption, Zenon

\* The larger of the two installer deadlines bounds both.
LEMMA MaxWaitBounds ==
    /\ Inst!MaxWait \in Nat
    /\ InstallAfter <= Inst!MaxWait /\ StartAfter <= Inst!MaxWait
BY ConstNat DEF Inst!MaxWait

\* A tick taken in a select leaves the wait within the deadline.
LEMMA TickWithinDeadline ==
    ASSUME NEW w \in Nat, NEW t \in Nat, NEW a \in Nat,
           "tick" \in Inst!SelectOutcome(w, t, a)
    PROVE  w + t \in 0..a
BY DEF Inst!SelectOutcome

\* w.Tx <- m into a free slot keeps Tx a sequence of messages within its
\* capacity.
LEMMA SendKeepsTx ==
    ASSUME Watch!TypeOK, NEW m \in Watch!Msgs, Watch!CanSend, Watch!Send(m)
    PROVE  /\ tx' \in Seq(Watch!Msgs) /\ Len(tx') <= TxCap
           /\ lastSent' \in Watch!Msgs \cup {"none"}
<1>1. Append(tx, m) \in Seq(Watch!Msgs) /\ Len(Append(tx, m)) = Len(tx) + 1
  BY AppendProperties DEF Watch!TypeOK
<1>2. QED
  BY <1>1, ConstNat DEF Watch!TypeOK, Watch!CanSend, Watch!Send

-----------------------------------------------------------------------------
(* Steps of the helpers and the service manager *)

\* A helper or SCM step keeps the installer's part well typed.
LEMMA HelperStep ==
    ASSUME Inst!TypeOK,
           \/ Inst!InstallCheck \/ Inst!PollInstalled \/ Inst!CheckRunning
           \/ Inst!StartQuery \/ Inst!StartCall \/ Inst!PollRunning
           \/ Inst!LaunchInstaller
           \/ Inst!LaunchUninstaller \/ Inst!UninstallCheck
           \/ Inst!UninstallService \/ Inst!DeleteWait \/ Inst!UninstallPoll
           \/ Inst!ServiceStarted \/ Inst!ServiceStartFailed
           \/ Inst!ServiceStopped \/ Inst!ServiceCrash \/ Inst!ServiceRecover
    PROVE  Inst!TypeOK'
<1> USE ConstNat, MaxWaitBounds
<1>1. CASE Inst!InstallCheck
  <2>1. instWaited' = 0 /\ UNCHANGED <<unPc, unPolls>>
    BY <1>1 DEF Inst!InstallCheck, Inst!UnVars
  <2>2. instPc' \in Inst!InstPcs
    BY <1>1 DEF Inst!InstallCheck, Inst!InstPcs
  <2>3. /\ svc' \in Inst!SvcStates /\ marked' \in BOOLEAN
        /\ recovery' \in BOOLEAN /\ recovering' \in BOOLEAN
        /\ crashes' \in 0..MaxCrashes
    BY <1>1 DEF Inst!InstallCheck, Inst!TypeOK, Inst!SvcVars, Inst!SvcStates
  <2>4. QED
    BY <2>1, <2>2, <2>3 DEF Inst!TypeOK
<1>2. CASE Inst!PollInstalled
  <2>1. instWaited' \in 0..Inst!MaxWait
    <3>1. CASE Inst!Installed
      BY <1>2, <3>1 DEF Inst!PollInstalled, Inst!TypeOK
    <3>2. CASE ~Inst!Installed
      <4>1. PICK c \in Inst!SelectOutcome(instWaited, InstallTick, InstallAfter) :
              IF c = "tick" THEN instPc' = "pollInst" /\ instWaited' = instWaited + InstallTick
              ELSE instPc' = "fatal" /\ UNCHANGED instWaited
        BY <1>2, <3>2 DEF Inst!PollInstalled
      <4>2. c = "tick" => instWaited + InstallTick \in 0..InstallAfter
        BY TickWithinDeadline DEF Inst!TypeOK
      <4>3. QED
        BY <4>1, <4>2 DEF Inst!TypeOK
    <3>3. QED
      BY <3>1, <3>2
  <2>2. QED
    BY <1>2, <2>1 DEF Inst!PollInstalled, Inst!TypeOK, Inst!InstPcs,
                      Inst!SvcVars, Inst!UnVars
<1>3. CASE Inst!CheckRunning
  BY <1>3 DEF Inst!CheckRunning, Inst!TypeOK, Inst!InstPcs, Inst!SvcVars, Inst!UnVars
<1>4. CASE Inst!StartQuery
  BY <1>4 DEF Inst!StartQuery, Inst!TypeOK, Inst!InstPcs, Inst!SvcVars, Inst!UnVars
<1>5. CASE Inst!StartCall
  BY <1>5 DEF Inst!StartCall, Inst!TypeOK, Inst!InstPcs, Inst!UnVars, Inst!SvcStates
<1>6. CASE Inst!PollRunning
  <2>1. instWaited' \in 0..Inst!MaxWait
    <3>1. CASE svc = "running"
      BY <1>6, <3>1 DEF Inst!PollRunning, Inst!TypeOK
    <3>2. CASE svc # "running"
      <4>1. PICK c \in Inst!SelectOutcome(instWaited, StartTick, StartAfter) :
              IF c = "tick" THEN instPc' = "startWait" /\ instWaited' = instWaited + StartTick
              ELSE instPc' = "fatal" /\ UNCHANGED instWaited
        BY <1>6, <3>2 DEF Inst!PollRunning
      <4>2. c = "tick" => instWaited + StartTick \in 0..StartAfter
        BY TickWithinDeadline DEF Inst!TypeOK
      <4>3. QED
        BY <4>1, <4>2 DEF Inst!TypeOK
    <3>3. QED
      BY <3>1, <3>2
  <2>2. QED
    BY <1>6, <2>1 DEF Inst!PollRunning, Inst!TypeOK, Inst!InstPcs,
                      Inst!SvcVars, Inst!UnVars
<1>7. CASE Inst!LaunchInstaller
  BY <1>7 DEF Inst!LaunchInstaller, Inst!TypeOK, Inst!InstPcs, Inst!SvcVars, Inst!UnVars
<1>8. CASE Inst!LaunchUninstaller
  BY <1>8 DEF Inst!LaunchUninstaller, Inst!TypeOK, Inst!UnPcs, Inst!SvcVars, Inst!InstVars
<1>9. CASE Inst!UninstallCheck
  BY <1>9 DEF Inst!UninstallCheck, Inst!TypeOK, Inst!UnPcs, Inst!SvcVars, Inst!InstVars
<1>10. CASE Inst!UninstallService
  <2>1. /\ unPc' \in Inst!UnPcs /\ unPolls' = 0
        /\ UNCHANGED <<instPc, instWaited>>
    BY <1>10 DEF Inst!UninstallService, Inst!UnPcs, Inst!InstVars
  <2>2. svc' \in Inst!SvcStates
    BY <1>10 DEF Inst!UninstallService, Inst!TypeOK, Inst!SvcStates, Inst!SvcVars
  <2>3. marked' \in BOOLEAN
    BY <1>10 DEF Inst!UninstallService, Inst!TypeOK, Inst!SvcVars
  <2>4. UNCHANGED <<recovery, recovering, crashes>>
    BY <1>10 DEF Inst!UninstallService, Inst!SvcVars
  <2>5. QED
    BY <2>1, <2>2, <2>3, <2>4 DEF Inst!TypeOK
<1>11. CASE Inst!DeleteWait
  BY <1>11 DEF Inst!DeleteWait, Inst!TypeOK, Inst!UnPcs, Inst!SvcVars, Inst!InstVars
<1>12. CASE Inst!UninstallPoll
  BY <1>12 DEF Inst!UninstallPoll, Inst!TypeOK, Inst!UnPcs, Inst!SvcVars, Inst!InstVars
<1>13. CASE Inst!ServiceStarted
  BY <1>13 DEF Inst!ServiceStarted, Inst!TypeOK, Inst!InstVars, Inst!UnVars, Inst!SvcStates
<1>14. CASE Inst!ServiceStartFailed
  BY <1>14 DEF Inst!ServiceStartFailed, Inst!Halt, Inst!TypeOK, Inst!InstVars,
               Inst!UnVars, Inst!SvcStates
<1>15. CASE Inst!ServiceStopped
  BY <1>15 DEF Inst!ServiceStopped, Inst!Halt, Inst!TypeOK, Inst!InstVars,
               Inst!UnVars, Inst!SvcStates
<1>16. CASE Inst!ServiceCrash
  <2>1. crashes' \in 0..MaxCrashes
    BY <1>16 DEF Inst!ServiceCrash, Inst!TypeOK
  <2>2. /\ svc' \in Inst!SvcStates /\ marked' \in BOOLEAN
        /\ recovering' \in BOOLEAN
    BY <1>16 DEF Inst!ServiceCrash, Inst!Halt, Inst!TypeOK, Inst!SvcStates
  <2>3. QED
    BY <1>16, <2>1, <2>2 DEF Inst!ServiceCrash, Inst!TypeOK, Inst!InstVars, Inst!UnVars
<1>17. CASE Inst!ServiceRecover
  BY <1>17 DEF Inst!ServiceRecover, Inst!TypeOK, Inst!InstVars, Inst!UnVars,
               Inst!SvcStates
<1>18. QED
  BY <1>1, <1>2, <1>3, <1>4, <1>5, <1>6, <1>7, <1>8, <1>9, <1>10, <1>11,
     <1>12, <1>13, <1>14, <1>15, <1>16, <1>17


-----------------------------------------------------------------------------
(* Steps of the watcher's goroutines, the tray and the signal *)

\* A watcher step keeps the watcher's part well typed: the wait stays
\* within Start's deadline and a send happens only into a free slot of Tx.
LEMMA WatcherStep ==
    ASSUME Watch!TypeOK,
           \/ Watch!StartCheck \/ Watch!PollService \/ Watch!G1Start
           \/ Watch!G1Answer \/ Watch!G1Canceled \/ Watch!TimerFire
           \/ Watch!G2Select \/ Watch!AttemptDone \/ Watch!WatchNextFailed
           \/ Watch!WatchNext \/ Watch!GetPrefs \/ Watch!Interrupt
           \/ Watch!SendInterrupt \/ Watch!Consume
    PROVE  Watch!TypeOK'
<1> USE ConstNat
<1>1. CASE Watch!StartCheck
  BY <1>1 DEF Watch!StartCheck, Watch!TypeOK, Watch!NewAttempt, Watch!AttemptVars
<1>2. CASE Watch!PollService
  <2>1. CASE svc = "running"
    BY <1>2, <2>1 DEF Watch!PollService, Watch!TypeOK, Watch!NewAttempt
  <2>2. CASE svc # "running"
    <3>1. PICK c \in Watch!SelectOutcome(waited, WatchTick, WatchAfter) :
            IF c = "tick" THEN waited' = waited + WatchTick /\ UNCHANGED <<wPc, tx, lastSent>>
            ELSE Watch!CanSend /\ Watch!Send("err") /\ wPc' = "done" /\ UNCHANGED waited
      BY <1>2, <2>2 DEF Watch!PollService
    <3>2. c = "tick" => waited + WatchTick \in 0..WatchAfter
      BY TickWithinDeadline DEF Watch!TypeOK, Watch!SelectOutcome, Inst!SelectOutcome
    <3>3. ASSUME c = "tick"
          PROVE  /\ waited' \in 0..WatchAfter /\ tx' \in Seq(Watch!Msgs) /\ Len(tx') <= TxCap
                 /\ wPc' \in {"pollSvc", "done"} /\ lastSent' \in Watch!Msgs \cup {"none"}
      <4>1. waited' = waited + WatchTick /\ UNCHANGED <<wPc, tx, lastSent>>
        BY <3>1, <3>3
      <4>2. wPc = "pollSvc"
        BY <1>2 DEF Watch!PollService
      <4>3. waited' \in 0..WatchAfter
        BY <3>2, <3>3, <4>1
      <4>4. QED
        BY <4>1, <4>2, <4>3 DEF Watch!TypeOK
    <3>4. ASSUME c # "tick"
          PROVE  /\ waited' \in 0..WatchAfter /\ tx' \in Seq(Watch!Msgs) /\ Len(tx') <= TxCap
                 /\ wPc' \in {"pollSvc", "done"} /\ lastSent' \in Watch!Msgs \cup {"none"}
      <4>1. Watch!CanSend /\ Watch!Send("err") /\ wPc' = "done" /\ UNCHANGED waited
        BY <3>1, <3>4
      <4>2. tx' \in Seq(Watch!Msgs) /\ Len(tx') <= TxCap /\ lastSent' \in Watch!Msgs \cup {"none"}
        BY <4>1, SendKeepsTx DEF Watch!Msgs
      <4>3. QED
        BY <4>1, <4>2 DEF Watch!TypeOK
    <3>5. waited' \in 0..WatchAfter /\ tx' \in Seq(Watch!Msgs) /\ Len(tx') <= TxCap
          /\ wPc' \in {"pollSvc", "done"} /\ lastSent' \in Watch!Msgs \cup {"none"}
      BY <3>3, <3>4
    <3>6. QED
      BY <1>2, <2>2, <3>5 DEF Watch!PollService, Watch!TypeOK, Watch!AttemptVars
  <2>3. QED
    BY <2>1, <2>2
<1>3. CASE Watch!G1Start
  BY <1>3 DEF Watch!G1Start, Watch!TypeOK, Watch!Record
<1>4. CASE Watch!G1Answer
  BY <1>4 DEF Watch!G1Answer, Watch!TypeOK, Watch!Record
<1>5. CASE Watch!G1Canceled
  BY <1>5 DEF Watch!G1Canceled, Watch!TypeOK, Watch!Record
<1>6. CASE Watch!TimerFire
  BY <1>6 DEF Watch!TimerFire, Watch!TypeOK
<1>7. CASE Watch!G2Select
  BY <1>7 DEF Watch!G2Select, Watch!TypeOK, Watch!Record
<1>8. CASE Watch!AttemptDone
  <2>1. CASE firstErr = "ok"
    <3>1. /\ Watch!CanSend /\ Watch!Send("up") /\ wPc' = "watch" /\ intSt' = "waiting"
          /\ UNCHANGED <<retry, cancelled, g1, g2, timerFired, egDone, firstErr,
                         waited, broken, sigint>>
      BY <1>8, <2>1 DEF Watch!AttemptDone, Watch!AttemptVars
    <3>2. tx' \in Seq(Watch!Msgs) /\ Len(tx') <= TxCap /\ lastSent' \in Watch!Msgs \cup {"none"}
      BY <3>1, SendKeepsTx DEF Watch!Msgs
    <3>3. QED
      BY <3>1, <3>2 DEF Watch!TypeOK
  <2>2. CASE firstErr # "ok" /\ retry = 0
    <3>1. /\ Watch!CanSend /\ Watch!Send("err") /\ wPc' = "done" /\ cancelled' = TRUE
          /\ UNCHANGED <<retry, intSt, g1, g2, timerFired, egDone, firstErr,
                         waited, broken, sigint>>
      BY <1>8, <2>2 DEF Watch!AttemptDone, Watch!AttemptVars
    <3>2. tx' \in Seq(Watch!Msgs) /\ Len(tx') <= TxCap /\ lastSent' \in Watch!Msgs \cup {"none"}
      BY <3>1, SendKeepsTx DEF Watch!Msgs
    <3>3. QED
      BY <3>1, <3>2 DEF Watch!TypeOK
  <2>3. CASE firstErr # "ok" /\ retry # 0
    <3>1. /\ retry > 0 /\ retry' = retry - 1
          /\ cancelled' = FALSE /\ Watch!NewAttempt
          /\ UNCHANGED <<wPc, intSt, tx, lastSent, waited, broken, sigint>>
      BY <1>8, <2>3 DEF Watch!AttemptDone, Watch!TypeOK
    <3>2. retry' \in 0..Retries
      BY <3>1 DEF Watch!TypeOK
    <3>3. QED
      BY <3>1, <3>2 DEF Watch!TypeOK, Watch!NewAttempt
  <2>4. QED
    BY <2>1, <2>2, <2>3
<1>9. CASE Watch!WatchNextFailed
  <2>1. tx' \in Seq(Watch!Msgs) /\ Len(tx') <= TxCap /\ lastSent' \in Watch!Msgs \cup {"none"}
    BY <1>9, SendKeepsTx DEF Watch!WatchNextFailed, Watch!Msgs
  <2>2. QED
    BY <1>9, <2>1 DEF Watch!WatchNextFailed, Watch!TypeOK, Watch!AttemptVars
<1>10. CASE Watch!WatchNext
  <2>1. tx' \in Seq(Watch!Msgs) /\ Len(tx') <= TxCap /\ lastSent' \in Watch!Msgs \cup {"none"}
    <3>1. CASE wPc' = "prefs" /\ UNCHANGED <<cancelled, broken, tx, lastSent>>
      BY <3>1 DEF Watch!TypeOK
    <3>2. CASE \E m \in {"event", "err"} : Watch!Send(m)
      BY <1>10, <3>2, SendKeepsTx DEF Watch!WatchNext, Watch!Msgs
    <3>3. QED
      BY <1>10, <3>1, <3>2 DEF Watch!WatchNext
  <2>2. QED
    BY <1>10, <2>1 DEF Watch!WatchNext, Watch!TypeOK, Watch!AttemptVars
<1>11. CASE Watch!GetPrefs
  BY <1>11 DEF Watch!GetPrefs, Watch!TypeOK, Watch!AttemptVars
<1>12. CASE Watch!Interrupt
  BY <1>12 DEF Watch!Interrupt, Watch!TypeOK, Watch!AttemptVars
<1>13. CASE Watch!SendInterrupt
  BY <1>13 DEF Watch!SendInterrupt, Watch!TypeOK, Watch!AttemptVars
<1>14. CASE Watch!Consume
  BY <1>14 DEF Watch!Consume, Watch!TypeOK, Watch!AttemptVars
<1>15. QED
  BY <1>1, <1>2, <1>3, <1>4, <1>5, <1>6, <1>7, <1>8, <1>9, <1>10, <1>11,
     <1>12, <1>13, <1>14


-----------------------------------------------------------------------------
(* The composition *)

\* A step that leaves the helpers and the service alone keeps their part
\* well typed.
LEMMA InstFrame ==
    ASSUME Inst!TypeOK, UNCHANGED Ivars
    PROVE  Inst!TypeOK'
BY DEF Inst!TypeOK, Ivars

\* A step that leaves the watcher alone keeps its part well typed: what it
\* reads of the service, whether it runs, stays a Boolean.
LEMMA WatchFrame ==
    ASSUME Watch!TypeOK, UNCHANGED Wvars
    PROVE  Watch!TypeOK'
BY DEF Watch!TypeOK, Wvars

\* The initial states are well typed.
LEMMA TypeInit == Init => TypeOK
<1>1. Inst!Init => Inst!TypeOK
  <2> SUFFICES ASSUME Inst!Init PROVE Inst!TypeOK
    OBVIOUS
  <2>1. 0 \in 0..MaxCrashes /\ 0 \in 0..Inst!MaxWait /\ 0 \in 0..DeleteWaitPolls
    BY ConstNat, MaxWaitBounds
  <2>2. QED
    BY <2>1 DEF Inst!Init, Inst!TypeOK, Inst!SvcStates, Inst!InstPcs, Inst!UnPcs
<1>2. Watch!Init => Watch!TypeOK
  <2> SUFFICES ASSUME Watch!Init PROVE Watch!TypeOK
    OBVIOUS
  <2>1. 0 \in 0..WatchAfter /\ Retries \in 0..Retries /\ 0 <= TxCap
    BY ConstNat
  <2>2. <<>> \in Seq(Watch!Msgs) /\ Len(<<>>) = 0
    OBVIOUS
  <2>3. QED
    BY <2>1, <2>2 DEF Watch!Init, Watch!TypeOK
<1>3. QED
  BY <1>1, <1>2 DEF Init, TypeOK

\* Every step of the composed client, the tray start included, keeps it
\* well typed.
LEMMA TypeStep == TypeOK /\ [Next]_vars => TypeOK'
<1> SUFFICES ASSUME TypeOK, [Next]_vars PROVE TypeOK'
  OBVIOUS
<1>1. CASE Inst!LaunchInstaller /\ Watch!StartCheck /\ wPc' = "pollSvc"
  BY <1>1, HelperStep, WatcherStep DEF TypeOK
<1>2. CASE UNCHANGED Ivars /\ Watch!StartCheck /\ wPc' # "pollSvc"
  BY <1>2, InstFrame, WatcherStep DEF TypeOK
<1>3. CASE \/ W(Watch!PollService) \/ W(Watch!G1Start) \/ W(Watch!G1Answer)
           \/ W(Watch!G1Canceled) \/ W(Watch!TimerFire) \/ W(Watch!G2Select)
           \/ W(Watch!AttemptDone) \/ W(Watch!WatchNextFailed) \/ W(Watch!WatchNext)
           \/ W(Watch!GetPrefs) \/ W(Watch!Interrupt) \/ W(Watch!SendInterrupt)
           \/ W(Watch!Consume)
  <2>1. UNCHANGED Ivars
    BY <1>3 DEF W
  <2>2. \/ Watch!PollService \/ Watch!G1Start \/ Watch!G1Answer
        \/ Watch!G1Canceled \/ Watch!TimerFire \/ Watch!G2Select
        \/ Watch!AttemptDone \/ Watch!WatchNextFailed \/ Watch!WatchNext
        \/ Watch!GetPrefs \/ Watch!Interrupt \/ Watch!SendInterrupt
        \/ Watch!Consume
    BY <1>3, Zenon DEF W
  <2>3. QED
    BY <2>1, <2>2, InstFrame, WatcherStep DEF TypeOK
<1>4. CASE \/ I(Inst!InstallCheck) \/ I(Inst!PollInstalled) \/ I(Inst!CheckRunning)
           \/ I(Inst!StartQuery) \/ I(Inst!StartCall) \/ I(Inst!PollRunning)
           \/ I(Inst!LaunchUninstaller) \/ I(Inst!UninstallCheck)
           \/ I(Inst!UninstallService) \/ I(Inst!DeleteWait) \/ I(Inst!UninstallPoll)
           \/ I(Inst!ServiceStarted) \/ I(Inst!ServiceStartFailed)
           \/ I(Inst!ServiceStopped) \/ I(Inst!ServiceCrash) \/ I(Inst!ServiceRecover)
  <2>1. UNCHANGED Wvars
    BY <1>4 DEF I
  <2>2. \/ Inst!InstallCheck \/ Inst!PollInstalled \/ Inst!CheckRunning
        \/ Inst!StartQuery \/ Inst!StartCall \/ Inst!PollRunning
        \/ Inst!LaunchUninstaller \/ Inst!UninstallCheck
        \/ Inst!UninstallService \/ Inst!DeleteWait \/ Inst!UninstallPoll
        \/ Inst!ServiceStarted \/ Inst!ServiceStartFailed
        \/ Inst!ServiceStopped \/ Inst!ServiceCrash \/ Inst!ServiceRecover
    BY <1>4, Zenon DEF I
  <2>3. QED
    BY <2>1, <2>2, HelperStep, WatchFrame DEF TypeOK
<1>5. CASE UNCHANGED vars
  BY <1>5, InstFrame, WatchFrame DEF TypeOK, vars
<1>6. QED
  BY <1>1, <1>2, <1>3, <1>4, <1>5 DEF Next, TrayStart

\* Type correctness of the composed client: in every behaviour, the
\* installer's waits stay within their deadlines, the uninstaller's delete
\* wait within its rounds, the service's crashes within their bound, the
\* watcher's retries within Retries and Tx within TxCap, however the tray,
\* the helpers and the SCM interleave.
THEOREM ClientTypeCorrect == Spec => []TypeOK
BY TypeInit, TypeStep, PTL DEF Spec

-----------------------------------------------------------------------------
(* Refinement of the tray protocol *)

\* A step that moves neither Start nor WatchDaemon and sends nothing is a
\* stutter of the protocol.
LEMMA TrayStutter ==
    ASSUME UNCHANGED <<wPc, tx, lastSent>>
    PROVE  [Tray!Next]_Tray!vars
BY DEF Tray!vars, TrayPhase

\* The watcher starts in the protocol's initial state.
LEMMA TrayInit == Init => Tray!Init
BY DEF Init, Watch!Init, Tray!Init, TrayPhase

\* Every step of the composed client is a protocol step or a stutter.
LEMMA TrayStep == TypeOK /\ [Next]_vars => [Tray!Next]_Tray!vars
<1> SUFFICES ASSUME TypeOK, [Next]_vars PROVE [Tray!Next]_Tray!vars
  OBVIOUS
<1>1. CASE TrayStart
  <2>1. wPc = "start" /\ UNCHANGED <<tx, lastSent>>
        /\ wPc' \in {"pollSvc", "getw", "exit"}
    BY <1>1 DEF TrayStart, Watch!StartCheck
  <2>2. CASE wPc' \in {"pollSvc", "getw"}
    BY <2>1, <2>2 DEF Tray!vars, TrayPhase
  <2>3. CASE wPc' = "exit"
    <3>1. Tray!Stop
      BY <2>1, <2>3 DEF Tray!Stop, TrayPhase
    <3>2. QED
      BY <3>1 DEF Tray!Next
  <2>4. QED
    BY <2>1, <2>2, <2>3
<1>2. CASE W(Watch!PollService)
  <2>1. wPc = "pollSvc"
    BY <1>2 DEF W, Watch!PollService
  <2>2. \/ wPc' \in {"pollSvc", "getw"} /\ UNCHANGED <<tx, lastSent>>
        \/ wPc' = "done" /\ Watch!Send("err")
    <3>1. CASE svc = "running"
      BY <1>2, <3>1 DEF W, Watch!PollService
    <3>2. CASE svc # "running"
      <4>1. PICK c \in Watch!SelectOutcome(waited, WatchTick, WatchAfter) :
              IF c = "tick" THEN waited' = waited + WatchTick /\ UNCHANGED <<wPc, tx, lastSent>>
              ELSE Watch!CanSend /\ Watch!Send("err") /\ wPc' = "done" /\ UNCHANGED waited
        BY <1>2, <3>2 DEF W, Watch!PollService
      <4>2. QED
        BY <2>1, <4>1
    <3>3. QED
      BY <3>1, <3>2
  <2>3. CASE wPc' \in {"pollSvc", "getw"} /\ UNCHANGED <<tx, lastSent>>
    BY <2>1, <2>3 DEF Tray!vars, TrayPhase
  <2>4. CASE wPc' = "done" /\ Watch!Send("err")
    <3>1. Tray!Fail
      BY <2>1, <2>4 DEF Tray!Fail, Tray!Post, Watch!Send, TrayPhase
    <3>2. QED
      BY <3>1 DEF Tray!Next
  <2>5. QED
    BY <2>2, <2>3, <2>4
<1>3. CASE \/ W(Watch!G1Start) \/ W(Watch!G1Answer) \/ W(Watch!G1Canceled)
           \/ W(Watch!TimerFire) \/ W(Watch!G2Select) \/ W(Watch!Interrupt)
           \/ W(Watch!SendInterrupt)
  <2>1. UNCHANGED <<wPc, tx, lastSent>>
    BY <1>3 DEF W, Watch!G1Start, Watch!G1Answer, Watch!G1Canceled, Watch!TimerFire,
                Watch!G2Select, Watch!Interrupt, Watch!SendInterrupt
  <2>2. QED
    BY <2>1, TrayStutter
<1>4. CASE W(Watch!AttemptDone)
  <2>1. wPc = "getw"
    BY <1>4 DEF W, Watch!AttemptDone
  <2>2. CASE firstErr = "ok"
    <3>1. Tray!Up
      BY <1>4, <2>1, <2>2 DEF W, Watch!AttemptDone, Watch!Send, Tray!Up, Tray!Post, TrayPhase
    <3>2. QED
      BY <3>1 DEF Tray!Next
  <2>3. CASE firstErr # "ok" /\ retry = 0
    <3>1. Tray!Fail
      BY <1>4, <2>1, <2>3 DEF W, Watch!AttemptDone, Watch!Send, Tray!Fail, Tray!Post, TrayPhase
    <3>2. QED
      BY <3>1 DEF Tray!Next
  <2>4. CASE firstErr # "ok" /\ retry # 0
    <3>1. UNCHANGED <<wPc, tx, lastSent>>
      BY <1>4, <2>4 DEF W, Watch!AttemptDone
    <3>2. QED
      BY <3>1, TrayStutter
  <2>5. QED
    BY <2>2, <2>3, <2>4
<1>5. CASE W(Watch!WatchNextFailed)
  <2>1. Tray!Forward
    BY <1>5 DEF W, Watch!WatchNextFailed, Watch!Send, Tray!Forward, Tray!Post, TrayPhase
  <2>2. QED
    BY <2>1 DEF Tray!Next
<1>6. CASE W(Watch!WatchNext)
  <2>1. wPc = "watch"
    BY <1>6 DEF W, Watch!WatchNext
  <2>2. \/ \E m \in {"event", "err"} : Watch!Send(m) /\ UNCHANGED wPc
        \/ Watch!Send("err") /\ wPc' = "done"
        \/ wPc' = "prefs" /\ UNCHANGED <<tx, lastSent>>
    BY <1>6 DEF W, Watch!WatchNext
  <2>3. CASE \E m \in {"event", "err"} : Watch!Send(m) /\ UNCHANGED wPc
    <3>1. Tray!Forward
      BY <2>1, <2>3 DEF Watch!Send, Tray!Forward, Tray!Post, TrayPhase
    <3>2. QED
      BY <3>1 DEF Tray!Next
  <2>4. CASE Watch!Send("err") /\ wPc' = "done"
    <3>1. Tray!Close
      BY <2>1, <2>4 DEF Watch!Send, Tray!Close, Tray!Post, TrayPhase
    <3>2. QED
      BY <3>1 DEF Tray!Next
  <2>5. CASE wPc' = "prefs" /\ UNCHANGED <<tx, lastSent>>
    BY <2>1, <2>5 DEF Tray!vars, TrayPhase
  <2>6. QED
    BY <2>2, <2>3, <2>4, <2>5
<1>7. CASE W(Watch!GetPrefs)
  <2>1. wPc = "prefs" /\ UNCHANGED <<tx, lastSent>> /\ wPc' \in {"watch", "done"}
    BY <1>7 DEF W, Watch!GetPrefs
  <2>2. CASE wPc' = "watch"
    BY <2>1, <2>2 DEF Tray!vars, TrayPhase
  <2>3. CASE wPc' = "done"
    <3>1. Tray!Stop
      BY <2>1, <2>3 DEF Tray!Stop, TrayPhase
    <3>2. QED
      BY <3>1 DEF Tray!Next
  <2>4. QED
    BY <2>1, <2>2, <2>3
<1>8. CASE W(Watch!Consume)
  <2>1. Tray!Read
    BY <1>8 DEF W, Watch!Consume, Tray!Read, TrayPhase
  <2>2. QED
    BY <2>1 DEF Tray!Next
<1>9. CASE \/ I(Inst!InstallCheck) \/ I(Inst!PollInstalled) \/ I(Inst!CheckRunning)
           \/ I(Inst!StartQuery) \/ I(Inst!StartCall) \/ I(Inst!PollRunning)
           \/ I(Inst!LaunchUninstaller) \/ I(Inst!UninstallCheck)
           \/ I(Inst!UninstallService) \/ I(Inst!DeleteWait) \/ I(Inst!UninstallPoll)
           \/ I(Inst!ServiceStarted) \/ I(Inst!ServiceStartFailed)
           \/ I(Inst!ServiceStopped) \/ I(Inst!ServiceCrash) \/ I(Inst!ServiceRecover)
  <2>1. UNCHANGED <<wPc, tx, lastSent>>
    BY <1>9, Zenon DEF I, Wvars
  <2>2. QED
    BY <2>1, TrayStutter
<1>10. CASE UNCHANGED vars
  BY <1>10, TrayStutter DEF vars, Wvars
<1>11. QED
  BY <1>1, <1>2, <1>3, <1>4, <1>5, <1>6, <1>7, <1>8, <1>9, <1>10 DEF Next

\* The watcher implements the tray protocol (WindowsClient!ImplementsTray):
\* in every behaviour of the composed client, Start sends at most one
\* message, WatcherUpEvent or the error that ends it; notifications and
\* errors follow only a WatcherUpEvent; nothing is sent after WatchDaemon
\* has returned (part_000 lines 44-178).
THEOREM RefinesTray == Spec => ImplementsTray
<1>1. TypeOK /\ [Next]_vars => [Tray!Next]_Tray!vars
  BY TrayStep
<1>2. QED
  BY <1>1, TrayInit, ClientTypeCorrect, PTL DEF Spec, ImplementsTray, Tray!Spec

=============================================================================
