# Formal model of MirageNavi: the relay server and the Windows client

This directory holds TLA+ models of the programs in `src/`, TLC
configurations that check them on small instances, and TLAPS proofs of
their main safety properties for every value of the constants:

- the relay node (`derper`, `src/mirageclient-win/service_install.go`
  lines 446-1121): the epoch loop with its certificate handling, signals
  and rate-limited listener (`Derper`), and its STUN responder
  (`StunResponder`);
- the Windows client's service helpers (lines 1-328 of the same file):
  the `-install` and `-uninstall` processes against the Windows service
  manager (`ServiceInstaller`);
- the Windows client's IPN bus watcher (`src/unnamed/part_000`,
  `MiraWatcher`);
- the Windows client as one system (`WindowsClient`): the watcher's
  tray launches the `-install` helper and polls the service the helpers
  and the service manager drive.

The two programs do not share state: the relay runs on a server, the
client helpers and the watcher on a Windows machine. Within each program
the interacting goroutines and processes are checked together.

## The system

`main` runs an endless loop of *epochs* (607-928). Each epoch does the
following, in order:

1. **Setup** (612-741). It loads or creates the config, builds the relay
   server, and runs the managed-mode bootstrap: `PrepareManaged`,
   `TryLogin`, then `Cronjob.Start` with a *deferred* `Stop`. It then
   sets up the mesh key and the HTTP mux, and starts STUN in the first
   epoch only. Every failure here is `log.Fatal`.
2. **Certificate switch** (745-841). There are three ways to get the
   certificate:
   - *letsencrypt with TLS-ALPN*: off port 443, an iptables redirect is
     added before `ManageSync` and deleted after it.
   - *letsencrypt with DNS-01*: a provider is chosen by name, the zone
     is looked up, and the A/AAAA records are published if set-ip is
     given.
   - *manual*: the certificate files on disk are used.

   In letsencrypt mode the certificate's `NotAfter` is read from
   `cache.AllMatchingCertificates(hostname)[0]`.
3. **Concurrent phase** (875-922). An `errgroup.Group` runs three
   goroutines:
   - *serve*: `rateLimitedListenAndServeTLS`, which binds the port, wraps
     it in a token-bucket listener and calls `ServeTLS`.
   - *sigFunc*: it waits on a capacity-1 `sigc` registered with
     `signal.Notify` for INT/TERM/QUIT. On `SIGUSR2` it closes the
     server and returns. On any other signal it closes the server and
     calls `os.Exit(0)`.
   - *ticker* (letsencrypt only): every 6 hours it checks whether less
     than 7 days are left. If so, it sends itself `SIGUSR2` and returns.
4. **Wait** (924-927). `ErrServerClosed` starts the next epoch; any
   other error is `log.Fatalf`.

The parts interact in a few places:
- The ticker restarts the server through `sigc`.
- sigFunc ends serve by closing the server.
- The certificate an epoch takes decides whether its listener may be
  bound.
- The token bucket decides whether Serve survives a connection.

## Modules

| Module | Models | Kind |
|---|---|---|
| `Derper.tla` | The whole epoch loop: main, serve, sigFunc, the ticker, and the environment (time, operator signals) | specification |
| `MC_Derper.tla` | Small values of the numeric constants for TLC | model-checking instance |
| `DerperProofs.tla` | The lemmas and theorems about `Derper` | TLAPS proofs |
| `StunResponder.tla` | `serveSTUN` and `serverSTUNListener` (967-1018), the STUN counters (525-538), and the senders and receive buffer as environment | specification |
| `MC_StunResponder.tla` | Two senders (one IPv4), two transaction ids, buffer 2 | model-checking instance |
| `StunResponderProofs.tla` | Invariant and refinement proofs about `StunResponder` | TLAPS proofs |
| `ServiceInstaller.tla` | `isServiceInstaller`, `isServiceUninstaller` and the functions they call (23-328), and the Windows service manager as environment | specification |
| `MiraWatcher.tla` | `Start`, `WatchDaemon` and `GetWatcherWithTimeout` (`part_000` 31-178), with the daemon, signals and the tray as environment | specification |
| `WindowsClient.tla` | The two above composed: the tray's `ElevateToInstallService` launches the installer, `isServiceRunning` reads the service state | composition |
| `TrayProtocol.tla` | What the tray can rely on from Tx: one WatcherUpEvent or Start's error, then forwarded messages, nothing after the end | abstract specification |
| `WindowsClientProofs.tla` | Type correctness of `WindowsClient`, its refinement of `TrayProtocol`, and the errgroup's non-nil result, for every value of the constants | TLAPS proofs |
| `MC_WindowsClient.tla` | The polling loops in their shortest shape, one retry, Tx capacity 1, one disturbance | model-checking instance |

### State (`Derper`)

| Variable | Code |
|---|---|
| `mainPc` | Where main is: `setup`, `cert` (the certificate switch), `spawn` (building the errgroup) or `wait` (`errorGroup.Wait`) |
| `exitCode` | `running`, or how the process ended: `ok` is `os.Exit(0)`, `fatal` is `log.Fatal`, `panic`, or `killed` (default signal disposition) |
| `serveSt`, `serveErr` | The serve goroutine and the error it returns |
| `lnOpen` | The TLS port is bound |
| `shutdown` | `httpsrv.Close()` has been called |
| `sigSt`, `sigc` | sigFunc and the capacity-1 channel; `none`, `term` or `usr2` is its content |
| `notified` | `signal.Notify` has run at least once |
| `tickSt` | The ticker goroutine |
| `certLeft` | `certExpires - now` for this epoch's certificate, in ticker periods |
| `stored` | The remaining validity of the certificate in certmagic's storage |
| `tokens` | The token count of this epoch's `rate.Limiter` |
| `cronjobs` | Housekeeping jobs running |
| `termReq` | History variable: an operator sent a termination signal |

Time is relative. One `Tick` is one ticker period, and it ages every
validity by one unit; `-1` stands for every expired value. `NoCert` is
the absence of a certificate.

### Actions (`Derper`)

| Action | Code it models |
|---|---|
| `Setup` | 612-741 |
| `ObtainCertALPN` | 748-768 and 813-833 |
| `ObtainCertDNS` | 769-831 |
| `CertIssued` | 829-833 (the shared end of both letsencrypt cases) |
| `LoadManualCert` | 834-841 |
| `Spawn` | 842-911 |
| `WaitAll` | 924-927 |
| `ServeListen` | 1042-1057 |
| `Accept` | 1084-1102 |
| `ServeClosed` | `Serve` returning `ErrServerClosed` after `Close` |
| `SigRecv` | 885-906 |
| `TickerCheck`, `TickerSend` | 913-919 |
| `Tick` | The passage of time |
| `SendTerm` | An operator signal |

`ManageSync` is abstracted to its effect on the stored certificate (820-821):
- A certificate with at least `RenewWindow` left is kept.
- Otherwise a new one of life `CertLife` is issued when the CA is
  reachable (`caUp`).
- Otherwise it fails.

`Exit` is every `log.Fatal`, panic and `os.Exit`: the process ends and
its sockets close. `CertMode` is assumed to be `letsencrypt` or
`manual`. Any other value leaves `TLSConfig` nil and panics at 843
before anything is bound, so it adds no behaviour the properties could
see.

`SendTerm` models the signal semantics of Go:
- Before the first `signal.Notify`, the signal kills the process.
- Afterwards, it is delivered without blocking to every channel ever
  registered. The current epoch's `sigc` receives it only if that
  channel exists and is empty; the channels of earlier epochs have no
  reader.

## Runs

The values in `MC_Derper` are:
- `CertLife = 3`, `RenewWindow = 2`, `RenewBefore = 1`.
- Rate limit 1 per period, burst 1.

Each value is the smallest that lets the interesting cases happen:
- a stored certificate that is fresh, needs renewal, is expired or is
  absent (`Init` takes every value of `CertVals`);
- a certificate that is checked by the ticker once while still fresh
  and once when near expiry;
- an empty bucket that rejects a connection and refills on a tick.

The proofs below cover every larger value.

| Run (cfg) | Expect | Checks | Shows |
|---|---|---|---|
| `pass` (`Derper_pass.cfg`) | pass | `TypeOK`, `CertValidWhileBound`, `RestartOnlyNearExpiry`, `ExpiryLeadsToRotation` | With TLS-ALPN on 443 the listener only serves a valid certificate, restarts happen only near expiry, and an expiring certificate is always rotated (or the process exits) |
| `dns` | pass | `CertValidWhileBound`, `ExpiryLeadsToRotation` | The same certificate questions along the DNS-01 path: a known provider, set-ip and zone lookup failures (`TypeOK` and `RestartOnlyNearExpiry` do not depend on the configuration and are proved for all of them) |
| `manual` | pass | `TermLeadsToExit` | With manual certificates (one epoch, no restarts) every termination signal ends the process |
| `alpn_masked` | violation | `CertValidWhileBound` | Off port 443, `err = cmd.Run()` (824) overwrites ManageSync's error; an expired stored certificate is served |
| `ratelimit` | violation | `ServeEndsOnlyOnShutdown` | `errLimitedConn` (1098) is not temporary, so Serve returns and the port is unbound |
| `outage` | violation | `NoOutageWhileRunning` | A failed serve goroutine leaves the process running and quiescent with no listener: the errgroup has no context |
| `term_lost` | violation | `TermLeadsToExit` | A SIGTERM during the rebuild of the next epoch goes to a stale channel and is lost |
| `cronjob` | violation | `AtMostOneCronjob` | `defer Cronjob.Stop()` inside the loop: every restart in managed mode adds a job |
| `dns_unknown` | violation | `UnknownProviderNeverServes` | An unknown provider name does not fail fast; the stored certificate is served |
| `manual_expiry` | violation | `CertValidWhileBound` | A manual certificate valid at start (`FreshStoredSpec` of `MC_Derper`: the stored certificate has at least one period left) is loaded once and never checked again; two ticks later it has expired while the listener still serves it |

Each violation is a finding in `PROJECT.json`, with the line and the
sentence of `spec.md` or of a code comment that it contradicts.

### Fairness

`FairSpec` assumes weak fairness of every goroutine step and of `Tick`.
- Goroutines that can run are scheduled by the Go runtime.
- The ticker keeps firing while the process is up, so time keeps
  passing.

`Accept` and `SendTerm` are left unfair. Nothing obliges a client to
connect or an operator to send a signal.

`Tick` is enabled only when every goroutine is blocked (`Quiescent`). A
tick is 6 hours, and the steps it would otherwise interleave with take
milliseconds. This is what makes "no time passes between the ticker's
check and the restart" a faithful reading of the code.

### Mutants

Each property of a passing run is shown to catch a plausible bug in the
code it is about:

| Property | Mutant |
|---|---|
| `TypeOK` | `AllowAlways`: the limiter is never consulted |
| `CertValidWhileBound` | `CertIssuedUnchecked`: ManageSync's error is ignored |
| `RestartOnlyNearExpiry` | `TickerCheckInverted`: the 7-day comparison is inverted |
| `ExpiryLeadsToRotation` | `SigRecvNoClose`: SIGUSR2 returns without `httpsrv.Close()` |
| `TermLeadsToExit` | `SigRecvNoExit`: every signal is treated as a restart |

## Proofs (`DerperProofs.tla`)

`tlapm` checks every step. The theorems are:

- **`TypeCorrect`**: `Spec => []TypeOK`, for all constants that satisfy
  the module's named `ASSUME`s (lifetimes, windows and thresholds are
  positive naturals, burst is a natural, `Inf` and `NoCert` are not
  numbers).
  - It rests on `TypeInit` and `TypeStep`, with one case per action.
  - It also uses lemmas about the helpers: `AgeType`, `AfterSyncType`
    and `BucketType` (refill and take keep the bucket in
    `0..AcceptConnBurst`).
  - It also uses `ExitType` and `CertIssuedType` for the two shared
    pieces of the actions.
  - `TypeOK` is split into `PcTypeOK`, `FlagTypeOK` and `DataTypeOK`, so
    that the string, Boolean and arithmetic parts each go to the prover
    that handles them.
- **`CertValid`**:
  `CheckedConfig => (Spec => []CertValidWhileBound)`. `CheckedConfig` is
  letsencrypt mode with DNS-01, or with TLS-ALPN on 443: the
  configurations in which ManageSync's error reaches the `log.Fatal`.
  `CertValidWhileBound` is not inductive. The strengthening `CertInv`
  adds these facts:
  - A bound listener belongs to a running epoch in Serve that has not
    been shut down.
  - A serve goroutine exists only in `wait`.
  - A running epoch in `wait` has its ticker.
  - The certificate taken at `spawn`, and while the ticker waits, has at
    least one unit left.
  - After the ticker fires, the certificate has not expired.

  The argument runs as follows:
  - ManageSync without error leaves a certificate with a unit left
    (`SyncedCert`).
  - A tick happens only while the ticker waits, so the certificate ages
    by at most one unit before each check.
  - A check that finds at least `RenewBefore` (≥ 1) left goes back to
    waiting with a unit left.
  - A check that finds less blocks time until the restart.

  `CertInv` was checked with TLC as an invariant of the checked
  configurations before it was proved.
- **`RestartNearExpiry`**: `Spec => RestartOnlyNearExpiry`, in *every*
  configuration. Its invariant `RestartInv` contains these facts:
  - The ticker exists only in `wait`.
  - From `spawn` on, the epoch has a certificate.
  - The ticker's send state implies less than `RenewBefore` left.
  - A pending `SIGUSR2` comes from this epoch's ticker.
  - sigFunc of a running epoch returned only on that `SIGUSR2`.

  `WaitAll`'s restart needs `sigSt = "done"`, and from there the bound
  follows.

These are left to TLC and not proved:
- **The liveness properties** (`ExpiryLeadsToRotation`,
  `TermLeadsToExit`). Liveness under fairness and `ENABLED` are beyond
  this version of TLAPS.
- **The violations**. They are counterexamples, not theorems.

## The STUN responder (`StunResponder`)

`serveSTUN` is started once, in the first epoch (721-723), and shares no
state with the TLS side. It binds a UDP socket (`log.Fatalf` on failure)
and runs `serverSTUNListener` with `context.Background()`: for every
datagram it reads it counts a disposition (`not_stun`, `write_error`,
`success`) and, for a binding request, an address family, and answers
with the sender's address and the request's transaction id. A failed
read sleeps one second and counts `read_error`.

| Variable | Code |
|---|---|
| `pc` | `bind`, `loop` (in `ReadFromUDP`), `sleep` (the one-second back-off), `fatal` |
| `inbox` | The socket's receive buffer, `BufCap` datagrams; a datagram that arrives when it is full is dropped |
| `failRead` | The next read fails (armed by the environment) |
| `counter` | The six expvar counters of `stunDisposition` and `stunAddrFamily` |
| `handled`, `replies` | History: the datagrams read, the responses written |

A datagram is a record of its kind (`binding`, `notstun`: `stun.Is`
fails, `badreq`: `ParseBindingRequest` fails), its sender and its
transaction id. The sender's family is membership in `V4Addrs`
(`ua.IP.To4() != nil`). `Respond` is lines 994-1017; `ReadPacket`,
`ReadFail` and `Wake` are the loop (983-993). `Arrive` and `SocketError`
are the environment, bounded by `MaxArrivals` and `MaxReadErrors`.

| Run | Expect | Checks | Shows |
|---|---|---|---|
| `stun_pass` | pass | `TypeOK`, `ProbeCorrect`, `CountersAccount` | Only well-formed binding requests are answered, to their sender with its own address and id; every read and every failed read is counted once, every answered request in one family |

Three datagrams into a two-slot buffer reach the full-buffer drop, and
one read error reaches the back-off. `FairSpec` assumes weak
fairness of the goroutine's steps only. The mutants answer the zero
transaction id of an unparsed request (`TypeOK`), answer any STUN
message (`ProbeCorrect`) and drop a bad request
uncounted (`CountersAccount`).

## The Windows service helpers (`ServiceInstaller`)

The tray elevates itself (`ElevateToInstallService`,
`ElevateToUinstallService`) to run a helper process with `-install` or
`-uninstall`. The installer creates the service if it is absent, polls
until it is installed (1 s ticker, 20 s `time.After`), starts it with
`startService` (which waits out a pending state and calls `Start`) and
polls until it runs (10 s ticker calling `startService` again, 60 s
`time.After`). The uninstaller stops the service if it is not stopped,
deletes it, waits in a back-off loop, and polls until it is gone. The
service control manager (SCM) and the service process are the
environment: start and stop pending, the failure of a start, a crash and
the recovery restart configured at 56-73, and the removal of a service
marked for deletion once it stops. Each SCM call is one atomic step.

Time is counted in seconds since the current loop's `time.After` was
made (`instWaited`); `SelectOutcome` is Go's choice between the ticker
and the deadline, either when both are ready. The constants are given
in `MC_WindowsClient`. `InstallCheck` models 259-265 with
`InstallSystemDaemonWindows` (23-77); `StartQuery` and `StartCall`
model `startService`; `UninstallService` and `DeleteWait` model
`UninstallSystemDaemonWindows`; `UninstallPoll` models 318-327, where a
fresh `time.After(20s)` is made on every iteration, so it is taken only
if 20 s could pass before a 1 s tick, which never happens.

The helpers are checked composed with the watcher, in `WindowsClient`
below.

Fairness: weak fairness of every helper step (a started process runs),
of the SCM ending a pending state and of the recovery restart. Launching
a helper and a crash are unfair. Both helpers exit and a stable service
takes no step.

## The IPN bus watcher (`MiraWatcher`)

`Start` waits up to 30 s for the service (after asking for the
`-install` helper), then `WatchDaemon` calls `GetWatcherWithTimeout` up
to three times. Each attempt runs two errgroup goroutines: `g1` calls
`WatchIPNBus`, `g2` waits on `egctx.Done()` or `time.After(timeout)`,
and on the timer cancels `watchCtx`. `errgroup` keeps the first error
and cancels `egctx`. A successful attempt ("Watcher is OK") sends
`WatcherUpEvent`, starts the interrupt goroutine and enters the read
loop, which forwards notifications, sends errors, returns on EOF, and
on a login URL calls `GetPrefs`, whose failure `break`s the loop.

Each Tx message is kept only as its kind (`up`, `event`, `err`); `tx`
is the channel, bounded by `TxCap`. `G1Answer` and `WatchNext` (the
daemon answering) are unfair; `WatchNextFailed` (the loop's own spin on
a failed watcher) is fair, as are every other goroutine step, the timers
and the tray reading Tx.

In `WindowsClient` the watcher's `svcUp` is the service's state being
`running`, so its environment action `ServiceUp` is replaced by the
service manager of `ServiceInstaller`.

## The Windows client composed (`WindowsClient`)

`WindowsClient` declares the variables of both components and takes
their actions through `INSTANCE`: `Inst` is `ServiceInstaller`, `Watch`
is `MiraWatcher` with `svcUp <- (svc = "running")` (what
`isServiceRunning`, 201-222, reads) and Start's timer constants renamed
`WatchTick`, `WatchAfter`. `TrayStart` is `Start`'s first lines
(`part_000` 44-51): a running service is watched at once; otherwise
`ElevateToInstallService` (121-150) starts the `-install` helper
(`Inst!LaunchInstaller`) and the tray goes on to poll, or `ShellExecute`
fails and the tray ends in `log.Fatalf`. Every other step is a step of
one component with the other's variables unchanged (`W`, `I`); the
installer is launched only by the tray, the uninstaller by the user at
any time. `Tray` instantiates `TrayProtocol` with `phase <- TrayPhase`:
`start`, `pollSvc` and `getw` are "starting" (before WatcherUpEvent),
`watch` and `prefs` are "up", `done` and `exit` are "ended"; `tx` and
`lastSent` map to themselves. The assumptions on the constants (`TimerAssumption`,
`PollAssumption`, `WatcherAssumption`) are stated here.

| Run | Expect | Checks | Shows |
|---|---|---|---|
| `client_pass` | pass | `TypeOK`, `InstallerTerminates`, `StartReports`, `ImplementsTray` | The installer the tray launched always ends; the tray always hears whether the watcher came up or failed, while the installer, a crash with its recovery restart or an uninstall change the service under it; the waits stay within their deadlines and Tx within its capacity; what reaches Tx follows `TrayProtocol` |

Bounds. Each polling loop that counts ticks against one `time.After`
(the install, start and Start polls) has its deadline one tick away:
it ticks once and then times out, or times out at once when both timers
are ready together, which is the shape of its last iteration at 20 s,
60 s or 30 s; more ticks repeat the same step. The uninstall poll keeps
its tick strictly before its fresh deadline (`UninstallAfter` = 2), as
in the code. One retry stands for the code's two (a retry is a fresh
attempt like the first), and a Tx of capacity 1 is already full after
one unread message. `OneDisturbance` lets each behaviour have a crash of
the service or an uninstall, not both; it bounds only unfair environment
steps. The run reaches 110,063 states and fires every action.

Fairness is the union of both components' fairness; the tray start is
fair (the tray process runs). Deadlock is not checked: the watcher
returns, the helpers exit and a stable service takes no step.

Mutants: the select never takes the deadline (`TypeOK`: the wait grows
past it); `startService` waits for Running only (`InstallerTerminates`:
a service that fails to start leaves it waiting); the timeout goroutine
drops `cancelWatch` (`StartReports`: a daemon that never answers leaves
`g1` blocked and nothing is reported); every failed attempt is reported
on Tx before its retry (`ImplementsTray`: an error before WatcherUpEvent
that does not end Start).

What the model has and no run checks. These are hazards in
`PROJECT.json`, each with the reason:
- the start poll's 10 s retry calls `startService` on a start-pending
  service, whose `Start` then fails although the service runs (293);
- the uninstall poll's `time.After(20s)` is made anew each iteration,
  so `SelectOutcome(0, UninstallTick, UninstallAfter)` is only `tick`
  and its timeout is unreachable (321);
- the timer case of `g2` may win after `WatchIPNBus` succeeded, and
  `WatcherUpEvent` is sent for a cancelled `watchCtx` (part_000 170);
- a `GetPrefs` failure ends `WatchDaemon` with no message (139), and
  after an interrupt the read loop resends the context error (111).

## Proofs (`StunResponderProofs.tla`)

- **`ProbesReflectRequests`** (`Spec => []ProbeCorrect`) and
  **`CountersBalanced`** (`Spec => []CountersAccount`), for all
  address sets, buffer sizes and bounds that satisfy `AddrAssumption`
  and `BoundAssumption`. Both come from the inductive invariant
  `Inv == TypeOK /\ FailInLoop /\ ProbeCorrect /\ CountersAccount`.
  `FailInLoop` (an armed read failure only while the loop reads) is
  the strengthening: without it `Wake` could count a read error whose
  failure is still pending. The lemma `RespondFacts` states what
  answering one datagram does to the counters and the responses;
  `InvStep` has one case per action.
- **`StunTypeCorrect`** (`Spec => []TypeOK`), from the same `Inv`.

## Proofs (`WindowsClientProofs.tla`)

- **`ClientTypeCorrect`** (`Spec => []TypeOK`, the invariant `client_pass`
  checks): for every value of the timers, poll bounds, `MaxCrashes`,
  `TxCap` and `Retries` allowed by `TimerAssumption`, `PollAssumption`
  and `WatcherAssumption`, every poll wait stays within its deadline
  (`0..MaxWait` for the installer, `0..WatchAfter` for Start's poll), the
  delete wait within `DeleteWaitPolls`, crashes within `MaxCrashes`,
  `retry` within `0..Retries`, and Tx within `TxCap`. `TypeOK` is
  inductive as it stands, so no strengthening is needed. What makes it
  so is the code's own guards: a ticker tick is taken only while the
  wait plus one tick is still within `time.After` (`TickWithinDeadline`),
  and every send is guarded by a free Tx slot (`SendKeepsTx`).
  `HelperStep` has one case per helper and SCM action; `WatcherStep` has
  one per watcher action. `InstFrame` and `WatchFrame` cover the
  component that stands still. In `TypeStep`, the tray start is both
  `LaunchInstaller` and `StartCheck`, each step `W(A)` is
  `WatcherStep` with `InstFrame`, and each step `I(A)` is `HelperStep`
  with `WatchFrame`.
- **`RefinesTray`** (`Spec => ImplementsTray`): `TrayInit` maps the
  initial state to the protocol's; `TrayStep` (from `TypeOK`, so from
  `ClientTypeCorrect`) has one case per kind of step: the Start poll's
  timeout and the last failed attempt are `Fail`, the successful
  attempt `Up`, the read loop's sends `Forward` or (EOF) `Close`, the
  tray's `log.Fatalf` and the `GetPrefs` break `Stop`, `Consume` is
  `Read`; every goroutine, helper and SCM step, and a retry, is a
  stutter (`TrayStutter`).

What stays with TLC: `InstallerTerminates` and `StartReports` are
liveness under fairness, out of the prover's reach.

## Not modelled, and why

- **HTTP handlers, debug pages, `logFilter`, metrics**. These are
  formatting and publication only. The `tls_listener` expvar published
  once for the first epoch's listener (1052) is a hazard without a
  property for this reason.
- **Config contents and key material**. They appear only as `Setup`'s
  fatal paths.
- **The exit-node tray menu (329-445)**. `newExitField` builds widgets;
  `updateCurrentExitNode` sets check marks from `exitNodeIDMap` and a
  title from `m.data`; `setUseExitNode` is one click handler making
  three daemon calls in sequence. The map, `m.data`, the callers and
  the daemon's own checks of the preferences are outside `src/`, so a
  model would be mostly assumptions and no property could be checked
  against this code alone.
- **`flake.nix`, the sockstats test (`src/unnamed/part_001`),
  `macios_ext.go`**. These are build configuration, a test of an
  external package, and an init hook, with no state machine.
- **An operator's `SIGUSR2`** (spec 4.4). It is never passed to
  `signal.Notify`, so the Go runtime ignores it; no step of the code
  reacts to it, and it is recorded as a hazard.
- **Liveness, the other proofs**. TLAPS cannot prove liveness under
  fairness; the liveness properties and the violations are TLC's alone.
