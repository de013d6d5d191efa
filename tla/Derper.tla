------------------------------- MODULE Derper -------------------------------
(***************************************************************************)
(* The relay server's outer loop (cmd/derper main, in                      *)
(* src/mirageclient-win/service_install.go lines 607-928) and the         *)
(* goroutines it runs in every epoch:                                      *)
(*   - the main goroutine: load config, optional managed bootstrap,        *)
(*     obtain the certificate, spawn the goroutines, errgroup.Wait, then   *)
(*     either loop (restart) or log.Fatal;                                 *)
(*   - serve: rateLimitedListenAndServeTLS (net.Listen, the rate limited   *)
(*     listener, http.Server.ServeTLS);                                    *)
(*   - sigFunc: reads the signal channel sigc (capacity 1);                *)
(*   - the renewal ticker (letsencrypt mode only).                         *)
(* Time is one discrete clock whose unit is the ticker period (6h).       *)
(* Only differences of time matter to the code (certExpires - now, the     *)
(* token refill), so the state keeps remaining validities, not instants.   *)
(* A step of the clock happens only when every goroutine is blocked on an  *)
(* external event: the work between two ticker periods takes negligible   *)
(* time compared with a period.                                            *)
(***************************************************************************)
EXTENDS Integers

CONSTANTS
    CertMode,         \* -certmode flag: "letsencrypt" or "manual"
    DNSProvider,      \* -dns-provider flag: "" selects the TLS-ALPN challenge
    SetIP,            \* -set-ipv4 or -set-ipv6 is non-empty
    ALPNOn443,        \* the -a listen port is 443 (no iptables redirect needed)
    Managed,          \* -ctrl-url and -id are both set (managed node)
    AcceptConnLimit,  \* -accept-connection-limit, tokens per clock unit, or Inf
    AcceptConnBurst,  \* -accept-connection-burst
    Inf,              \* rate.Inf
    NoCert,           \* no certificate (empty storage, empty cache)
    CertLife,         \* validity of a freshly issued certificate, in clock units
    RenewWindow,      \* certmagic renews in ManageSync when less than this is left
    RenewBefore       \* the ticker restarts when less than this is left (7 days)

\* The DNS providers the switch at lines 771-790 knows.
KnownProviders == {"cloudflare", "aliyun", "qcloud", "namesilo"}

ASSUME CertModeAssumption == CertMode \in {"letsencrypt", "manual"}
ASSUME BoolAssumption == {SetIP, ALPNOn443, Managed} \subseteq BOOLEAN
ASSUME InfAssumption == Inf \notin Nat
ASSUME LimitAssumption == AcceptConnLimit \in Nat \cup {Inf}
ASSUME BurstAssumption == AcceptConnBurst \in Nat
ASSUME NoCertAssumption == NoCert \notin Int
ASSUME LifeAssumption == CertLife \in Nat \ {0}
ASSUME WindowAssumption == RenewWindow \in Nat \ {0}
ASSUME BeforeAssumption == RenewBefore \in Nat \ {0}

VARIABLES
    mainPc,     \* the main goroutine: "setup", "cert", "spawn", "wait"
    exitCode,   \* "running", or how the process ended: "ok", "fatal", "panic", "killed"
    serveSt,    \* the serve goroutine: "idle" (not spawned), "start", "serving", "done"
    serveErr,   \* what it returned: "none", "closed" (ErrServerClosed), "limited", "listen"
    lnOpen,     \* this epoch's TLS listener is bound
    shutdown,   \* httpsrv.Close() has been called in this epoch
    sigSt,      \* sigFunc goroutine: "idle", "waiting", "done"
    sigc,       \* the buffered signal channel: "none", "term" or "usr2"
    notified,   \* signal.Notify has been called in some epoch
    tickSt,     \* ticker goroutine: "none", "waiting", "fired", "send", "done"
    certLeft,   \* remaining validity of this epoch's certificate (certExpires - now)
    stored,     \* remaining validity of the certificate on disk
    tokens,     \* the token bucket of this epoch's rate limited listener
    cronjobs,   \* number of running managed-mode housekeeping jobs
    termReq     \* history: an operator sent a termination signal

vars == <<mainPc, exitCode, serveSt, serveErr, lnOpen, shutdown, sigSt,
          sigc, notified, tickSt, certLeft, stored, tokens, cronjobs, termReq>>

CertVals == {NoCert} \cup (-1..CertLife)

-----------------------------------------------------------------------------
(* Helpers *)

\* One clock unit passes for a certificate; -1 stands for every expired value.
Age(c) == IF c = NoCert \/ c = -1 THEN c ELSE c - 1

\* Mutant: the limiter is never consulted.
AllowAlways(t) == TRUE

\* golang.org/x/time/rate: Allow, the token it takes, the refill of one unit.
Allow(t)  == AcceptConnLimit = Inf \/ t >= 1
Take(t)   == IF AcceptConnLimit = Inf THEN t ELSE t - 1
Refill(t) == IF AcceptConnLimit = Inf THEN t
             ELSE IF t + AcceptConnLimit > AcceptConnBurst THEN AcceptConnBurst
             ELSE t + AcceptConnLimit

\* certmagic ManageSync: a stored certificate with RenewWindow or more left is
\* used as it is; otherwise it is (re)issued, which succeeds when caUp.
NeedsIssue(s)   == s = NoCert \/ s < RenewWindow
SyncOk(caUp)    == ~NeedsIssue(stored) \/ caUp
AfterSync(caUp) == IF NeedsIssue(stored) /\ caUp THEN CertLife ELSE stored

Running == exitCode = "running"

\* log.Fatal, a panic or os.Exit: the process ends and its sockets close.
Exit(code) ==
    /\ exitCode' = code
    /\ lnOpen' = FALSE
    /\ UNCHANGED <<mainPc, serveSt, serveErr, shutdown, sigSt, sigc,
                   notified, tickSt, certLeft, tokens, cronjobs, termReq>>

\* Every goroutine is blocked on the network, a signal or the ticker.
Quiescent ==
    /\ mainPc = "wait"
    /\ sigSt = "waiting" /\ sigc = "none"
    /\ serveSt \in {"serving", "done"}
    /\ tickSt \in {"none", "waiting"}

-----------------------------------------------------------------------------
(* The main goroutine *)

Init ==
    /\ mainPc = "setup"
    /\ exitCode = "running"
    /\ serveSt = "idle"
    /\ serveErr = "none"
    /\ lnOpen = FALSE
    /\ shutdown = FALSE
    /\ sigSt = "idle"
    /\ sigc = "none"
    /\ notified = FALSE
    /\ tickSt = "none"
    /\ certLeft = NoCert
    /\ stored \in CertVals
    /\ tokens = 0
    /\ cronjobs = 0
    /\ termReq = FALSE

\* loadConfig, derp.NewServer, the managed bootstrap (PrepareManaged,
\* TryLogin, Cronjob.Start, whose deferred Stop only runs when main
\* returns), the mesh key, the mux and the STUN goroutine. Every failure
\* here is a log.Fatal.
Setup ==
    /\ Running /\ mainPc = "setup"
    /\ \/ Exit("fatal") /\ UNCHANGED stored
       \/ /\ mainPc' = "cert"
          /\ cronjobs' = IF Managed THEN cronjobs + 1 ELSE cronjobs
          /\ UNCHANGED <<exitCode, serveSt, serveErr, lnOpen, shutdown,
                         sigSt, sigc, notified, tickSt, certLeft, stored, tokens,
                         termReq>>

\* Mutant: the result of ManageSync is not checked.
CertIssuedUnchecked(err, cache) ==
    \/ cache = NoCert /\ Exit("panic")
    \/ /\ cache # NoCert
       /\ certLeft' = cache
       /\ mainPc' = "spawn"
       /\ UNCHANGED <<exitCode, serveSt, serveErr, lnOpen, shutdown,
                      sigSt, sigc, notified, tickSt, tokens, cronjobs, termReq>>

\* The end of the certificate switch: log.Fatal on err, then
\* cache.AllMatchingCertificates(hostname)[0], which panics on an empty cache.
CertIssued(err, cache) ==
    \/ err /\ Exit("fatal")
    \/ ~err /\ cache = NoCert /\ Exit("panic")
    \/ /\ ~err /\ cache # NoCert
       /\ certLeft' = cache
       /\ mainPc' = "spawn"
       /\ UNCHANGED <<exitCode, serveSt, serveErr, lnOpen, shutdown,
                      sigSt, sigc, notified, tickSt, tokens, cronjobs, termReq>>

\* letsencrypt with the TLS-ALPN challenge. Off port 443 an iptables
\* redirect is added before ManageSync and deleted after it, and the
\* delete's result is assigned to the err that held ManageSync's result.
ObtainCertALPN ==
    /\ Running /\ mainPc = "cert"
    /\ CertMode = "letsencrypt" /\ DNSProvider = ""
    /\ \/ ~ALPNOn443 /\ Exit("fatal") /\ UNCHANGED stored
       \/ \E caUp \in BOOLEAN :
            /\ stored' = AfterSync(caUp)
            /\ \/ ~ALPNOn443 /\ Exit("fatal")
               \/ CertIssued(IF ALPNOn443 THEN ~SyncOk(caUp) ELSE FALSE, stored')

\* letsencrypt with the DNS-01 challenge. An unknown provider name leaves
\* the provider nil: AppendRecords on it panics, and issuance fails.
ObtainCertDNS ==
    /\ Running /\ mainPc = "cert"
    /\ CertMode = "letsencrypt" /\ DNSProvider # ""
    /\ \/ Exit("fatal") /\ UNCHANGED stored
       \/ /\ SetIP /\ DNSProvider \notin KnownProviders
          /\ Exit("panic") /\ UNCHANGED stored
       \/ /\ SetIP => DNSProvider \in KnownProviders
          /\ \E caUp \in IF DNSProvider \in KnownProviders THEN BOOLEAN ELSE {FALSE} :
               /\ stored' = AfterSync(caUp)
               /\ CertIssued(~SyncOk(caUp), stored')

\* manual: the certificate files are loaded as they are, or log.Fatal.
LoadManualCert ==
    /\ Running /\ mainPc = "cert" /\ CertMode = "manual"
    /\ \/ stored = NoCert /\ Exit("fatal") /\ UNCHANGED stored
       \/ /\ stored # NoCert
          /\ certLeft' = stored
          /\ mainPc' = "spawn"
          /\ UNCHANGED <<exitCode, serveSt, serveErr, lnOpen, shutdown,
                         sigSt, sigc, notified, tickSt, stored, tokens, cronjobs,
                         termReq>>

\* errorGroup.Go(serve), signal.Notify(sigc, INT, TERM, QUIT),
\* errorGroup.Go(sigFunc) and, in letsencrypt mode, the ticker goroutine.
Spawn ==
    /\ Running /\ mainPc = "spawn"
    /\ mainPc' = "wait"
    /\ serveSt' = "start"
    /\ sigSt' = "waiting"
    /\ notified' = TRUE
    /\ tickSt' = IF CertMode = "letsencrypt" THEN "waiting" ELSE "none"
    /\ UNCHANGED <<exitCode, serveErr, lnOpen, shutdown, sigc, certLeft,
                   stored, tokens, cronjobs, termReq>>

\* errorGroup.Wait returns the serve goroutine's error (the only non-nil
\* one): ErrServerClosed loops to a new epoch, anything else is log.Fatalf.
WaitAll ==
    /\ Running /\ mainPc = "wait"
    /\ serveSt = "done" /\ sigSt = "done" /\ tickSt \in {"none", "done"}
    /\ \/ serveErr # "closed" /\ Exit("fatal") /\ UNCHANGED stored
       \/ /\ serveErr = "closed"
          /\ mainPc' = "setup"
          /\ serveSt' = "idle"
          /\ serveErr' = "none"
          /\ shutdown' = FALSE
          /\ sigSt' = "idle"
          /\ sigc' = "none"
          /\ tickSt' = "none"
          /\ certLeft' = NoCert
          /\ UNCHANGED <<exitCode, lnOpen, notified, stored, tokens, cronjobs,
                         termReq>>

-----------------------------------------------------------------------------
(* The serve goroutine: rateLimitedListenAndServeTLS *)

\* net.Listen, newRateLimitedListener (a full bucket), srv.ServeTLS. A
\* listener bound after httpsrv.Close() is closed again by Serve at once.
ServeListen ==
    /\ Running /\ serveSt = "start"
    /\ \/ /\ ~shutdown
          /\ serveSt' = "serving"
          /\ lnOpen' = TRUE
          /\ tokens' = AcceptConnBurst
          /\ UNCHANGED serveErr
       \/ shutdown /\ serveSt' = "done" /\ serveErr' = "closed" /\ UNCHANGED <<lnOpen, tokens>>
       \/ serveSt' = "done" /\ serveErr' = "listen" /\ UNCHANGED <<lnOpen, tokens>>
    /\ UNCHANGED <<mainPc, exitCode, shutdown, sigSt, sigc, notified,
                   tickSt, certLeft, stored, cronjobs, termReq>>

\* rateLimitedListener.Accept on a new connection. A rejected connection is
\* closed and errLimitedConn returned; it is not a temporary net.Error, so
\* http.Server.Serve returns it and its deferred Close unbinds the listener.
Accept ==
    /\ Running /\ serveSt = "serving" /\ lnOpen
    /\ \/ Allow(tokens) /\ tokens' = Take(tokens) /\ UNCHANGED <<serveSt, serveErr, lnOpen>>
       \/ /\ ~Allow(tokens)
          /\ serveSt' = "done" /\ serveErr' = "limited" /\ lnOpen' = FALSE
          /\ UNCHANGED tokens
    /\ UNCHANGED <<mainPc, exitCode, shutdown, sigSt, sigc, notified,
                   tickSt, certLeft, stored, cronjobs, termReq>>

\* After httpsrv.Close(), Accept fails and Serve returns ErrServerClosed.
ServeClosed ==
    /\ Running /\ serveSt = "serving" /\ shutdown
    /\ serveSt' = "done" /\ serveErr' = "closed"
    /\ UNCHANGED <<mainPc, exitCode, lnOpen, shutdown, sigSt, sigc,
                   notified, tickSt, certLeft, stored, tokens, cronjobs, termReq>>

-----------------------------------------------------------------------------
(* sigFunc and the renewal ticker *)

\* Mutant: the SIGUSR2 case returns without httpsrv.Close().
SigRecvNoClose ==
    /\ Running /\ sigSt = "waiting" /\ sigc # "none"
    /\ \/ /\ sigc = "usr2"
          /\ sigc' = "none" /\ sigSt' = "done"
          /\ UNCHANGED <<mainPc, exitCode, serveSt, serveErr, lnOpen,
                         shutdown, notified, tickSt, certLeft, stored, tokens,
                         cronjobs, termReq>>
       \/ sigc = "term" /\ Exit("ok") /\ UNCHANGED stored

\* Mutant: every signal is handled like SIGUSR2 (close and return).
SigRecvNoExit ==
    /\ Running /\ sigSt = "waiting" /\ sigc # "none"
    /\ sigc' = "none" /\ shutdown' = TRUE /\ sigSt' = "done" /\ lnOpen' = FALSE
    /\ UNCHANGED <<mainPc, exitCode, serveSt, serveErr, notified,
                   tickSt, certLeft, stored, tokens, cronjobs, termReq>>

\* SIGUSR2 (sent only by the ticker): httpsrv.Close() and return.
\* Any other signal: httpsrv.Close() and os.Exit(0).
SigRecv ==
    /\ Running /\ sigSt = "waiting" /\ sigc # "none"
    /\ \/ /\ sigc = "usr2"
          /\ sigc' = "none" /\ shutdown' = TRUE /\ sigSt' = "done" /\ lnOpen' = FALSE
          /\ UNCHANGED <<mainPc, exitCode, serveSt, serveErr, notified,
                         tickSt, certLeft, stored, tokens, cronjobs, termReq>>
       \/ sigc = "term" /\ Exit("ok") /\ UNCHANGED stored

\* Mutant: the comparison with the threshold is inverted.
TickerCheckInverted ==
    /\ Running /\ tickSt = "fired"
    /\ tickSt' = IF certLeft >= RenewBefore THEN "send" ELSE "waiting"
    /\ UNCHANGED <<mainPc, exitCode, serveSt, serveErr, lnOpen, shutdown,
                   sigSt, sigc, notified, certLeft, stored, tokens, cronjobs, termReq>>

\* A ticker period elapsed: certExpires.Sub(now) < 7 days sends SIGUSR2.
TickerCheck ==
    /\ Running /\ tickSt = "fired"
    /\ tickSt' = IF certLeft < RenewBefore THEN "send" ELSE "waiting"
    /\ UNCHANGED <<mainPc, exitCode, serveSt, serveErr, lnOpen, shutdown,
                   sigSt, sigc, notified, certLeft, stored, tokens, cronjobs, termReq>>

\* sigc <- syscall.SIGUSR2 (blocks while the buffer is full), then return.
TickerSend ==
    /\ Running /\ tickSt = "send" /\ sigc = "none"
    /\ sigc' = "usr2" /\ tickSt' = "done"
    /\ UNCHANGED <<mainPc, exitCode, serveSt, serveErr, lnOpen, shutdown,
                   sigSt, notified, certLeft, stored, tokens, cronjobs, termReq>>

-----------------------------------------------------------------------------
(* The environment *)

\* One clock unit passes: certificates age, the bucket refills, the ticker
\* fires.
Tick ==
    /\ Running /\ Quiescent
    /\ certLeft' = Age(certLeft)
    /\ stored' = Age(stored)
    /\ tokens' = IF lnOpen THEN Refill(tokens) ELSE tokens
    /\ tickSt' = IF tickSt = "waiting" THEN "fired" ELSE tickSt
    /\ UNCHANGED <<mainPc, exitCode, serveSt, serveErr, lnOpen, shutdown,
                   sigSt, sigc, notified, cronjobs, termReq>>

\* An operator sends SIGINT/SIGTERM/SIGQUIT. Before the first signal.Notify
\* the default disposition kills the process. Afterwards the signal is
\* sent, without blocking, to every channel ever registered: this epoch's
\* sigc takes it when it exists and is empty; the channels of earlier
\* epochs have no reader.
SendTerm ==
    /\ Running
    /\ termReq' = TRUE
    /\ \/ /\ ~notified
          /\ exitCode' = "killed" /\ lnOpen' = FALSE
          /\ UNCHANGED sigc
       \/ /\ notified /\ mainPc = "wait" /\ sigc = "none"
          /\ sigc' = "term"
          /\ UNCHANGED <<exitCode, lnOpen>>
       \/ /\ notified /\ ~(mainPc = "wait" /\ sigc = "none")
          /\ UNCHANGED <<exitCode, lnOpen, sigc>>
    /\ UNCHANGED <<mainPc, serveSt, serveErr, shutdown, sigSt, notified,
                   tickSt, certLeft, stored, tokens, cronjobs>>

\* The process has ended.
Terminated == ~Running /\ UNCHANGED vars

Next ==
    \/ Setup \/ ObtainCertALPN \/ ObtainCertDNS \/ LoadManualCert
    \/ Spawn \/ WaitAll
    \/ ServeListen \/ Accept \/ ServeClosed
    \/ SigRecv \/ TickerCheck \/ TickerSend
    \/ Tick \/ SendTerm
    \/ Terminated

\* Runnable goroutines are scheduled and time passes; connections and
\* operator signals are not assumed.
Fairness ==
    /\ WF_vars(Setup) /\ WF_vars(ObtainCertALPN) /\ WF_vars(ObtainCertDNS)
    /\ WF_vars(LoadManualCert)
    /\ WF_vars(Spawn) /\ WF_vars(WaitAll)
    /\ WF_vars(ServeListen) /\ WF_vars(ServeClosed)
    /\ WF_vars(SigRecv) /\ WF_vars(TickerCheck) /\ WF_vars(TickerSend)
    /\ WF_vars(Tick)

Spec == Init /\ [][Next]_vars

FairSpec == Spec /\ Fairness

-----------------------------------------------------------------------------
(* Properties *)

\* The program counters of main, serve, sigFunc and the ticker, and the
\* exit status, take only the values the code gives them.
PcTypeOK ==
    /\ mainPc \in {"setup", "cert", "spawn", "wait"}
    /\ exitCode \in {"running", "ok", "fatal", "panic", "killed"}
    /\ serveSt \in {"idle", "start", "serving", "done"}
    /\ serveErr \in {"none", "closed", "limited", "listen"}
    /\ sigSt \in {"idle", "waiting", "done"}
    /\ sigc \in {"none", "term", "usr2"}
    /\ tickSt \in {"none", "waiting", "fired", "send", "done"}

\* The listener, shutdown, signal.Notify and operator flags are Booleans.
FlagTypeOK ==
    /\ lnOpen \in BOOLEAN
    /\ shutdown \in BOOLEAN
    /\ notified \in BOOLEAN
    /\ termReq \in BOOLEAN

\* Certificate validities stay in -1..CertLife or absent, and the token
\* bucket of rateLimitedListener never goes below zero or above the burst.
DataTypeOK ==
    /\ certLeft \in CertVals
    /\ stored \in CertVals
    /\ tokens \in 0..AcceptConnBurst
    /\ cronjobs \in Nat

\* Every variable of the outer loop is well typed; in particular the token
\* bucket stays within 0..AcceptConnBurst however Accept and the refill
\* interleave.
TypeOK == PcTypeOK /\ FlagTypeOK /\ DataTypeOK

\* Certificate validity (spec 8): whenever the TLS listener is bound, the
\* certificate the epoch serves exists and has not expired. It rests on the
\* error check after ManageSync and on the ticker restarting the server
\* before the certificate it took at startup runs out.
CertValidWhileBound == lnOpen => certLeft \in Nat

\* A restart (errgroup.Wait returning ErrServerClosed and the loop starting
\* a new epoch) happens only when the epoch's certificate has less than
\* RenewBefore left: SIGUSR2 comes only from the ticker, and no time passes
\* between the ticker's check and the restart.
RestartOnlyNearExpiry ==
    [][(Running /\ mainPc = "wait" /\ mainPc' = "setup") => certLeft < RenewBefore]_vars

\* Serving ends only because of a shutdown: a rate limited Accept is
\* retried rather than ending http.Server.Serve (spec 4.2).
ServeEndsOnlyOnShutdown ==
    [][serveSt = "serving" /\ serveSt' = "done" => shutdown]_vars

\* An unexpected serve error is fatal (spec 4.4, 7): the process never sits
\* idle, waiting only on outside events, with its TLS listener down.
NoOutageWhileRunning == (Running /\ Quiescent) => lnOpen

\* A termination signal ends the process (spec 4.4).
TermLeadsToExit == termReq ~> ~Running

\* A certificate close to expiry leads to a rotation: either the process
\* ends or a listener is bound again with a certificate the ticker accepts.
ExpiryLeadsToRotation ==
    (lnOpen /\ certLeft \in Int /\ certLeft < RenewBefore)
        ~> (~Running \/ (lnOpen /\ certLeft \in Int /\ certLeft >= RenewBefore))

\* A restart stops the housekeeping job of the previous epoch (spec 4.4), so
\* at most one runs.
AtMostOneCronjob == cronjobs <= 1

\* An unknown DNS provider name is a fatal configuration error (spec 4.3,
\* 6): such a process never serves TLS.
UnknownProviderNeverServes ==
    lnOpen => (DNSProvider = "" \/ DNSProvider \in KnownProviders)

=============================================================================
