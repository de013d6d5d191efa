----------------------------- MODULE DerperProofs -----------------------------
(***************************************************************************)
(* Machine-checked proofs about the relay server's outer loop (Derper).    *)
(***************************************************************************)
EXTENDS Derper, TLAPS

-----------------------------------------------------------------------------
(* Lemmas about the helper operators *)

\* A certificate that ages stays a certificate value.
LEMMA AgeType ==
    ASSUME NEW c \in CertVals
    PROVE  Age(c) \in CertVals
BY LifeAssumption, NoCertAssumption DEF Age, CertVals

\* certmagic's ManageSync leaves a certificate value on disk.
LEMMA AfterSyncType ==
    ASSUME stored \in CertVals, NEW caUp \in BOOLEAN
    PROVE  AfterSync(caUp) \in CertVals
BY LifeAssumption DEF AfterSync, CertVals

\* The token bucket stays within 0..AcceptConnBurst when it refills and
\* when an allowed connection takes a token.
LEMMA BucketType ==
    ASSUME NEW t \in 0..AcceptConnBurst
    PROVE  /\ Refill(t) \in 0..AcceptConnBurst
           /\ Allow(t) => Take(t) \in 0..AcceptConnBurst
BY LimitAssumption, BurstAssumption, InfAssumption DEF Refill, Allow, Take

-----------------------------------------------------------------------------
(* Type correctness *)

\* log.Fatal, a panic or os.Exit keeps the state well typed whatever exit
\* status it records, provided the certificate on disk is a certificate.
LEMMA ExitType ==
    ASSUME TypeOK, NEW code \in {"running", "ok", "fatal", "panic", "killed"},
           Exit(code), stored' \in CertVals
    PROVE  TypeOK'
<1>1. /\ exitCode' = code /\ lnOpen' = FALSE
      /\ mainPc' = mainPc /\ serveSt' = serveSt /\ serveErr' = serveErr
      /\ shutdown' = shutdown /\ sigSt' = sigSt /\ sigc' = sigc
      /\ notified' = notified /\ tickSt' = tickSt /\ certLeft' = certLeft
      /\ tokens' = tokens /\ cronjobs' = cronjobs /\ termReq' = termReq
  BY DEF Exit
<1>2. PcTypeOK'
  BY <1>1 DEF TypeOK, PcTypeOK
<1>3. FlagTypeOK'
  BY <1>1, Zenon DEF TypeOK, FlagTypeOK
<1>4. DataTypeOK'
  BY <1>1 DEF TypeOK, DataTypeOK
<1>5. QED
  BY <1>2, <1>3, <1>4 DEF TypeOK

\* The end of the certificate switch (log.Fatal, the panic on an empty
\* cache, or the certificate taken for this epoch) keeps the state well
\* typed when the cached certificate is one.
LEMMA CertIssuedType ==
    ASSUME TypeOK, stored' \in CertVals,
           \E err : CertIssued(err, stored')
    PROVE  TypeOK'
<1> PICK err : CertIssued(err, stored')
  OBVIOUS
<1>1. CASE err /\ Exit("fatal")
  BY <1>1, ExitType
<1>2. CASE ~err /\ stored' = NoCert /\ Exit("panic")
  BY <1>2, ExitType
<1>3. CASE /\ ~err /\ stored' # NoCert /\ certLeft' = stored' /\ mainPc' = "spawn"
           /\ UNCHANGED <<exitCode, serveSt, serveErr, lnOpen, shutdown,
                          sigSt, sigc, notified, tickSt, tokens, cronjobs, termReq>>
  <2>1. PcTypeOK'
    BY <1>3 DEF TypeOK, PcTypeOK
  <2>2. FlagTypeOK'
    BY <1>3, Zenon DEF TypeOK, FlagTypeOK
  <2>3. DataTypeOK'
    BY <1>3 DEF TypeOK, DataTypeOK
  <2>4. QED
    BY <2>1, <2>2, <2>3 DEF TypeOK
<1>4. QED
  BY <1>1, <1>2, <1>3 DEF CertIssued

\* The initial states are well typed.
LEMMA TypeInit == Init => TypeOK
<1> SUFFICES ASSUME Init PROVE TypeOK
  OBVIOUS
<1>1. PcTypeOK
  BY DEF Init, PcTypeOK
<1>2. FlagTypeOK
  BY Zenon DEF Init, FlagTypeOK
<1>3. DataTypeOK
  BY BurstAssumption DEF Init, DataTypeOK, CertVals
<1>4. QED
  BY <1>1, <1>2, <1>3 DEF TypeOK

\* Every step of the outer loop, its goroutines and its environment keeps
\* the state well typed.
LEMMA TypeStep == TypeOK /\ [Next]_vars => TypeOK'
<1> SUFFICES ASSUME TypeOK, [Next]_vars PROVE TypeOK'
  OBVIOUS
<1>0. UNCHANGED stored => stored' \in CertVals
  BY DEF TypeOK, DataTypeOK
<1>1. CASE Setup
  <2>1. CASE Exit("fatal") /\ UNCHANGED stored
    BY <2>1, <1>0, ExitType
  <2>2. CASE /\ mainPc' = "cert"
             /\ cronjobs' = IF Managed THEN cronjobs + 1 ELSE cronjobs
             /\ UNCHANGED <<exitCode, serveSt, serveErr, lnOpen, shutdown,
                            sigSt, sigc, notified, tickSt, certLeft, stored,
                            tokens, termReq>>
    <3>1. PcTypeOK'
      BY <2>2 DEF TypeOK, PcTypeOK
    <3>2. FlagTypeOK'
      BY <2>2, Zenon DEF TypeOK, FlagTypeOK
    <3>3. DataTypeOK'
      BY <2>2 DEF TypeOK, DataTypeOK
    <3>4. QED
      BY <3>1, <3>2, <3>3 DEF TypeOK
  <2>3. QED
    BY <1>1, <2>1, <2>2, Zenon DEF Setup
<1>2. CASE ObtainCertALPN
  <2>1. CASE ~ALPNOn443 /\ Exit("fatal") /\ UNCHANGED stored
    BY <2>1, <1>0, ExitType
  <2>2. CASE \E caUp \in BOOLEAN :
               /\ stored' = AfterSync(caUp)
               /\ \/ ~ALPNOn443 /\ Exit("fatal")
                  \/ CertIssued(IF ALPNOn443 THEN ~SyncOk(caUp) ELSE FALSE, stored')
    <3>1. PICK caUp \in BOOLEAN :
               /\ stored' = AfterSync(caUp)
               /\ \/ ~ALPNOn443 /\ Exit("fatal")
                  \/ CertIssued(IF ALPNOn443 THEN ~SyncOk(caUp) ELSE FALSE, stored')
      BY <2>2, Zenon
    <3>2. stored' \in CertVals
      BY <3>1, AfterSyncType DEF TypeOK, DataTypeOK
    <3>4. CASE ~ALPNOn443 /\ Exit("fatal")
      BY <3>2, <3>4, ExitType, Zenon
    <3>5. CASE CertIssued(IF ALPNOn443 THEN ~SyncOk(caUp) ELSE FALSE, stored')
      <4>1. \E err : CertIssued(err, stored')
        BY <3>5, Zenon
      <4>2. QED
        BY <3>2, <4>1, CertIssuedType
    <3>6. QED
      BY <3>1, <3>4, <3>5, Zenon
  <2>3. QED
    BY <1>2, <2>1, <2>2, Zenon DEF ObtainCertALPN
<1>3. CASE ObtainCertDNS
  <2>1. CASE Exit("fatal") /\ UNCHANGED stored
    BY <2>1, <1>0, ExitType
  <2>2. CASE Exit("panic") /\ UNCHANGED stored
    BY <2>2, <1>0, ExitType
  <2>3. CASE \E caUp \in IF DNSProvider \in KnownProviders THEN BOOLEAN ELSE {FALSE} :
                /\ stored' = AfterSync(caUp)
                /\ CertIssued(~SyncOk(caUp), stored')
    <3>1. PICK caUp \in BOOLEAN : /\ stored' = AfterSync(caUp)
                                 /\ CertIssued(~SyncOk(caUp), stored')
      BY <2>3, Zenon
    <3>2. stored' \in CertVals
      BY <3>1, AfterSyncType DEF TypeOK, DataTypeOK
    <3>3. \E err : CertIssued(err, stored')
      BY <3>1
    <3>4. QED
      BY <3>2, <3>3, CertIssuedType
  <2>4. QED
    BY <1>3, <2>1, <2>2, <2>3, Zenon DEF ObtainCertDNS
<1>4. CASE LoadManualCert
  <2>1. CASE stored = NoCert /\ Exit("fatal") /\ UNCHANGED stored
    BY <2>1, <1>0, ExitType, Zenon
  <2>2. CASE /\ stored # NoCert
             /\ certLeft' = stored
             /\ mainPc' = "spawn"
             /\ UNCHANGED <<exitCode, serveSt, serveErr, lnOpen, shutdown,
                            sigSt, sigc, notified, tickSt, stored, tokens,
                            cronjobs, termReq>>
    <3>1. PcTypeOK'
      BY <2>2 DEF TypeOK, PcTypeOK
    <3>2. FlagTypeOK'
      BY <2>2, Zenon DEF TypeOK, FlagTypeOK
    <3>3. DataTypeOK'
      BY <2>2 DEF TypeOK, DataTypeOK, CertVals
    <3>4. QED
      BY <3>1, <3>2, <3>3 DEF TypeOK
  <2>3. QED
    BY <1>4, <2>1, <2>2, Zenon DEF LoadManualCert
<1>5. CASE Spawn
  <2>1. PcTypeOK'
    BY <1>5 DEF Spawn, TypeOK, PcTypeOK
  <2>2. FlagTypeOK'
    BY <1>5, Zenon DEF Spawn, TypeOK, FlagTypeOK
  <2>3. DataTypeOK'
    BY <1>5 DEF Spawn, TypeOK, DataTypeOK
  <2>4. QED
    BY <2>1, <2>2, <2>3 DEF TypeOK
<1>6. CASE WaitAll
  <2>1. CASE serveErr # "closed" /\ Exit("fatal") /\ UNCHANGED stored
    BY <2>1, <1>0, ExitType, Zenon
  <2>2. CASE /\ serveErr = "closed"
             /\ mainPc' = "setup" /\ serveSt' = "idle" /\ serveErr' = "none"
             /\ shutdown' = FALSE /\ sigSt' = "idle" /\ sigc' = "none"
             /\ tickSt' = "none" /\ certLeft' = NoCert
             /\ UNCHANGED <<exitCode, lnOpen, notified, stored, tokens,
                            cronjobs, termReq>>
    <3>1. PcTypeOK'
      BY <2>2 DEF TypeOK, PcTypeOK
    <3>2. FlagTypeOK'
      BY <2>2, Zenon DEF TypeOK, FlagTypeOK
    <3>3. DataTypeOK'
      BY <2>2 DEF TypeOK, DataTypeOK, CertVals
    <3>4. QED
      BY <3>1, <3>2, <3>3 DEF TypeOK
  <2>3. QED
    BY <1>6, <2>1, <2>2, Zenon DEF WaitAll
<1>7. CASE ServeListen
  <2>1. PcTypeOK'
    BY <1>7 DEF ServeListen, TypeOK, PcTypeOK
  <2>2. FlagTypeOK'
    BY <1>7, Zenon DEF ServeListen, TypeOK, FlagTypeOK
  <2>3. DataTypeOK'
    BY <1>7, BurstAssumption DEF ServeListen, TypeOK, DataTypeOK
  <2>4. QED
    BY <2>1, <2>2, <2>3 DEF TypeOK
<1>8. CASE Accept
  <2>1. PcTypeOK'
    BY <1>8 DEF Accept, TypeOK, PcTypeOK
  <2>2. FlagTypeOK'
    BY <1>8, Zenon DEF Accept, TypeOK, FlagTypeOK
  <2>3. DataTypeOK'
    BY <1>8, BucketType DEF Accept, TypeOK, DataTypeOK
  <2>4. QED
    BY <2>1, <2>2, <2>3 DEF TypeOK
<1>9. CASE ServeClosed
  <2>1. PcTypeOK'
    BY <1>9 DEF ServeClosed, TypeOK, PcTypeOK
  <2>2. FlagTypeOK'
    BY <1>9, Zenon DEF ServeClosed, TypeOK, FlagTypeOK
  <2>3. DataTypeOK'
    BY <1>9 DEF ServeClosed, TypeOK, DataTypeOK
  <2>4. QED
    BY <2>1, <2>2, <2>3 DEF TypeOK
<1>10. CASE SigRecv
  <2>1. CASE sigc = "term" /\ Exit("ok") /\ UNCHANGED stored
    BY <2>1, <1>0, ExitType, Zenon
  <2>2. CASE /\ sigc = "usr2"
             /\ sigc' = "none" /\ shutdown' = TRUE /\ sigSt' = "done"
             /\ lnOpen' = FALSE
             /\ UNCHANGED <<mainPc, exitCode, serveSt, serveErr, notified,
                            tickSt, certLeft, stored, tokens, cronjobs, termReq>>
    <3>1. PcTypeOK'
      BY <2>2 DEF TypeOK, PcTypeOK
    <3>2. FlagTypeOK'
      BY <2>2, Zenon DEF TypeOK, FlagTypeOK
    <3>3. DataTypeOK'
      BY <2>2 DEF TypeOK, DataTypeOK, CertVals
    <3>4. QED
      BY <3>1, <3>2, <3>3 DEF TypeOK
  <2>3. QED
    BY <1>10, <2>1, <2>2, Zenon DEF SigRecv
<1>11. CASE TickerCheck
  <2>1. PcTypeOK'
    BY <1>11 DEF TickerCheck, TypeOK, PcTypeOK
  <2>2. FlagTypeOK'
    BY <1>11, Zenon DEF TickerCheck, TypeOK, FlagTypeOK
  <2>3. DataTypeOK'
    BY <1>11 DEF TickerCheck, TypeOK, DataTypeOK
  <2>4. QED
    BY <2>1, <2>2, <2>3 DEF TypeOK
<1>12. CASE TickerSend
  <2>1. PcTypeOK'
    BY <1>12 DEF TickerSend, TypeOK, PcTypeOK
  <2>2. FlagTypeOK'
    BY <1>12, Zenon DEF TickerSend, TypeOK, FlagTypeOK
  <2>3. DataTypeOK'
    BY <1>12 DEF TickerSend, TypeOK, DataTypeOK
  <2>4. QED
    BY <2>1, <2>2, <2>3 DEF TypeOK
<1>13. CASE Tick
  <2>1. PcTypeOK'
    BY <1>13 DEF Tick, TypeOK, PcTypeOK
  <2>2. FlagTypeOK'
    BY <1>13, Zenon DEF Tick, TypeOK, FlagTypeOK
  <2>3. DataTypeOK'
    BY <1>13, AgeType, BucketType DEF Tick, TypeOK, DataTypeOK
  <2>4. QED
    BY <2>1, <2>2, <2>3 DEF TypeOK
<1>14. CASE SendTerm
  <2>1. PcTypeOK'
    BY <1>14 DEF SendTerm, TypeOK, PcTypeOK
  <2>2. FlagTypeOK'
    BY <1>14, Zenon DEF SendTerm, TypeOK, FlagTypeOK
  <2>3. DataTypeOK'
    BY <1>14 DEF SendTerm, TypeOK, DataTypeOK
  <2>4. QED
    BY <2>1, <2>2, <2>3 DEF TypeOK
<1>15. CASE Terminated \/ UNCHANGED vars
  <2>1. UNCHANGED vars
    BY <1>15 DEF Terminated
  <2>2. QED
    BY <2>1 DEF vars, TypeOK, PcTypeOK, FlagTypeOK, DataTypeOK
<1>16. QED
  BY <1>1, <1>2, <1>3, <1>4, <1>5, <1>6, <1>7, <1>8, <1>9, <1>10, <1>11,
     <1>12, <1>13, <1>14, <1>15 DEF Next

\* Every reachable state of the outer loop is well typed: in particular the
\* token bucket of rateLimitedListener never goes below zero or above the
\* burst however Accept and the refill interleave, and certificate
\* validities stay in their range across restarts.
THEOREM TypeCorrect == Spec => []TypeOK
BY TypeInit, TypeStep, PTL DEF Spec

-----------------------------------------------------------------------------
(* Certificate validity *)

\* The configurations in which the epoch's certificate is checked: the
\* letsencrypt mode with the DNS-01 challenge or with TLS-ALPN on port 443,
\* where the error of ManageSync reaches the log.Fatal.
CheckedConfig ==
    CertMode = "letsencrypt" /\ (DNSProvider # "" \/ ALPNOn443)

\* A bound listener belongs to a running epoch whose serve goroutine is in
\* Serve and that has not been shut down.
BoundInServe == lnOpen => Running /\ serveSt = "serving" /\ ~shutdown

\* The serve goroutine of an epoch exists only once main waits on it.
ServeInWait == serveSt # "idle" => mainPc = "wait"

\* In letsencrypt mode a running epoch that main waits on has its ticker.
TickerInWait == (Running /\ mainPc = "wait") => tickSt # "none"

\* The certificate taken for an epoch has at least one clock unit left.
SpawnCert == mainPc = "spawn" => certLeft \in Nat \ {0}

\* While the ticker waits, the epoch's certificate has a unit left.
WaitingCert == (mainPc = "wait" /\ tickSt = "waiting") => certLeft \in Nat \ {0}

\* Once the ticker has fired the certificate has not yet expired.
FiredCert == (mainPc = "wait" /\ tickSt \in {"fired", "send", "done"}) => certLeft \in Nat

CertFacts ==
    BoundInServe /\ ServeInWait /\ TickerInWait /\ SpawnCert /\ WaitingCert /\ FiredCert

\* The inductive strengthening of CertValidWhileBound.
CertInv == TypeOK /\ CertFacts

\* A ManageSync that reported no error leaves on disk a certificate with at
\* least one clock unit left.
LEMMA SyncedCert ==
    ASSUME stored \in CertVals, NEW caUp \in BOOLEAN, SyncOk(caUp)
    PROVE  AfterSync(caUp) \in Nat \ {0}
BY LifeAssumption, WindowAssumption, NoCertAssumption
   DEF SyncOk, AfterSync, NeedsIssue, CertVals

\* log.Fatal, a panic or os.Exit keeps the facts: the listener is closed and
\* nothing else that they mention changes.
LEMMA ExitFacts ==
    ASSUME CertFacts, NEW code, code # "running", Exit(code)
    PROVE  CertFacts'
BY DEF Exit, CertFacts, BoundInServe, ServeInWait, TickerInWait, SpawnCert,
       WaitingCert, FiredCert, Running

\* The end of the certificate switch, when it takes a certificate with a
\* unit left for the epoch, keeps the facts: no goroutine of the epoch runs
\* yet and no listener is bound.
LEMMA CertTakenFacts ==
    ASSUME CertFacts, mainPc = "cert", mainPc' = "spawn", certLeft' \in Nat \ {0},
           UNCHANGED <<exitCode, serveSt, lnOpen, shutdown, tickSt>>
    PROVE  CertFacts'
<1>1. serveSt = "idle" /\ ~lnOpen
  BY DEF CertFacts, ServeInWait, BoundInServe
<1>2. BoundInServe'
  BY <1>1, Zenon DEF BoundInServe
<1>3. ServeInWait'
  BY <1>1 DEF ServeInWait
<1>4. TickerInWait' /\ WaitingCert' /\ FiredCert'
  BY DEF TickerInWait, WaitingCert, FiredCert
<1>5. SpawnCert'
  BY DEF SpawnCert
<1>6. QED
  BY <1>2, <1>3, <1>4, <1>5 DEF CertFacts

\* The initial state satisfies the strengthening.
LEMMA CertInit == Init => CertInv
BY TypeInit DEF Init, CertInv, CertFacts, BoundInServe, ServeInWait,
   TickerInWait, SpawnCert, WaitingCert, FiredCert

\* In a checked configuration every step keeps the strengthening: the
\* certificate an epoch takes is one ManageSync vouched for, the ticker sees
\* every clock unit and asks for a restart before the certificate runs out,
\* and a listener is bound only inside the epoch that owns that certificate.
LEMMA CertStep == CheckedConfig /\ CertInv /\ [Next]_vars => CertInv'
<1> SUFFICES ASSUME CheckedConfig, CertInv, [Next]_vars PROVE CertInv'
  OBVIOUS
<1>0. TypeOK'
  BY TypeStep DEF CertInv
<1> USE DEF CertInv
<1>1. CASE Setup
  <2>1. CASE Exit("fatal") /\ UNCHANGED stored
    BY <1>0, <2>1, ExitFacts
  <2>2. CASE /\ mainPc' = "cert"
             /\ cronjobs' = IF Managed THEN cronjobs + 1 ELSE cronjobs
             /\ UNCHANGED <<exitCode, serveSt, serveErr, lnOpen, shutdown,
                            sigSt, sigc, notified, tickSt, certLeft, stored,
                            tokens, termReq>>
    BY <1>0, <1>1, <2>2 DEF Setup, CertFacts, BoundInServe, ServeInWait, TickerInWait, SpawnCert, WaitingCert, FiredCert, Running
  <2>3. QED
    BY <1>1, <2>1, <2>2, Zenon DEF Setup
<1>2. CASE ObtainCertALPN
  <2>1. ALPNOn443
    BY <1>2 DEF ObtainCertALPN, CheckedConfig
  <2>2. CASE ~ALPNOn443 /\ Exit("fatal") /\ UNCHANGED stored
    BY <2>1, <2>2
  <2>3. CASE \E caUp \in BOOLEAN :
               /\ stored' = AfterSync(caUp)
               /\ \/ ~ALPNOn443 /\ Exit("fatal")
                  \/ CertIssued(IF ALPNOn443 THEN ~SyncOk(caUp) ELSE FALSE, stored')
    <3>1. PICK caUp \in BOOLEAN :
               /\ stored' = AfterSync(caUp)
               /\ CertIssued(~SyncOk(caUp), stored')
      BY <2>1, <2>3, Zenon
    <3>2. CASE ~SyncOk(caUp) /\ Exit("fatal")
      BY <1>0, <3>2, ExitFacts
    <3>3. CASE SyncOk(caUp) /\ stored' = NoCert /\ Exit("panic")
      BY <1>0, <3>3, ExitFacts
    <3>4. CASE /\ SyncOk(caUp) /\ certLeft' = stored' /\ mainPc' = "spawn"
               /\ UNCHANGED <<exitCode, serveSt, serveErr, lnOpen, shutdown,
                              sigSt, sigc, notified, tickSt, tokens, cronjobs, termReq>>
      <4>1. certLeft' \in Nat \ {0}
        BY <3>1, <3>4, SyncedCert DEF TypeOK, DataTypeOK
      <4>2. mainPc = "cert"
        BY <1>2 DEF ObtainCertALPN
      <4>3. UNCHANGED <<exitCode, serveSt, lnOpen, shutdown, tickSt>>
        BY <3>4
      <4>4. QED
        BY <1>0, <3>4, <4>1, <4>2, <4>3, CertTakenFacts
    <3>5. QED
      BY <3>1, <3>2, <3>3, <3>4, Zenon DEF CertIssued
  <2>4. QED
    BY <1>2, <2>2, <2>3, Zenon DEF ObtainCertALPN
<1>3. CASE ObtainCertDNS
  <2>1. CASE Exit("fatal") /\ UNCHANGED stored
    BY <1>0, <2>1, ExitFacts
  <2>2. CASE Exit("panic") /\ UNCHANGED stored
    BY <1>0, <2>2, ExitFacts
  <2>3. CASE \E caUp \in IF DNSProvider \in KnownProviders THEN BOOLEAN ELSE {FALSE} :
               /\ stored' = AfterSync(caUp)
               /\ CertIssued(~SyncOk(caUp), stored')
    <3>1. PICK caUp \in BOOLEAN :
               /\ stored' = AfterSync(caUp)
               /\ CertIssued(~SyncOk(caUp), stored')
      BY <2>3, Zenon
    <3>2. CASE ~SyncOk(caUp) /\ Exit("fatal")
      BY <1>0, <3>2, ExitFacts
    <3>3. CASE SyncOk(caUp) /\ stored' = NoCert /\ Exit("panic")
      BY <1>0, <3>3, ExitFacts
    <3>4. CASE /\ SyncOk(caUp) /\ certLeft' = stored' /\ mainPc' = "spawn"
               /\ UNCHANGED <<exitCode, serveSt, serveErr, lnOpen, shutdown,
                              sigSt, sigc, notified, tickSt, tokens, cronjobs, termReq>>
      <4>1. certLeft' \in Nat \ {0}
        BY <3>1, <3>4, SyncedCert DEF TypeOK, DataTypeOK
      <4>2. mainPc = "cert"
        BY <1>3 DEF ObtainCertDNS
      <4>3. UNCHANGED <<exitCode, serveSt, lnOpen, shutdown, tickSt>>
        BY <3>4
      <4>4. QED
        BY <1>0, <3>4, <4>1, <4>2, <4>3, CertTakenFacts
    <3>5. QED
      BY <3>1, <3>2, <3>3, <3>4, Zenon DEF CertIssued
  <2>4. QED
    BY <1>3, <2>1, <2>2, <2>3, Zenon DEF ObtainCertDNS
<1>4. CASE LoadManualCert
  BY <1>4 DEF LoadManualCert, CheckedConfig
<1>5. CASE Spawn
  BY <1>0, <1>5 DEF Spawn, CheckedConfig, CertFacts, BoundInServe, ServeInWait,
       TickerInWait, SpawnCert, WaitingCert, FiredCert, Running
<1>6. CASE WaitAll
  <2>1. CASE serveErr # "closed" /\ Exit("fatal") /\ UNCHANGED stored
    BY <1>0, <2>1, ExitFacts
  <2>2. CASE /\ serveErr = "closed"
             /\ mainPc' = "setup" /\ serveSt' = "idle" /\ serveErr' = "none"
             /\ shutdown' = FALSE /\ sigSt' = "idle" /\ sigc' = "none"
             /\ tickSt' = "none" /\ certLeft' = NoCert
             /\ UNCHANGED <<exitCode, lnOpen, notified, stored, tokens,
                            cronjobs, termReq>>
    BY <1>0, <1>6, <2>2 DEF WaitAll, CertFacts, BoundInServe, ServeInWait,
       TickerInWait, SpawnCert, WaitingCert, FiredCert, Running
  <2>3. QED
    BY <1>6, <2>1, <2>2, Zenon DEF WaitAll
<1>7. CASE ServeListen
  BY <1>0, <1>7 DEF ServeListen, CertFacts, BoundInServe, ServeInWait,
       TickerInWait, SpawnCert, WaitingCert, FiredCert, Running
<1>8. CASE Accept
  BY <1>0, <1>8 DEF Accept, CertFacts, BoundInServe, ServeInWait,
       TickerInWait, SpawnCert, WaitingCert, FiredCert, Running
<1>9. CASE ServeClosed
  BY <1>0, <1>9 DEF ServeClosed, CertFacts, BoundInServe, ServeInWait,
       TickerInWait, SpawnCert, WaitingCert, FiredCert, Running
<1>10. CASE SigRecv
  <2>1. CASE sigc = "term" /\ Exit("ok") /\ UNCHANGED stored
    BY <1>0, <2>1, ExitFacts
  <2>2. CASE /\ sigc = "usr2"
             /\ sigc' = "none" /\ shutdown' = TRUE /\ sigSt' = "done"
             /\ lnOpen' = FALSE
             /\ UNCHANGED <<mainPc, exitCode, serveSt, serveErr, notified,
                            tickSt, certLeft, stored, tokens, cronjobs, termReq>>
    BY <1>0, <1>10, <2>2 DEF SigRecv, CertFacts, BoundInServe, ServeInWait,
       TickerInWait, SpawnCert, WaitingCert, FiredCert, Running
  <2>3. QED
    BY <1>10, <2>1, <2>2, Zenon DEF SigRecv
<1>11. CASE TickerCheck
  BY <1>0, <1>11, BeforeAssumption DEF TickerCheck, TypeOK, DataTypeOK, CertVals, CertFacts, BoundInServe, ServeInWait,
       TickerInWait, SpawnCert, WaitingCert, FiredCert, Running
<1>12. CASE TickerSend
  BY <1>0, <1>12 DEF TickerSend, CertFacts, BoundInServe, ServeInWait,
       TickerInWait, SpawnCert, WaitingCert, FiredCert, Running
<1>13. CASE Tick
  BY <1>0, <1>13, NoCertAssumption DEF Tick, Quiescent, Age, CertFacts, BoundInServe, ServeInWait,
       TickerInWait, SpawnCert, WaitingCert, FiredCert, Running
<1>14. CASE SendTerm
  BY <1>0, <1>14 DEF SendTerm, CertFacts, BoundInServe, ServeInWait,
       TickerInWait, SpawnCert, WaitingCert, FiredCert, Running
<1>15. CASE Terminated \/ UNCHANGED vars
  BY <1>0, <1>15 DEF Terminated, vars, CertFacts, BoundInServe, ServeInWait,
       TickerInWait, SpawnCert, WaitingCert, FiredCert, Running
<1>16. QED
  BY <1>1, <1>2, <1>3, <1>4, <1>5, <1>6, <1>7, <1>8, <1>9, <1>10, <1>11,
     <1>12, <1>13, <1>14, <1>15 DEF Next

\* Certificate validity (spec 8), for every value of the constants: in the
\* letsencrypt configurations whose ManageSync error reaches the log.Fatal,
\* the TLS listener is only ever bound while the certificate taken for its
\* epoch exists and has not expired. The ticker's 7-day check and the
\* SIGUSR2 restart are what keep it so.
THEOREM CertValid == CheckedConfig => (Spec => []CertValidWhileBound)
<1> SUFFICES ASSUME CheckedConfig PROVE Spec => []CertValidWhileBound
  OBVIOUS
<1>1. CertInv => CertValidWhileBound
  <2> SUFFICES ASSUME CertInv, lnOpen PROVE certLeft \in Nat
    BY DEF CertValidWhileBound
  <2>1. Running /\ serveSt = "serving"
    BY DEF CertInv, CertFacts, BoundInServe
  <2>2. mainPc = "wait" /\ tickSt # "none"
    BY <2>1 DEF CertInv, CertFacts, ServeInWait, TickerInWait
  <2>3. tickSt \in {"waiting", "fired", "send", "done"}
    BY <2>2 DEF CertInv, TypeOK, PcTypeOK
  <2>4. QED
    BY <2>2, <2>3 DEF CertInv, CertFacts, WaitingCert, FiredCert
<1>2. QED
  BY <1>1, CertInit, CertStep, PTL DEF Spec

-----------------------------------------------------------------------------
(* Restarts happen only near expiry *)

\* The ticker goroutine exists only while main waits on its epoch.
TickerOnlyInWait == tickSt # "none" => mainPc = "wait"

\* From the certificate switch on, the epoch has a certificate.
EpochHasCert == mainPc \in {"spawn", "wait"} => certLeft \in Int

\* The ticker sent, or is about to send, SIGUSR2 only after it found less
\* than RenewBefore left, and no time has passed since.
SentNearExpiry == tickSt \in {"send", "done"} => certLeft < RenewBefore

\* A pending SIGUSR2 was sent by this epoch's ticker.
Usr2FromTicker == sigc = "usr2" => tickSt = "done"

\* sigFunc of a running epoch returned only on the ticker's SIGUSR2.
SigDoneOnUsr2 == (sigSt = "done" /\ Running) => tickSt = "done"

\* The inductive invariant behind RestartOnlyNearExpiry.
RestartFacts ==
    /\ TickerOnlyInWait /\ EpochHasCert /\ SentNearExpiry
    /\ Usr2FromTicker /\ SigDoneOnUsr2

RestartInv == TypeOK /\ RestartFacts

\* log.Fatal, a panic or os.Exit keeps the facts about the ticker.
LEMMA ExitRestart ==
    ASSUME RestartFacts, NEW code, code # "running", Exit(code)
    PROVE  RestartFacts'
BY DEF Exit, RestartFacts, TickerOnlyInWait, EpochHasCert,
       SentNearExpiry, Usr2FromTicker, SigDoneOnUsr2, Running

\* The certificate switch taking a certificate keeps the facts: the epoch's
\* ticker and sigFunc do not exist yet.
LEMMA CertTakenRestart ==
    ASSUME RestartFacts, mainPc = "cert", mainPc' = "spawn", certLeft' \in Int,
           UNCHANGED <<exitCode, sigSt, sigc, tickSt>>
    PROVE  RestartFacts'
BY DEF RestartFacts, TickerOnlyInWait, EpochHasCert,
       SentNearExpiry, Usr2FromTicker, SigDoneOnUsr2, Running

\* The initial state satisfies the invariant.
LEMMA RestartInit == Init => RestartInv
BY TypeInit DEF Init, RestartInv, RestartFacts, TickerOnlyInWait, EpochHasCert,
       SentNearExpiry, Usr2FromTicker, SigDoneOnUsr2, Running

\* Every step keeps the invariant, in every configuration.
LEMMA RestartStep == RestartInv /\ [Next]_vars => RestartInv'
<1> SUFFICES ASSUME RestartInv, [Next]_vars PROVE RestartInv'
  OBVIOUS
<1>0. TypeOK'
  BY TypeStep DEF RestartInv
<1> USE DEF RestartInv
<1>1. CASE Setup
  <2>1. CASE Exit("fatal") /\ UNCHANGED stored
    BY <1>0, <2>1, ExitRestart
  <2>2. CASE /\ mainPc' = "cert"
             /\ cronjobs' = IF Managed THEN cronjobs + 1 ELSE cronjobs
             /\ UNCHANGED <<exitCode, serveSt, serveErr, lnOpen, shutdown,
                            sigSt, sigc, notified, tickSt, certLeft, stored,
                            tokens, termReq>>
    BY <1>0, <1>1, <2>2 DEF Setup, TypeOK, DataTypeOK, CertVals, RestartFacts, TickerOnlyInWait, EpochHasCert,
       SentNearExpiry, Usr2FromTicker, SigDoneOnUsr2, Running
  <2>3. QED
    BY <1>1, <2>1, <2>2, Zenon DEF Setup
<1>2. CASE ObtainCertALPN
  <2>1. CASE \E code \in {"fatal", "panic"} : Exit(code)
    BY <1>0, <2>1, ExitRestart
  <2>2. CASE \E err : CertIssued(err, stored')
    <3>1. PICK err : CertIssued(err, stored')
      BY <2>2
    <3>2. CASE \E code \in {"fatal", "panic"} : Exit(code)
      BY <1>0, <3>2, ExitRestart
    <3>3. CASE /\ stored' # NoCert /\ certLeft' = stored' /\ mainPc' = "spawn"
               /\ UNCHANGED <<exitCode, serveSt, serveErr, lnOpen, shutdown,
                              sigSt, sigc, notified, tickSt, tokens, cronjobs, termReq>>
      <4>1. certLeft' \in Int
        BY <1>0, <3>3 DEF TypeOK, DataTypeOK, CertVals
      <4>2. mainPc = "cert"
        BY <1>2 DEF ObtainCertALPN
      <4>3. UNCHANGED <<exitCode, sigSt, sigc, tickSt>>
        BY <3>3
      <4>4. QED
        BY <1>0, <3>3, <4>1, <4>2, <4>3, CertTakenRestart
    <3>4. QED
      BY <3>1, <3>2, <3>3, Zenon DEF CertIssued
  <2>3. QED
    BY <1>2, <2>1, <2>2, Zenon DEF ObtainCertALPN
<1>3. CASE ObtainCertDNS
  <2>1. CASE \E code \in {"fatal", "panic"} : Exit(code)
    BY <1>0, <2>1, ExitRestart
  <2>2. CASE \E err : CertIssued(err, stored')
    <3>1. PICK err : CertIssued(err, stored')
      BY <2>2
    <3>2. CASE \E code \in {"fatal", "panic"} : Exit(code)
      BY <1>0, <3>2, ExitRestart
    <3>3. CASE /\ stored' # NoCert /\ certLeft' = stored' /\ mainPc' = "spawn"
               /\ UNCHANGED <<exitCode, serveSt, serveErr, lnOpen, shutdown,
                              sigSt, sigc, notified, tickSt, tokens, cronjobs, termReq>>
      <4>1. certLeft' \in Int
        BY <1>0, <3>3 DEF TypeOK, DataTypeOK, CertVals
      <4>2. mainPc = "cert"
        BY <1>3 DEF ObtainCertDNS
      <4>3. UNCHANGED <<exitCode, sigSt, sigc, tickSt>>
        BY <3>3
      <4>4. QED
        BY <1>0, <3>3, <4>1, <4>2, <4>3, CertTakenRestart
    <3>4. QED
      BY <3>1, <3>2, <3>3, Zenon DEF CertIssued
  <2>3. QED
    BY <1>3, <2>1, <2>2, Zenon DEF ObtainCertDNS
<1>4. CASE LoadManualCert
  <2>1. CASE stored = NoCert /\ Exit("fatal") /\ UNCHANGED stored
    BY <1>0, <2>1, ExitRestart
  <2>2. CASE /\ stored # NoCert
             /\ certLeft' = stored
             /\ mainPc' = "spawn"
             /\ UNCHANGED <<exitCode, serveSt, serveErr, lnOpen, shutdown,
                            sigSt, sigc, notified, tickSt, stored, tokens,
                            cronjobs, termReq>>
    BY <1>0, <1>4, <2>2 DEF LoadManualCert, TypeOK, DataTypeOK, CertVals, RestartFacts, TickerOnlyInWait, EpochHasCert,
       SentNearExpiry, Usr2FromTicker, SigDoneOnUsr2, Running
  <2>3. QED
    BY <1>4, <2>1, <2>2, Zenon DEF LoadManualCert
<1>5. CASE Spawn
  BY <1>0, <1>5 DEF Spawn, RestartFacts, TickerOnlyInWait, EpochHasCert,
       SentNearExpiry, Usr2FromTicker, SigDoneOnUsr2, Running
<1>6. CASE WaitAll
  <2>1. CASE serveErr # "closed" /\ Exit("fatal") /\ UNCHANGED stored
    BY <1>0, <2>1, ExitRestart
  <2>2. CASE /\ serveErr = "closed"
             /\ mainPc' = "setup" /\ serveSt' = "idle" /\ serveErr' = "none"
             /\ shutdown' = FALSE /\ sigSt' = "idle" /\ sigc' = "none"
             /\ tickSt' = "none" /\ certLeft' = NoCert
             /\ UNCHANGED <<exitCode, lnOpen, notified, stored, tokens,
                            cronjobs, termReq>>
    BY <1>0, <1>6, <2>2 DEF WaitAll, TypeOK, DataTypeOK, CertVals, RestartFacts, TickerOnlyInWait, EpochHasCert,
       SentNearExpiry, Usr2FromTicker, SigDoneOnUsr2, Running
  <2>3. QED
    BY <1>6, <2>1, <2>2, Zenon DEF WaitAll
<1>7. CASE ServeListen
  BY <1>0, <1>7 DEF ServeListen, RestartFacts, TickerOnlyInWait, EpochHasCert,
       SentNearExpiry, Usr2FromTicker, SigDoneOnUsr2, Running
<1>8. CASE Accept
  BY <1>0, <1>8 DEF Accept, RestartFacts, TickerOnlyInWait, EpochHasCert,
       SentNearExpiry, Usr2FromTicker, SigDoneOnUsr2, Running
<1>9. CASE ServeClosed
  BY <1>0, <1>9 DEF ServeClosed, RestartFacts, TickerOnlyInWait, EpochHasCert,
       SentNearExpiry, Usr2FromTicker, SigDoneOnUsr2, Running
<1>10. CASE SigRecv
  <2>1. CASE sigc = "term" /\ Exit("ok") /\ UNCHANGED stored
    BY <1>0, <2>1, ExitRestart
  <2>2. CASE /\ sigc = "usr2"
             /\ sigc' = "none" /\ shutdown' = TRUE /\ sigSt' = "done"
             /\ lnOpen' = FALSE
             /\ UNCHANGED <<mainPc, exitCode, serveSt, serveErr, notified,
                            tickSt, certLeft, stored, tokens, cronjobs, termReq>>
    BY <1>0, <1>10, <2>2 DEF SigRecv, TypeOK, DataTypeOK, CertVals, RestartFacts, TickerOnlyInWait, EpochHasCert,
       SentNearExpiry, Usr2FromTicker, SigDoneOnUsr2, Running
  <2>3. QED
    BY <1>10, <2>1, <2>2, Zenon DEF SigRecv
<1>11. CASE TickerCheck
  BY <1>0, <1>11 DEF TickerCheck, RestartFacts, TickerOnlyInWait, EpochHasCert,
       SentNearExpiry, Usr2FromTicker, SigDoneOnUsr2, Running
<1>12. CASE TickerSend
  BY <1>0, <1>12 DEF TickerSend, RestartFacts, TickerOnlyInWait, EpochHasCert,
       SentNearExpiry, Usr2FromTicker, SigDoneOnUsr2, Running
<1>13. CASE Tick
  BY <1>0, <1>13, NoCertAssumption DEF Tick, Quiescent, Age, RestartFacts, TickerOnlyInWait, EpochHasCert,
       SentNearExpiry, Usr2FromTicker, SigDoneOnUsr2, Running
<1>14. CASE SendTerm
  BY <1>0, <1>14 DEF SendTerm, RestartFacts, TickerOnlyInWait, EpochHasCert,
       SentNearExpiry, Usr2FromTicker, SigDoneOnUsr2, Running
<1>15. CASE Terminated \/ UNCHANGED vars
  BY <1>0, <1>15 DEF Terminated, vars, RestartFacts, TickerOnlyInWait, EpochHasCert,
       SentNearExpiry, Usr2FromTicker, SigDoneOnUsr2, Running
<1>16. QED
  BY <1>1, <1>2, <1>3, <1>4, <1>5, <1>6, <1>7, <1>8, <1>9, <1>10, <1>11,
     <1>12, <1>13, <1>14, <1>15 DEF Next

\* Restarts happen only near expiry, in every configuration and for every
\* value of the constants: errgroup.Wait returns ErrServerClosed and the
\* loop starts a new epoch only after the ticker found less than
\* RenewBefore left on the epoch's certificate; an operator's signal exits
\* instead of restarting.
THEOREM RestartNearExpiry == Spec => RestartOnlyNearExpiry
<1>1. RestartInv /\ [Next]_vars
        => [(Running /\ mainPc = "wait" /\ mainPc' = "setup") => certLeft < RenewBefore]_vars
  <2> SUFFICES ASSUME RestartInv, [Next]_vars, Running, mainPc = "wait", mainPc' = "setup"
               PROVE  certLeft < RenewBefore
    BY DEF Running
  <2>1. WaitAll
    <3>1. ~(Setup \/ ObtainCertALPN \/ ObtainCertDNS \/ LoadManualCert \/ Spawn)
      BY DEF Setup, ObtainCertALPN, ObtainCertDNS, LoadManualCert, Spawn
    <3>2. ~(ServeListen \/ Accept \/ ServeClosed \/ SigRecv \/ TickerCheck \/ TickerSend)
      BY DEF ServeListen, Accept, ServeClosed, SigRecv, Exit, TickerCheck, TickerSend
    <3>3. ~(Tick \/ SendTerm \/ Terminated \/ UNCHANGED vars)
      BY DEF Tick, SendTerm, Terminated, Running, vars
    <3>4. QED
      BY <3>1, <3>2, <3>3 DEF Next
  <2>2. sigSt = "done"
    BY <2>1 DEF WaitAll
  <2>3. QED
    BY <2>2 DEF RestartInv, RestartFacts, SigDoneOnUsr2, SentNearExpiry
<1>2. QED
  BY <1>1, RestartInit, RestartStep, PTL DEF Spec, RestartOnlyNearExpiry

=============================================================================
