CONSTANTS
    CertMode = "letsencrypt"
    DNSProvider = ""
    SetIP = FALSE
    ALPNOn443 = TRUE
    Managed = FALSE
    AcceptConnLimit = Inf
    AcceptConnBurst <- MCBurst
    Inf = Inf
    NoCert = NoCert
    CertLife <- MCCertLife
    RenewWindow <- MCRenewWindow
    RenewBefore <- MCRenewBefore
SPECIFICATION Spec
INVARIANT NoOutageWhileRunning
