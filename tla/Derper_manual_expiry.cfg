CONSTANTS
    CertMode = "manual"
    DNSProvider = ""
    SetIP = FALSE
    ALPNOn443 = TRUE
    Managed = FALSE
    AcceptConnLimit <- MCLimit
    AcceptConnBurst <- MCBurst
    Inf = Inf
    NoCert = NoCert
    CertLife <- MCCertLife
    RenewWindow <- MCRenewWindow
    RenewBefore <- MCRenewBefore
SPECIFICATION FreshStoredSpec
INVARIANT CertValidWhileBound
