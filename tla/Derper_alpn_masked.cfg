CONSTANTS
    CertMode = "letsencrypt"
    DNSProvider = ""
    SetIP = FALSE
    ALPNOn443 = FALSE
    Managed = FALSE
    AcceptConnLimit <- MCLimit
    AcceptConnBurst <- MCBurst
    Inf = Inf
    NoCert = NoCert
    CertLife <- MCCertLife
    RenewWindow <- MCRenewWindow
    RenewBefore <- MCRenewBefore
SPECIFICATION Spec
INVARIANT CertValidWhileBound
