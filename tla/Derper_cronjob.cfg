CONSTANTS
    CertMode = "letsencrypt"
    DNSProvider = ""
    SetIP = FALSE
    ALPNOn443 = TRUE
    Managed = TRUE
    AcceptConnLimit <- MCLimit
    AcceptConnBurst <- MCBurst
    Inf = Inf
    NoCert = NoCert
    CertLife <- MCCertLife
    RenewWindow <- MCRenewWindow
    RenewBefore <- MCRenewBefore
SPECIFICATION Spec
INVARIANT AtMostOneCronjob
