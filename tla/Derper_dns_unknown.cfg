CONSTANTS
    CertMode = "letsencrypt"
    DNSProvider = "bogus"
    SetIP = FALSE
    ALPNOn443 = TRUE
    Managed = FALSE
    AcceptConnLimit <- MCLimit
    AcceptConnBurst <- MCBurst
    Inf = Inf
    NoCert = NoCert
    CertLife <- MCCertLife
    RenewWindow <- MCRenewWindow
    RenewBefore <- MCRenewBefore
SPECIFICATION Spec
INVARIANT UnknownProviderNeverServes
