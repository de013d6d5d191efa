CONSTANTS
    CertMode = "letsencrypt"
    DNSProvider = "cloudflare"
    SetIP = TRUE
    ALPNOn443 = TRUE
    Managed = FALSE
    AcceptConnLimit <- MCLimit
    AcceptConnBurst <- MCBurst
    Inf = Inf
    NoCert = NoCert
    CertLife <- MCCertLife
    RenewWindow <- MCRenewWindow
    RenewBefore <- MCRenewBefore
SPECIFICATION FairSpec
INVARIANT CertValidWhileBound
PROPERTY ExpiryLeadsToRotation
