\* letsencrypt on port 443 with the TLS-ALPN challenge, unmanaged node.
CONSTANTS
    CertMode = "letsencrypt"
    DNSProvider = ""
    SetIP = FALSE
    ALPNOn443 = TRUE
    Managed = FALSE
    AcceptConnLimit <- MCLimit
    AcceptConnBurst <- MCBurst
    Inf = Inf
    NoCert = NoCert
    CertLife <- MCCertLife
    RenewWindow <- MCRenewWindow
    RenewBefore <- MCRenewBefore
SPECIFICATION FairSpec
INVARIANT TypeOK
INVARIANT CertValidWhileBound
PROPERTY RestartOnlyNearExpiry
PROPERTY ExpiryLeadsToRotation
