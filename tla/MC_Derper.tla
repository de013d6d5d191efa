------------------------------ MODULE MC_Derper ------------------------------
(* Small instances of Derper for TLC. One clock unit is one ticker period. *)
EXTENDS Derper

\* A certificate lives three periods; certmagic renews with less than two
\* left, the ticker restarts with less than one left (90d, 30d and 7d scaled
\* so that every comparison has both outcomes).
MCCertLife == 3
MCRenewWindow == 2
MCRenewBefore == 1

\* One token per period and a burst of one: a second connection within a
\* period is rejected.
MCLimit == 1
MCBurst == 1

\* The manual certificate on disk is valid when derper starts: any expiry
\* the run finds happens while the listener is bound.
FreshStoredInit == Init /\ stored \in 1..CertLife
FreshStoredSpec == FreshStoredInit /\ [][Next]_vars
=============================================================================
