-------------------------- MODULE MC_StunResponder --------------------------
(* StunResponder with one IPv4 and one IPv6 sender.                          *)
EXTENDS StunResponder

CONSTANTS a4, a6, t1, t2

MCAddrs == {a4, a6}
MCV4Addrs == {a4}
MCTxIDs == {t1, t2}

\* Three datagrams into a buffer of two: one can be dropped while the
\* goroutine sleeps after a read error.
MCBufCap == 2
MCMaxArrivals == 3
MCMaxReadErrors == 1
=============================================================================
