\* Every response reflects a well-formed request; every read is counted once.
CONSTANTS
    a4 = a4
    a6 = a6
    t1 = t1
    t2 = t2
    Addrs <- MCAddrs
    V4Addrs <- MCV4Addrs
    TxIDs <- MCTxIDs
    BufCap <- MCBufCap
    MaxArrivals <- MCMaxArrivals
    MaxReadErrors <- MCMaxReadErrors
SPECIFICATION FairSpec
\* The senders stop after MaxArrivals datagrams; the goroutine then blocks
\* in ReadFromUDP, and a failed bind ends the process.
CHECK_DEADLOCK FALSE
INVARIANT TypeOK
INVARIANT ProbeCorrect
INVARIANT CountersAccount
