\* Tray, installer, uninstaller and service together: the installer the tray launches always ends, the tray always hears how Start went, and Tx follows the tray protocol.
CONSTANTS
    InstallTick <- MCInstallTick
    InstallAfter <- MCInstallAfter
    StartTick <- MCStartTick
    StartAfter <- MCStartAfter
    UninstallTick <- MCUninstallTick
    UninstallAfter <- MCUninstallAfter
    WatchTick <- MCWatchTick
    WatchAfter <- MCWatchAfter
    DeleteWaitPolls <- MCDeleteWaitPolls
    MaxCrashes <- MCMaxCrashes
    Retries <- MCRetries
    TxCap <- MCTxCap
SPECIFICATION FairSpec
\* The watcher returns and the tray stops reading once Tx is empty; the helpers exit and a stable service takes no step.
CHECK_DEADLOCK FALSE
CONSTRAINT OneDisturbance
INVARIANT TypeOK
PROPERTY InstallerTerminates StartReports ImplementsTray
