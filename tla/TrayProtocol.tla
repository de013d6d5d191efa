--------------------------- MODULE TrayProtocol ---------------------------
(***************************************************************************)
(* What the tray can rely on from the watcher's Tx channel, with no      *)
(* goroutines, timers, retries or daemon: while Start runs, at most one    *)
(* message is sent, WatcherUpEvent ("up") or an error that ends it; after  *)
(* WatcherUpEvent, notifications and errors are forwarded until an error  *)
(* or a silent return ends the watch; once ended, nothing more is sent.   *)
(* The tray reads the channel in order. WindowsClient implements it under *)
(* the mapping of Start's and WatchDaemon's positions to a phase.         *)
(***************************************************************************)
EXTENDS Sequences

VARIABLES
    phase,     \* "starting", "up" or "ended"
    tx,        \* the messages on the channel, oldest first
    lastSent   \* the last message sent, "none" before the first

vars == <<phase, tx, lastSent>>

Init == phase = "starting" /\ tx = <<>> /\ lastSent = "none"

\* m is put on the channel.
Post(m) == tx' = Append(tx, m) /\ lastSent' = m

\* The watch is established and announced.
Up == phase = "starting" /\ phase' = "up" /\ Post("up")

\* Start gives up with an error.
Fail == phase = "starting" /\ phase' = "ended" /\ Post("err")

\* A notification or an error of the watch is forwarded.
Forward == phase = "up" /\ \E m \in {"event", "err"} : Post(m) /\ UNCHANGED phase

\* The watch ends with the error that closed it.
Close == phase = "up" /\ phase' = "ended" /\ Post("err")

\* The watcher ends without a word (the tray process exits, or the watch
\* loop is left).
Stop == phase # "ended" /\ phase' = "ended" /\ UNCHANGED <<tx, lastSent>>

\* The tray takes the oldest message.
Read == tx # <<>> /\ tx' = Tail(tx) /\ UNCHANGED <<phase, lastSent>>

Next == Up \/ Fail \/ Forward \/ Close \/ Stop \/ Read

Spec == Init /\ [][Next]_vars

=============================================================================
