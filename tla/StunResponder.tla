--------------------------- MODULE StunResponder ---------------------------
(***************************************************************************)
(* The relay's STUN responder (src/mirageclient-win/service_install.go,  *)
(* serveSTUN and serverSTUNListener, lines 967-1018): one goroutine that  *)
(* binds a UDP socket and, for every datagram it reads, counts it and     *)
(* answers a well-formed binding request with the sender's address. The  *)
(* senders and the socket's receive buffer are the environment. A        *)
(* datagram is a record of its kind, its sender and its transaction id.   *)
(***************************************************************************)
EXTENDS Naturals, Sequences

CONSTANTS
    Addrs,         \* sender addresses (model values)
    V4Addrs,       \* those whose net.IP has a To4() form (IPv4, IPv4-mapped)
    TxIDs,         \* transaction ids
    BufCap,        \* datagrams the socket's receive buffer holds
    MaxArrivals,   \* bound on the datagrams sent to the responder
    MaxReadErrors  \* bound on failed reads

ASSUME AddrAssumption == V4Addrs \subseteq Addrs
ASSUME BoundAssumption ==
    {BufCap, MaxArrivals, MaxReadErrors} \subseteq Nat /\ BufCap > 0

Kinds == {"binding", "notstun", "badreq"}
Datagrams == [kind : Kinds, from : Addrs, txid : TxIDs]
Counters == {"read_error", "not_stun", "write_error", "success", "ipv4", "ipv6"}

VARIABLES
    pc,        \* the goroutine: "bind", "loop", "sleep", "fatal"
    inbox,     \* datagrams queued in the socket's receive buffer
    failRead,  \* the next ReadFromUDP fails
    arrivals,  \* datagrams sent so far (bounded)
    errors,    \* read failures so far (bounded)
    counter,   \* the expvar counters stunDisposition and stunAddrFamily
    handled,   \* history: the datagrams the loop has read
    replies    \* history: the responses written, [to, txid, addr]

vars == <<pc, inbox, failRead, arrivals, errors, counter, handled, replies>>

-----------------------------------------------------------------------------
(* Helpers *)

\* The counter c after an Add(1).
Inc(c) == counter' = [counter EXCEPT ![c] = @ + 1]

\* Mutant: the error of ParseBindingRequest is ignored and the zero TxID it
\* returns is answered.
RespondZeroTx(d) ==
    \/ d.kind = "notstun" /\ Inc("not_stun") /\ UNCHANGED replies
    \/ /\ d.kind \in {"binding", "badreq"}
       /\ \E ok \in BOOLEAN :
            /\ counter' = [counter EXCEPT
                  ![IF d.from \in V4Addrs THEN "ipv4" ELSE "ipv6"] = @ + 1,
                  ![IF ok THEN "success" ELSE "write_error"] = @ + 1]
            /\ replies' = IF ok THEN replies \cup {[to |-> d.from, addr |-> d.from,
                                txid |-> IF d.kind = "binding" THEN d.txid ELSE "zero"]}
                          ELSE replies

\* Mutant: any STUN message is answered, as if its binding type and
\* attributes were not validated.
RespondUnparsed(d) ==
    \/ d.kind = "notstun" /\ Inc("not_stun") /\ UNCHANGED replies
    \/ /\ d.kind \in {"binding", "badreq"}
       /\ \E ok \in BOOLEAN :
            /\ counter' = [counter EXCEPT
                  ![IF d.from \in V4Addrs THEN "ipv4" ELSE "ipv6"] = @ + 1,
                  ![IF ok THEN "success" ELSE "write_error"] = @ + 1]
            /\ replies' = IF ok THEN replies \cup {[to |-> d.from, txid |-> d.txid, addr |-> d.from]}
                          ELSE replies

\* Mutant: a request that fails to parse is dropped without being counted.
RespondUncountedBadReq(d) ==
    \/ d.kind = "notstun" /\ Inc("not_stun") /\ UNCHANGED replies
    \/ d.kind = "badreq" /\ UNCHANGED <<counter, replies>>
    \/ /\ d.kind = "binding"
       /\ \E ok \in BOOLEAN :
            /\ counter' = [counter EXCEPT
                  ![IF d.from \in V4Addrs THEN "ipv4" ELSE "ipv6"] = @ + 1,
                  ![IF ok THEN "success" ELSE "write_error"] = @ + 1]
            /\ replies' = IF ok THEN replies \cup {[to |-> d.from, txid |-> d.txid, addr |-> d.from]}
                          ELSE replies

\* stun.Is, stun.ParseBindingRequest, the family count (ua.IP.To4()), the
\* response carrying the sender's address (netip.AddrFromSlice(ua.IP) and
\* ua.Port), and pc.WriteTo, which may fail.
Respond(d) ==
    \/ d.kind \in {"notstun", "badreq"} /\ Inc("not_stun") /\ UNCHANGED replies
    \/ /\ d.kind = "binding"
       /\ \E ok \in BOOLEAN :
            /\ counter' = [counter EXCEPT
                  ![IF d.from \in V4Addrs THEN "ipv4" ELSE "ipv6"] = @ + 1,
                  ![IF ok THEN "success" ELSE "write_error"] = @ + 1]
            /\ replies' = IF ok THEN replies \cup {[to |-> d.from, txid |-> d.txid, addr |-> d.from]}
                          ELSE replies

Init ==
    /\ pc = "bind"
    /\ inbox = <<>>
    /\ failRead = FALSE
    /\ arrivals = 0
    /\ errors = 0
    /\ counter = [c \in Counters |-> 0]
    /\ handled = <<>>
    /\ replies = {}

-----------------------------------------------------------------------------
(* The goroutine *)

\* serveSTUN: net.ListenPacket("udp", ...); log.Fatalf if it fails.
Bind ==
    /\ pc = "bind"
    /\ pc' \in {"loop", "fatal"}
    /\ UNCHANGED <<inbox, failRead, arrivals, errors, counter, handled, replies>>

\* n, ua, err = pc.ReadFromUDP(buf): a datagram is taken from the buffer
\* (ReadFromUDP blocks while it is empty) and answered.
ReadPacket ==
    /\ pc = "loop" /\ ~failRead /\ inbox # <<>>
    /\ Respond(Head(inbox))
    /\ handled' = Append(handled, Head(inbox))
    /\ inbox' = Tail(inbox)
    /\ UNCHANGED <<pc, failRead, arrivals, errors>>

\* A failed read: ctx is context.Background() and never done, so the error
\* is logged, the goroutine sleeps one second and counts a read error.
ReadFail ==
    /\ pc = "loop" /\ failRead
    /\ pc' = "sleep"
    /\ failRead' = FALSE
    /\ UNCHANGED <<inbox, arrivals, errors, counter, handled, replies>>

\* time.Sleep(time.Second); stunReadError.Add(1); continue.
Wake ==
    /\ pc = "sleep"
    /\ pc' = "loop"
    /\ Inc("read_error")
    /\ UNCHANGED <<inbox, failRead, arrivals, errors, handled, replies>>

-----------------------------------------------------------------------------
(* The environment *)

\* A datagram arrives; the kernel drops it when the buffer is full.
Arrive ==
    /\ pc # "fatal" /\ arrivals < MaxArrivals
    /\ \E d \in Datagrams :
          inbox' = IF Len(inbox) < BufCap THEN Append(inbox, d) ELSE inbox
    /\ arrivals' = arrivals + 1
    /\ UNCHANGED <<pc, failRead, errors, counter, handled, replies>>

\* The next read on the socket fails.
SocketError ==
    /\ pc = "loop" /\ ~failRead /\ errors < MaxReadErrors
    /\ failRead' = TRUE
    /\ errors' = errors + 1
    /\ UNCHANGED <<pc, inbox, arrivals, counter, handled, replies>>

Next == Bind \/ ReadPacket \/ ReadFail \/ Wake \/ Arrive \/ SocketError

\* The goroutine is scheduled whenever it can run.
Fairness == WF_vars(Bind) /\ WF_vars(ReadPacket) /\ WF_vars(ReadFail) /\ WF_vars(Wake)

Spec == Init /\ [][Next]_vars
FairSpec == Spec /\ Fairness

-----------------------------------------------------------------------------
(* Properties *)

\* Every variable holds a value of its kind.
TypeOK ==
    /\ pc \in {"bind", "loop", "sleep", "fatal"}
    /\ inbox \in Seq(Datagrams) /\ Len(inbox) <= BufCap
    /\ failRead \in BOOLEAN
    /\ arrivals \in 0..MaxArrivals /\ errors \in 0..MaxReadErrors
    /\ counter \in [Counters -> Nat]
    /\ handled \in Seq(Datagrams)
    /\ replies \subseteq [to : Addrs, txid : TxIDs, addr : Addrs]

\* Probe correctness (spec section 8): every response goes to, and
\* reflects the address of, the sender of a well-formed binding request the
\* loop read, with that request's transaction id; nothing else is answered.
ProbeCorrect ==
    \A r \in replies : \E i \in 1..Len(handled) :
        /\ handled[i].kind = "binding"
        /\ r = [to |-> handled[i].from, txid |-> handled[i].txid, addr |-> handled[i].from]

\* Every datagram read, and every failed read, is counted in exactly one
\* disposition; every answered binding request in exactly one family.
CountersAccount ==
    /\ counter["not_stun"] + counter["write_error"] + counter["success"] = Len(handled)
    /\ counter["ipv4"] + counter["ipv6"] = counter["write_error"] + counter["success"]
    /\ counter["read_error"] = errors - (IF pc = "sleep" \/ failRead THEN 1 ELSE 0)

=============================================================================
