------------------------- MODULE StunResponderProofs -------------------------
(***************************************************************************)
(* Machine-checked proofs about the STUN responder (StunResponder): the   *)
(* responses only reflect well-formed binding requests, and the counters  *)
(* account for every read, for every value of the constants.              *)
(***************************************************************************)
EXTENDS StunResponder, TLAPS

\* The failed read the environment arms is only pending while the loop reads.
FailInLoop == failRead => pc = "loop"

\* The inductive invariant.
Inv == TypeOK /\ FailInLoop /\ ProbeCorrect /\ CountersAccount

\* The response built for datagram d, if it is answered.
Reply(d) == [to |-> d.from, txid |-> d.txid, addr |-> d.from]

-----------------------------------------------------------------------------
(* What answering one datagram does *)

\* Respond counts d in exactly one disposition, a binding request in exactly
\* one family, leaves the read errors alone, and adds at most d's own
\* response, and only for a binding request.
LEMMA RespondFacts ==
    ASSUME NEW d \in Datagrams, counter \in [Counters -> Nat], Respond(d)
    PROVE  /\ counter' \in [Counters -> Nat]
           /\ counter'["not_stun"] + counter'["write_error"] + counter'["success"]
              = counter["not_stun"] + counter["write_error"] + counter["success"] + 1
           /\ counter'["ipv4"] + counter'["ipv6"] - counter'["write_error"] - counter'["success"]
              = counter["ipv4"] + counter["ipv6"] - counter["write_error"] - counter["success"]
           /\ counter'["read_error"] = counter["read_error"]
           /\ replies' \subseteq replies \cup (IF d.kind = "binding" THEN {Reply(d)} ELSE {})
<1>1. CASE d.kind \in {"notstun", "badreq"} /\ Inc("not_stun") /\ UNCHANGED replies
  BY <1>1 DEF Inc, Counters
<1>2. CASE /\ d.kind = "binding"
           /\ \E ok \in BOOLEAN :
                /\ counter' = [counter EXCEPT
                      ![IF d.from \in V4Addrs THEN "ipv4" ELSE "ipv6"] = @ + 1,
                      ![IF ok THEN "success" ELSE "write_error"] = @ + 1]
                /\ replies' = IF ok THEN replies \cup {[to |-> d.from, txid |-> d.txid, addr |-> d.from]}
                              ELSE replies
  <2>1. PICK ok \in BOOLEAN :
                /\ counter' = [counter EXCEPT
                      ![IF d.from \in V4Addrs THEN "ipv4" ELSE "ipv6"] = @ + 1,
                      ![IF ok THEN "success" ELSE "write_error"] = @ + 1]
                /\ replies' = IF ok THEN replies \cup {[to |-> d.from, txid |-> d.txid, addr |-> d.from]}
                              ELSE replies
    BY <1>2
  <2>2. CASE ok /\ d.from \in V4Addrs
    BY <1>2, <2>1, <2>2 DEF Counters, Reply
  <2>3. CASE ok /\ d.from \notin V4Addrs
    BY <1>2, <2>1, <2>3 DEF Counters, Reply
  <2>4. CASE ~ok /\ d.from \in V4Addrs
    BY <1>2, <2>1, <2>4 DEF Counters, Reply
  <2>5. CASE ~ok /\ d.from \notin V4Addrs
    BY <1>2, <2>1, <2>5 DEF Counters, Reply
  <2>6. QED
    BY <2>2, <2>3, <2>4, <2>5
<1>3. QED
  BY <1>1, <1>2 DEF Respond

-----------------------------------------------------------------------------
(* The invariant *)

\* The bounds are naturals.
LEMMA BoundsNat == BufCap \in Nat /\ MaxArrivals \in Nat /\ MaxReadErrors \in Nat
  BY BoundAssumption

LEMMA InvInit == Init => Inv
<1> SUFFICES ASSUME Init PROVE Inv
  OBVIOUS
<1>1. /\ inbox \in Seq(Datagrams) /\ Len(inbox) <= BufCap
      /\ handled \in Seq(Datagrams) /\ Len(handled) = 0
  BY BoundsNat DEF Init
<1>2. arrivals \in 0..MaxArrivals /\ errors \in 0..MaxReadErrors
  BY BoundsNat DEF Init
<1>3. counter \in [Counters -> Nat] /\ \A c \in Counters : counter[c] = 0
  BY DEF Init
<1>4. TypeOK
  BY <1>1, <1>2, <1>3 DEF Init, TypeOK
<1>5. /\ counter["not_stun"] = 0 /\ counter["write_error"] = 0 /\ counter["success"] = 0
      /\ counter["ipv4"] = 0 /\ counter["ipv6"] = 0 /\ counter["read_error"] = 0
  BY <1>3 DEF Counters
<1>6. ~(pc = "sleep" \/ failRead) /\ errors = 0
  BY DEF Init
<1>7. errors - (IF pc = "sleep" \/ failRead THEN 1 ELSE 0) = 0
  <2>1. (IF pc = "sleep" \/ failRead THEN 1 ELSE 0) = 0
    BY <1>6, Zenon
  <2>2. errors - 0 = 0
    BY <1>6
  <2>3. QED
    BY <2>1, <2>2, Zenon
<1>8. CountersAccount
  BY <1>1, <1>5, <1>7 DEF CountersAccount
<1>9. QED
  BY <1>4, <1>8 DEF Init, Inv, FailInLoop, ProbeCorrect

LEMMA InvStep == Inv /\ [Next]_vars => Inv'
<1> SUFFICES ASSUME Inv, [Next]_vars PROVE Inv'
  OBVIOUS
<1> USE DEF Inv
<1> USE BoundsNat
<1>1. CASE ReadPacket
  <2>0. DEFINE d == Head(inbox)
  <2>1. inbox # <<>> /\ d \in Datagrams
    BY <1>1 DEF ReadPacket, TypeOK
  <2>2. /\ handled' = Append(handled, d) /\ inbox' = Tail(inbox)
        /\ pc' = pc /\ failRead' = failRead /\ arrivals' = arrivals /\ errors' = errors
        /\ Respond(d)
    BY <1>1 DEF ReadPacket
  <2>3. /\ counter' \in [Counters -> Nat]
        /\ counter'["not_stun"] + counter'["write_error"] + counter'["success"]
           = counter["not_stun"] + counter["write_error"] + counter["success"] + 1
        /\ counter'["ipv4"] + counter'["ipv6"] - counter'["write_error"] - counter'["success"]
           = counter["ipv4"] + counter["ipv6"] - counter["write_error"] - counter["success"]
        /\ counter'["read_error"] = counter["read_error"]
        /\ replies' \subseteq replies \cup (IF d.kind = "binding" THEN {Reply(d)} ELSE {})
    BY <2>1, <2>2, RespondFacts DEF TypeOK
  <2>4. handled' \in Seq(Datagrams) /\ Len(handled') = Len(handled) + 1
    BY <2>1, <2>2 DEF TypeOK
  <2>5. handled'[Len(handled')] = d
    BY <2>1, <2>2 DEF TypeOK
  <2>6. \A i \in 1..Len(handled) : handled'[i] = handled[i]
    BY <2>1, <2>2 DEF TypeOK
  <2>7. inbox' \in Seq(Datagrams) /\ Len(inbox') <= BufCap
    BY <2>1, <2>2 DEF TypeOK
  <2>8. Reply(d) \in [to : Addrs, txid : TxIDs, addr : Addrs]
    <3>1. d.from \in Addrs /\ d.txid \in TxIDs
      BY <2>1 DEF Datagrams
    <3>2. QED
      BY <3>1 DEF Reply
  <2>9. replies' \subseteq [to : Addrs, txid : TxIDs, addr : Addrs]
    BY <2>3, <2>8 DEF TypeOK
  <2>10. TypeOK'
    BY <2>2, <2>3, <2>4, <2>7, <2>9 DEF TypeOK
  <2>11. FailInLoop'
    BY <2>2 DEF FailInLoop
  <2>12. ProbeCorrect'
    <3> SUFFICES ASSUME NEW r \in replies'
                 PROVE  \E i \in 1..Len(handled') :
                           /\ handled'[i].kind = "binding"
                           /\ r = [to |-> handled'[i].from, txid |-> handled'[i].txid,
                                   addr |-> handled'[i].from]
      BY DEF ProbeCorrect
    <3>1. CASE r \in replies
      <4>1. PICK i \in 1..Len(handled) :
                /\ handled[i].kind = "binding"
                /\ r = [to |-> handled[i].from, txid |-> handled[i].txid, addr |-> handled[i].from]
        BY <3>1 DEF ProbeCorrect
      <4>2. i \in 1..Len(handled') /\ handled'[i] = handled[i]
        BY <2>4, <2>6 DEF TypeOK
      <4>3. QED
        BY <4>1, <4>2
    <3>2. CASE r \notin replies
      <4>1. d.kind = "binding" /\ r = Reply(d)
        BY <3>2, <2>3
      <4>2. Len(handled') \in 1..Len(handled')
        BY <2>4 DEF TypeOK
      <4>3. QED
        BY <4>1, <4>2, <2>5 DEF Reply
    <3>3. QED
      BY <3>1, <3>2
  <2>13. CountersAccount'
    <3>1. counter'["not_stun"] + counter'["write_error"] + counter'["success"] = Len(handled')
      BY <2>3, <2>4 DEF CountersAccount, TypeOK, Counters
    <3>2. counter'["ipv4"] + counter'["ipv6"] = counter'["write_error"] + counter'["success"]
      <4>1. /\ counter["ipv4"] \in Nat /\ counter["ipv6"] \in Nat
            /\ counter["write_error"] \in Nat /\ counter["success"] \in Nat
            /\ counter'["ipv4"] \in Nat /\ counter'["ipv6"] \in Nat
            /\ counter'["write_error"] \in Nat /\ counter'["success"] \in Nat
        BY <2>3 DEF TypeOK, Counters
      <4>2. counter["ipv4"] + counter["ipv6"] = counter["write_error"] + counter["success"]
        BY DEF CountersAccount
      <4>3. QED
        BY <4>1, <4>2, <2>3
    <3>3. counter'["read_error"] = errors' - (IF pc' = "sleep" \/ failRead' THEN 1 ELSE 0)
      <4>1. counter["read_error"] = errors - (IF pc = "sleep" \/ failRead THEN 1 ELSE 0)
        BY DEF CountersAccount
      <4>2. QED
        BY <4>1, <2>2, <2>3
    <3>4. QED
      BY <3>1, <3>2, <3>3 DEF CountersAccount
  <2>14. QED
    BY <2>10, <2>11, <2>12, <2>13
<1>2. CASE Bind
  BY <1>2 DEF Bind, TypeOK, FailInLoop, ProbeCorrect, CountersAccount
<1>3. CASE ReadFail
  BY <1>3 DEF ReadFail, TypeOK, FailInLoop, ProbeCorrect, CountersAccount
<1>4. CASE Wake
  <2>1. /\ pc = "sleep" /\ pc' = "loop" /\ ~failRead /\ failRead' = FALSE
        /\ counter' = [counter EXCEPT !["read_error"] = @ + 1]
        /\ UNCHANGED <<inbox, arrivals, errors, handled, replies>>
    BY <1>4 DEF Wake, Inc, FailInLoop
  <2>2. counter' \in [Counters -> Nat]
    BY <2>1 DEF TypeOK, Counters
  <2>3. TypeOK'
    BY <2>1, <2>2 DEF TypeOK
  <2>4. CountersAccount'
    BY <2>1 DEF TypeOK, CountersAccount, Counters
  <2>5. QED
    BY <2>1, <2>3, <2>4 DEF FailInLoop, ProbeCorrect
<1>5. CASE Arrive
  <2>1. PICK d \in Datagrams :
          inbox' = IF Len(inbox) < BufCap THEN Append(inbox, d) ELSE inbox
    BY <1>5 DEF Arrive
  <2>2. /\ arrivals < MaxArrivals /\ arrivals' = arrivals + 1
        /\ UNCHANGED <<pc, failRead, errors, counter, handled, replies>>
    BY <1>5 DEF Arrive
  <2>3. inbox' \in Seq(Datagrams) /\ Len(inbox') <= BufCap
    BY <2>1 DEF TypeOK
  <2>4. arrivals' \in 0..MaxArrivals
    <3>1. arrivals \in 0..MaxArrivals
      BY DEF TypeOK
    <3>2. QED
      BY <3>1, <2>2
  <2>5. TypeOK'
    BY <2>2, <2>3, <2>4 DEF TypeOK
  <2>6. QED
    BY <2>2, <2>5 DEF FailInLoop, ProbeCorrect, CountersAccount
<1>6. CASE SocketError
  <2>1. /\ pc = "loop" /\ ~failRead /\ errors < MaxReadErrors
        /\ failRead' = TRUE /\ errors' = errors + 1
        /\ UNCHANGED <<pc, inbox, arrivals, counter, handled, replies>>
    BY <1>6 DEF SocketError
  <2>2. errors' \in 0..MaxReadErrors
    BY <2>1, BoundAssumption DEF TypeOK
  <2>3. TypeOK'
    BY <2>1, <2>2 DEF TypeOK
  <2>4. CountersAccount'
    BY <2>1 DEF TypeOK, CountersAccount
  <2>5. QED
    BY <2>1, <2>3, <2>4 DEF FailInLoop, ProbeCorrect
<1>7. CASE UNCHANGED vars
  BY <1>7 DEF vars, TypeOK, FailInLoop, ProbeCorrect, CountersAccount
<1>8. QED
  BY <1>1, <1>2, <1>3, <1>4, <1>5, <1>6, <1>7 DEF Next

-----------------------------------------------------------------------------
(* The theorems *)

\* Type correctness: the socket's receive buffer never holds more than
\* BufCap datagrams (the kernel drops the rest, Arrive), the arrival and
\* failure counts stay within their bounds, and the expvar counters are
\* natural numbers, for every value of the constants.
THEOREM StunTypeCorrect == Spec => []TypeOK
<1>1. Inv => TypeOK
  BY DEF Inv
<1>2. QED
  BY <1>1, InvInit, InvStep, PTL DEF Spec

\* Probe correctness: the responder only ever answers a well-formed binding
\* request it read, to its sender, reflecting its address and echoing its
\* transaction id (serverSTUNListener, lines 994-1016).
THEOREM ProbesReflectRequests == Spec => []ProbeCorrect
<1>1. Inv => ProbeCorrect
  BY DEF Inv
<1>2. QED
  BY <1>1, InvInit, InvStep, PTL DEF Spec

\* The expvar counters account for every datagram read and every failed
\* read, in exactly one disposition and, when answered, one family.
THEOREM CountersBalanced == Spec => []CountersAccount
<1>1. Inv => CountersAccount
  BY DEF Inv
<1>2. QED
  BY <1>1, InvInit, InvStep, PTL DEF Spec

=============================================================================
