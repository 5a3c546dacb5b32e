------------------------------ MODULE ObiOrder ------------------------------
(***************************************************************************)
(* What the system bus promises to its hosts, without ring buffer, slots   *)
(* or clock phases: every accepted request is owed exactly one response,   *)
(* the answer of the device its address selects to that very request, and  *)
(* the responses are delivered in the order in which the requests were     *)
(* accepted, whichever host made them and whichever device answers.        *)
(***************************************************************************)
EXTENDS Integers, Sequences

CONSTANTS
    Host,            \* host ports
    InFlight,        \* most requests accepted and not yet answered
    Request,         \* what a host may put on its request lines
    None,            \* idle request lines, or no response in this cycle
    AnswerTo(_)      \* the response the addressed device gives to a request

VARIABLES
    hostReq,         \* per host: the request it holds, or None
    owed,            \* responses owed, oldest first: [host, rdata, err]
    rsp              \* the response delivered by the last clock edge, or None

vars == <<hostReq, owed, rsp>>

Owe(h, r) == [host |-> h, rdata |-> AnswerTo(r).rdata, err |-> AnswerTo(r).err]

Init ==
    /\ hostReq = [h \in Host |-> None]
    /\ owed = <<>>
    /\ rsp = None

\* A host with idle request lines raises a request.
Raise(h, r) ==
    /\ hostReq[h] = None
    /\ hostReq' = [hostReq EXCEPT ![h] = r]
    /\ UNCHANGED <<owed, rsp>>

\* One clock edge: at most one response leaves, the oldest, and at most one
\* request is accepted, behind everything already owed.
Deliver(left) ==
    \/ left = owed /\ rsp' = None
    \/ owed # <<>> /\ left = Tail(owed) /\ rsp' = Head(owed)

Accept(left) ==
    \/ owed' = left /\ UNCHANGED hostReq
    \/ \E h \in Host :
        /\ hostReq[h] # None
        /\ Len(owed) < InFlight
        /\ owed' = Append(left, Owe(h, hostReq[h]))
        /\ hostReq' = [hostReq EXCEPT ![h] = None]

Tick ==
    \E left \in {owed} \cup (IF owed = <<>> THEN {} ELSE {Tail(owed)}) :
        Deliver(left) /\ Accept(left)

Next ==
    \/ \E h \in Host, r \in Request : Raise(h, r)
    \/ Tick

Spec == Init /\ [][Next]_vars

=============================================================================
