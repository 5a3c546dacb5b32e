------------------------------- MODULE ObiBus -------------------------------
(***************************************************************************)
(* The system bus, src/rtl/core/bus.sv, with the hosts and devices around  *)
(* it.  Several hosts share one path to several devices.  Accepted         *)
(* requests wait in a ring of BufferMax slots (one stays free); a slot     *)
(* only remembers the host and the device, so the answer of a device is    *)
(* matched to its slot by order alone; responses leave from the front.     *)
(*                                                                         *)
(* ClockEdge is the always_ff block: every right hand side is read before  *)
(* the edge, and the assignments to a slot are applied in source order.    *)
(* The hosts hold a request until it is granted (the OBI rule Ibex         *)
(* follows).  The devices stand for everything behind a device port: they  *)
(* withhold grants as they like and answer, one request per cycle, in      *)
(* order and from the cycle after the grant on.                            *)
(***************************************************************************)
EXTENDS Integers, Sequences, FiniteSets

CONSTANTS
    HostCount,       \* number of host ports
    DeviceCount,     \* number of device ports
    BufferMax,       \* slots of the ring
    Addr,            \* addresses the hosts use
    Claims,          \* per address: the devices whose base and mask match it
    Tag,             \* what tells one request of a host from another
    ErrTag,          \* the requests a device answers with an error
    Request,         \* the requests the hosts make: [addr, tag]
    None,            \* idle request lines, or no response in this cycle
    Zero             \* the all-zero data word

Host   == 0 .. HostCount - 1
Device == 0 .. DeviceCount - 1
Slot   == 0 .. BufferMax - 1

ASSUME CountsAssumption ==
    /\ HostCount \in Nat \ {0}
    /\ DeviceCount \in Nat \ {0}
    /\ BufferMax \in Nat \ {0, 1}

ASSUME AddressAssumption == Claims \in [Addr -> SUBSET Device]

ASSUME DataAssumption ==
    /\ ErrTag \subseteq Tag
    /\ Request \subseteq [addr : Addr, tag : Tag]
    /\ None \notin Request
    /\ Zero \notin Device \X Tag

Word == (Device \X Tag) \cup {Zero}

VARIABLES
    front,           \* outstanding_front
    back,            \* outstanding_back
    outstanding,     \* the ring: [host, device, rdata, done, err] per slot
    hostReq,         \* external: the request on the lines of each host
    devQ,            \* external: per device, the tags it has yet to answer
    rsp              \* what the R-phase outputs showed at the last clock edge

vars == <<front, back, outstanding, hostReq, devQ, rsp>>

-----------------------------------------------------------------------------
\* Index arithmetic of the ring: the counters wrap at BufferMax.

Plus(i, k) == IF i + k < BufferMax THEN i + k ELSE i + k - BufferMax
Minus(j, i) == IF i <= j THEN j - i ELSE j - i + BufferMax

\* Fault: the counter is wide enough not to wrap.
IncNoWrap(i) == i + 1

Inc(i) == Plus(i, 1)

SlotAt(k) == Plus(front, k)
Occupancy == Minus(back, front)
Full == Inc(back) = front
Empty == front = back

\* The slots that hold an accepted request.
Window == {SlotAt(k) : k \in 0 .. Occupancy - 1}

-----------------------------------------------------------------------------
\* Host arbitration and address decode.

Requesting == {h \in Host : hostReq[h] # None}

SelectedHost == CHOOSE h \in Requesting : \A g \in Requesting : h <= g

Mapped(a) == Claims[a] # {}
Decode(a) == CHOOSE d \in Claims[a] : \A c \in Claims[a] : c <= d

Selected == hostReq[SelectedHost]

\* The A-phase lets the selected request through; gnt is the grant line of
\* the device it selects, and nobody is asked for an unmapped address.
Accepts(gnt) ==
    /\ Requesting # {}
    /\ ~Full
    /\ Mapped(Selected.addr) => gnt

\* Device d sees its request line rise and grants in the same cycle.
AcceptedBy(d, gnt) ==
    Accepts(gnt) /\ Mapped(Selected.addr) /\ Decode(Selected.addr) = d

-----------------------------------------------------------------------------
\* A device's answer carries its number and the tag, so that an answer that
\* reaches the wrong request shows.

Answer(d, t) == [rdata |-> <<d, t>>, err |-> t \in ErrTag]

\* Slot k places from the front waits for its device.
Waits(k) == ~outstanding[SlotAt(k)].done /\ ~outstanding[SlotAt(k)].err

\* Faults: an answer is taken by every slot that waits for the device (no
\* `claimed`), or only by the slot at the front.
CapturesAll(ans) ==
    {SlotAt(k) : k \in
        {i \in 0 .. Occupancy - 1 : Waits(i) /\ outstanding[SlotAt(i)].device \in ans}}

CapturesAtFront(ans) ==
    {s \in {front} : ~Empty /\ Waits(0) /\ outstanding[s].device \in ans}

\* The slots that take the answers of this cycle: for each answering device
\* the oldest occupied slot that still waits for it.
Captures(ans) ==
    {SlotAt(k) : k \in
        {i \in 0 .. Occupancy - 1 :
            /\ Waits(i)
            /\ outstanding[SlotAt(i)].device \in ans
            /\ \A j \in 0 .. i - 1 :
                 Waits(j) => outstanding[SlotAt(j)].device
                              # outstanding[SlotAt(i)].device}}

Responds == ~Empty /\ outstanding[front].done

Response ==
    IF Responds
    THEN [host  |-> outstanding[front].host,
          rdata |-> IF outstanding[front].err THEN Zero ELSE outstanding[front].rdata,
          err   |-> outstanding[front].err]
    ELSE None

-----------------------------------------------------------------------------
\* The three writers of a slot, in the order of the always_ff block.

\* Fault: the host of a granted request is not recorded.
PushWithoutHost(s, e, accepted) ==
    IF ~(accepted /\ s = back) THEN e
    ELSE IF Mapped(Selected.addr)
    THEN [e EXCEPT !.device = Decode(Selected.addr), !.err = FALSE]
    ELSE [e EXCEPT !.host = SelectedHost, !.err = TRUE, !.done = TRUE]

Push(s, e, accepted) ==
    IF ~(accepted /\ s = back) THEN e
    ELSE IF Mapped(Selected.addr)
    THEN [e EXCEPT !.host = SelectedHost, !.device = Decode(Selected.addr),
                   !.err = FALSE]
    ELSE [e EXCEPT !.host = SelectedHost, !.device = 0,
                   !.err = TRUE, !.done = TRUE]

Capture(s, e, captured) ==
    IF s \in captured
    THEN LET a == Answer(outstanding[s].device, Head(devQ[outstanding[s].device]))
         IN  [e EXCEPT !.rdata = a.rdata, !.err = a.err, !.done = TRUE]
    ELSE e

\* Fault: `done` is not cleared when a slot is given back.
RetireKeepsDone(s, e) == IF Responds /\ s = front THEN [e EXCEPT !.err = FALSE] ELSE e

Retire(s, e) ==
    IF Responds /\ s = front THEN [e EXCEPT !.done = FALSE, !.err = FALSE] ELSE e

\* gnt: the selected device grants; ans: the devices that raise rvalid.
Edge(gnt, ans) ==
    /\ outstanding' =
            LET accepted == Accepts(gnt)
                captured == Captures(ans)
            IN  [s \in Slot |->
                    Retire(s, Capture(s, Push(s, outstanding[s], accepted), captured))]
    /\ back' = IF Accepts(gnt) THEN Inc(back) ELSE back
    /\ front' = IF Responds THEN Inc(front) ELSE front
    /\ rsp' = Response
    /\ hostReq' = [h \in Host |->
            IF Accepts(gnt) /\ h = SelectedHost THEN None ELSE hostReq[h]]
    /\ devQ' = [d \in Device |->
            LET left == IF d \in ans THEN Tail(devQ[d]) ELSE devQ[d]
            IN  IF AcceptedBy(d, gnt) THEN Append(left, Selected.tag) ELSE left]

Pending == {d \in Device : devQ[d] # <<>>}

ClockEdge == \E gnt \in BOOLEAN, ans \in SUBSET Pending : Edge(gnt, ans)

RaiseRequest(h, r) ==
    /\ hostReq[h] = None
    /\ hostReq' = [hostReq EXCEPT ![h] = r]
    /\ UNCHANGED <<front, back, outstanding, devQ, rsp>>

Init ==
    /\ front = 0
    /\ back = 0
    /\ outstanding = [s \in Slot |->
            [host |-> 0, device |-> 0, rdata |-> Zero, done |-> FALSE, err |-> FALSE]]
    /\ hostReq = [h \in Host |-> None]
    /\ devQ = [d \in Device |-> <<>>]
    /\ rsp = None

Next ==
    \/ \E h \in Host, r \in Request : RaiseRequest(h, r)
    \/ ClockEdge

Spec == Init /\ [][Next]_vars

-----------------------------------------------------------------------------
\* The clock runs.  A device answers eventually what it has accepted: the
\* register files in the next cycle, the UART once its transmitter has made
\* room.

Answers(d) == \E gnt \in BOOLEAN, ans \in SUBSET Pending :
                 d \in ans /\ Edge(gnt, ans)

Fairness == WF_vars(ClockEdge) /\ \A d \in Device : WF_vars(Answers(d))

FairSpec == Spec /\ Fairness
-----------------------------------------------------------------------------
\* Type correctness.

Entry == [host : Host, device : Device, rdata : Word, done : BOOLEAN, err : BOOLEAN]
ResponseType == [host : Host, rdata : Word, err : BOOLEAN]

TypeOK ==
    /\ front \in Slot
    /\ back \in Slot
    /\ outstanding \in [Slot -> Entry]
    /\ hostReq \in [Host -> Request \cup {None}]
    /\ devQ \in [Device -> Seq(Tag)]
    /\ rsp \in ResponseType \cup {None}

\* Free slots carry neither `done` nor `err`.  A granted request is pushed
\* without writing `done` (bus.sv:114-119), so a bit left over from the slot's
\* previous use would answer the new request before its device did.
FreeSlotsClean ==
    \A s \in Slot \ Window : ~outstanding[s].done /\ ~outstanding[s].err

\* Nothing the ring waits for is lost or invented: for every device there are
\* as many slots waiting for it as requests it has still to answer.
WaitingFor(d) == {k \in 0 .. Occupancy - 1 : Waits(k) /\ outstanding[SlotAt(k)].device = d}
WaitersMatchDevices ==
    \A d \in Device : Cardinality(WaitingFor(d)) = Len(devQ[d])

-----------------------------------------------------------------------------
\* Refinement.  The response a slot is owed is the one it has captured, or
\* the one its device will give to the request at the slot's place among the
\* slots that wait for the same device.

Delivered(host, a) ==
    [host |-> host, rdata |-> IF a.err THEN Zero ELSE a.rdata, err |-> a.err]

OwedAt(k) ==
    LET e == outstanding[SlotAt(k)]
        ahead == {j \in WaitingFor(e.device) : j < k}
    IN  Delivered(e.host, IF e.done THEN e
                          ELSE Answer(e.device, devQ[e.device][Cardinality(ahead) + 1]))

OwedResponses == [i \in 1 .. Occupancy |-> OwedAt(i - 1)]

AnswerTo(r) ==
    IF ~Mapped(r.addr) THEN [rdata |-> Zero, err |-> TRUE]
    ELSE LET a == Answer(Decode(r.addr), r.tag)
         IN  [rdata |-> IF a.err THEN Zero ELSE a.rdata, err |-> a.err]

Order == INSTANCE ObiOrder WITH
    InFlight <- BufferMax - 1, owed <- OwedResponses

\* Every host gets the answer to each accepted request once, from the device
\* its address selects, in the order in which the bus accepted the requests,
\* although slots are filled out of order by devices that answer at
\* different speeds.
ResponsesInOrder == Order!Spec

-----------------------------------------------------------------------------
\* Liveness.

\* An accepted request does not stay in the ring for ever: a device that
\* answers late delays the requests behind it and never blocks them.
AcceptedIsAnswered == \A s \in Slot : s \in Window ~> s \notin Window
=============================================================================
