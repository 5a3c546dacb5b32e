---------------------------- MODULE ObiBusProofs ----------------------------
(***************************************************************************)
(* Theorems about ObiBus for every number of hosts, devices and slots.     *)
(***************************************************************************)
EXTENDS ObiBus, TLAPS, WellFoundedInduction, FiniteSetTheorems, SequenceTheorems

-----------------------------------------------------------------------------
(* Arbitration and decode pick an element of the set they search.          *)

\* A non-empty set of naturals has a least element.
LEMMA LeastNat ==
    ASSUME NEW T \in SUBSET Nat, T # {}
    PROVE  \E x \in T : \A y \in T : x <= y
<1> DEFINE R == OpToRel(<, Nat)
<1>1. IsWellFoundedOn(R, Nat)
  BY NatLessThanWellFounded
<1>2. PICK x \in T : \A y \in T : <<y, x>> \notin R
  <2> HIDE DEF R
  <2> QED BY <1>1, WFMin, Zenon
<1>3. \A y \in T : x <= y
  <2> SUFFICES ASSUME NEW y \in T PROVE x <= y
    OBVIOUS
  <2>1. x \in Nat /\ y \in Nat
    OBVIOUS
  <2>2. y < x => <<y, x>> \in R
    BY <2>1 DEF OpToRel
  <2>3. ~(y < x)
    BY <1>2, <2>2, Zenon
  <2> QED BY <2>1, <2>3
<1> QED BY <1>3

\* The arbiter serves a requesting host (bus.sv:59-68).
LEMMA SelectedHostRequests ==
    ASSUME Requesting # {}
    PROVE  SelectedHost \in Requesting /\ \A g \in Requesting : SelectedHost <= g
<1>1. Requesting \in SUBSET Nat
  BY CountsAssumption DEF Requesting, Host
<1>2. \E h \in Requesting : \A g \in Requesting : h <= g
  BY <1>1, LeastNat
<1> QED BY <1>2 DEF SelectedHost

\* The decoder picks a device whose window holds the address (bus.sv:70-81).
LEMMA DecodeClaims ==
    ASSUME NEW a \in Addr, Mapped(a)
    PROVE  Decode(a) \in Claims[a] /\ Decode(a) \in Device
<1> DEFINE T == {DeviceCount - 1 - d : d \in Claims[a]}
<1>1. Claims[a] \subseteq Device /\ Claims[a] # {}
  BY AddressAssumption DEF Mapped
<1>2. T \in SUBSET Nat /\ T # {}
  BY <1>1, CountsAssumption DEF Device
<1>3. PICK x \in T : \A y \in T : x <= y
  BY <1>2, LeastNat
<1>4. PICK d \in Claims[a] : x = DeviceCount - 1 - d
  OBVIOUS
<1>5. \A c \in Claims[a] : c <= d
  <2> SUFFICES ASSUME NEW c \in Claims[a] PROVE c <= d
    OBVIOUS
  <2>1. DeviceCount - 1 - c \in T
    OBVIOUS
  <2>2. c \in Int /\ d \in Int /\ DeviceCount \in Int
    BY <1>1, CountsAssumption DEF Device
  <2> QED BY <1>3, <1>4, <2>1, <2>2
<1> QED BY <1>1, <1>5 DEF Decode

-----------------------------------------------------------------------------
(* The ring: which slots are occupied, and what an edge does to them.      *)

\* The slots from f up to b, wrapping at the top.
Between(f, b) ==
    {s \in Slot : IF f <= b THEN f <= s /\ s < b ELSE f <= s \/ s < b}

\* Counted from the front round the ring, the slots in use are those up to the back.
LEMMA RingInterval ==
    ASSUME NEW f \in Slot, NEW b \in Slot
    PROVE  /\ Minus(b, f) \in 0 .. BufferMax - 1
           /\ \A k \in 0 .. Minus(b, f) - 1 : Plus(f, k) \in Slot
           /\ {Plus(f, k) : k \in 0 .. Minus(b, f) - 1} = Between(f, b)
<1>1. Minus(b, f) \in 0 .. BufferMax - 1
  BY CountsAssumption DEF Minus, Slot
<1>2. \A k \in 0 .. Minus(b, f) - 1 : Plus(f, k) \in Between(f, b)
  BY CountsAssumption DEF Minus, Plus, Slot, Between
<1>3. ASSUME NEW s \in Between(f, b)
      PROVE  \E k \in 0 .. Minus(b, f) - 1 : s = Plus(f, k)
  <2>1. Minus(s, f) \in 0 .. Minus(b, f) - 1
    BY CountsAssumption DEF Minus, Slot, Between
  <2>2. s = Plus(f, Minus(s, f))
    BY CountsAssumption DEF Minus, Plus, Slot, Between
  <2> QED BY <2>1, <2>2
<1>4. Between(f, b) \subseteq Slot
  BY DEF Between
<1> QED BY <1>1, <1>2, <1>3, <1>4

\* The pointers wrap at BufferMax.
LEMMA IncInSlot ==
    ASSUME NEW i \in Slot
    PROVE  Inc(i) \in Slot
BY CountsAssumption DEF Slot, Inc, Plus

\* A free slot after an edge was free before it and took no request, or has
\* just been retired.
LEMMA FreeAfterEdge ==
    ASSUME front \in Slot, back \in Slot, NEW gnt, NEW ans, Edge(gnt, ans),
           NEW s \in Slot, s \notin Window'
    PROVE  \/ s \notin Window /\ ~(Accepts(gnt) /\ s = back)
           \/ Responds /\ s = front
<1>1. /\ front' = IF Responds THEN Inc(front) ELSE front
      /\ back' = IF Accepts(gnt) THEN Inc(back) ELSE back
  BY DEF Edge
<1>2. front' \in Slot /\ back' \in Slot
  BY <1>1, IncInSlot
<1>3. Window = Between(front, back)
  BY RingInterval DEF Window, SlotAt, Occupancy
<1>4. Window' = Between(front', back')
  BY <1>2, RingInterval DEF Window, SlotAt, Occupancy
<1>5. Responds => front # back
  BY DEF Responds, Empty
<1>6. Accepts(gnt) => Inc(back) # front
  BY DEF Accepts, Full
<1> QED
  BY <1>1, <1>2, <1>3, <1>4, <1>5, <1>6, CountsAssumption DEF Inc, Plus, Slot, Between

\* Only occupied slots that wait take an answer, and only from a device that
\* answers in this cycle.
LEMMA CapturesWait ==
    ASSUME front \in Slot, back \in Slot, NEW ans, NEW s \in Captures(ans)
    PROVE  /\ s \in Window /\ s \in Slot
           /\ ~outstanding[s].done /\ ~outstanding[s].err
           /\ outstanding[s].device \in ans
BY RingInterval DEF Captures, Window, Waits, SlotAt, Occupancy

-----------------------------------------------------------------------------
(* Type correctness.                                                       *)

\* Reset.
LEMMA InitTyped == Init => TypeOK
<1> SUFFICES ASSUME Init PROVE TypeOK
  OBVIOUS
<1>1. 0 \in Host /\ 0 \in Device /\ 0 \in Slot
  BY CountsAssumption DEF Host, Device, Slot
<1>2. \A d \in Device : devQ[d] \in Seq(Tag)
  BY DEF Init
<1> QED
  BY <1>1, <1>2 DEF Init, TypeOK, Entry, Word, ResponseType

\* The three writers of a slot keep it a slot.
LEMMA PushTyped ==
    ASSUME TypeOK, NEW s \in Slot, NEW e \in Entry, NEW gnt
    PROVE  Push(s, e, Accepts(gnt)) \in Entry
<1>1. CASE ~(Accepts(gnt) /\ s = back)
  BY <1>1 DEF Push
<1>2. CASE Accepts(gnt) /\ s = back
  <2>1. SelectedHost \in Host /\ Selected \in Request
    BY <1>2, SelectedHostRequests DEF Accepts, Requesting, Selected, TypeOK
  <2>2. Selected.addr \in Addr
    BY <2>1, DataAssumption
  <2>3. CASE Mapped(Selected.addr)
    <3>1. Decode(Selected.addr) \in Device
      BY <2>2, <2>3, DecodeClaims
    <3> QED BY <1>2, <2>1, <2>3, <3>1 DEF Push, Entry
  <2>4. CASE ~Mapped(Selected.addr)
    <3>1. 0 \in Device
      BY CountsAssumption DEF Device
    <3> QED BY <1>2, <2>1, <2>4, <3>1 DEF Push, Entry
  <2> QED BY <2>3, <2>4
<1> QED BY <1>1, <1>2

\* A slot that takes its device's answer (bus.sv:124-135) is still a slot.
LEMMA CaptureTyped ==
    ASSUME TypeOK, NEW ans \in SUBSET Pending, NEW s \in Slot, NEW e \in Entry
    PROVE  Capture(s, e, Captures(ans)) \in Entry
<1>1. CASE s \notin Captures(ans)
  BY <1>1 DEF Capture
<1>2. CASE s \in Captures(ans)
  <2> DEFINE d == outstanding[s].device
             a == Answer(d, Head(devQ[d]))
  <2>1. d \in ans
    BY <1>2, CapturesWait DEF TypeOK
  <2>2. d \in Device /\ devQ[d] # <<>>
    BY <2>1 DEF Pending
  <2>3. Head(devQ[d]) \in Tag
    BY <2>2 DEF TypeOK
  <2>4. a.rdata \in Word /\ a.err \in BOOLEAN
    BY <2>2, <2>3 DEF Answer, Word
  <2>5. Capture(s, e, Captures(ans))
          = [e EXCEPT !.rdata = a.rdata, !.err = a.err, !.done = TRUE]
    BY <1>2 DEF Capture
  <2> HIDE DEF a
  <2> QED BY <2>4, <2>5 DEF Entry
<1> QED BY <1>1, <1>2

\* So is a slot that is handed back.
LEMMA RetireTyped ==
    ASSUME NEW s \in Slot, NEW e \in Entry
    PROVE  Retire(s, e) \in Entry
BY DEF Retire, Entry

\* What a host is shown is a response or nothing.
LEMMA ResponseTyped ==
    ASSUME TypeOK
    PROVE  Response \in ResponseType \cup {None}
BY DEF Response, TypeOK, Entry, ResponseType, Word

\* An edge takes an answer off a device's queue and puts an accepted request on it.
LEMMA QueuesTyped ==
    ASSUME TypeOK, NEW gnt, NEW ans \in SUBSET Pending, Edge(gnt, ans)
    PROVE  devQ' \in [Device -> Seq(Tag)]
<1> SUFFICES ASSUME NEW d \in Device PROVE devQ'[d] \in Seq(Tag)
  BY DEF Edge
<1> DEFINE left == IF d \in ans THEN Tail(devQ[d]) ELSE devQ[d]
<1>1. devQ'[d] = IF AcceptedBy(d, gnt) THEN Append(left, Selected.tag) ELSE left
  BY DEF Edge
<1>2. left \in Seq(Tag)
  BY DEF TypeOK, Pending
<1>3. AcceptedBy(d, gnt) => Selected.tag \in Tag
  BY SelectedHostRequests, DataAssumption
  DEF AcceptedBy, Accepts, Requesting, Selected, TypeOK
<1> HIDE DEF left
<1> QED BY <1>1, <1>2, <1>3

\* Hosts' requests and clock edges keep the types.
LEMMA StepTyped == TypeOK /\ [Next]_vars => TypeOK'
<1> SUFFICES ASSUME TypeOK, [Next]_vars PROVE TypeOK'
  OBVIOUS
<1>1. ASSUME NEW h \in Host, NEW r \in Request, RaiseRequest(h, r) PROVE TypeOK'
  BY <1>1 DEF RaiseRequest, TypeOK
<1>2. ASSUME NEW gnt \in BOOLEAN, NEW ans \in SUBSET Pending, Edge(gnt, ans)
      PROVE  TypeOK'
  <2>1. front' \in Slot /\ back' \in Slot
    BY <1>2, IncInSlot DEF Edge, TypeOK
  <2>2. outstanding' \in [Slot -> Entry]
    <3> SUFFICES ASSUME NEW s \in Slot
                 PROVE  Retire(s, Capture(s, Push(s, outstanding[s], Accepts(gnt)),
                                          Captures(ans))) \in Entry
      BY <1>2 DEF Edge
    <3>1. outstanding[s] \in Entry
      BY DEF TypeOK
    <3> QED BY <3>1, PushTyped, CaptureTyped, RetireTyped
  <2>3. hostReq' \in [Host -> Request \cup {None}]
    BY <1>2 DEF Edge, TypeOK
  <2>4. devQ' \in [Device -> Seq(Tag)]
    BY <1>2, QueuesTyped
  <2>5. rsp' \in ResponseType \cup {None}
    BY <1>2, ResponseTyped DEF Edge
  <2> QED BY <2>1, <2>2, <2>3, <2>4, <2>5 DEF TypeOK
<1>3. CASE UNCHANGED vars
  BY <1>3 DEF vars, TypeOK
<1> QED BY <1>1, <1>2, <1>3 DEF Next, ClockEdge

\* In every reachable state the ring, the request lines, the device queues and
\* the response have the shapes bus.sv declares (bus.sv:38-54).
THEOREM TypeCorrect == Spec => []TypeOK
<1>1. Init => TypeOK
  BY InitTyped
<1>2. TypeOK /\ [Next]_vars => TypeOK'
  BY StepTyped
<1> QED BY <1>1, <1>2, PTL DEF Spec

-----------------------------------------------------------------------------
(* A slot is handed back clean.                                            *)

\* At reset every slot is free and clean.
LEMMA InitClean == Init => FreeSlotsClean
BY DEF Init, FreeSlotsClean

\* A slot leaves the ring with all its flags down (bus.sv:137-142): the next request
\* to take it finds no answer there.
LEMMA StepClean == TypeOK /\ FreeSlotsClean /\ [Next]_vars => FreeSlotsClean'
<1> SUFFICES ASSUME TypeOK, FreeSlotsClean, [Next]_vars PROVE FreeSlotsClean'
  OBVIOUS
<1>1. ASSUME NEW h \in Host, NEW r \in Request, RaiseRequest(h, r)
      PROVE  FreeSlotsClean'
  BY <1>1 DEF RaiseRequest, FreeSlotsClean, Window, Occupancy, SlotAt
<1>2. ASSUME NEW gnt \in BOOLEAN, NEW ans \in SUBSET Pending, Edge(gnt, ans)
      PROVE  FreeSlotsClean'
  <2> SUFFICES ASSUME NEW s \in Slot, s \notin Window'
               PROVE  ~outstanding'[s].done /\ ~outstanding'[s].err
    BY DEF FreeSlotsClean
  <2> DEFINE pushed == Push(s, outstanding[s], Accepts(gnt))
             captured == Capture(s, pushed, Captures(ans))
  <2>1. outstanding'[s] = Retire(s, captured)
    BY <1>2 DEF Edge
  <2>2. captured \in Entry
    BY PushTyped, CaptureTyped DEF TypeOK
  <2>3. CASE Responds /\ s = front
    <3> HIDE DEF captured
    <3> QED BY <2>1, <2>2, <2>3 DEF Retire, Entry
  <2>4. CASE s \notin Window /\ ~(Accepts(gnt) /\ s = back)
    <3>1. pushed = outstanding[s]
      BY <2>4 DEF Push
    <3>2. captured = outstanding[s]
      BY <2>4, <3>1, CapturesWait DEF Capture, TypeOK
    <3>3. ~outstanding[s].done /\ ~outstanding[s].err
      BY <2>4 DEF FreeSlotsClean
    <3> HIDE DEF captured
    <3> QED BY <2>1, <2>2, <3>2, <3>3 DEF Retire, Entry
  <2> QED BY <1>2, <2>3, <2>4, FreeAfterEdge DEF TypeOK
<1>3. CASE UNCHANGED vars
  BY <1>3 DEF vars, FreeSlotsClean, Window, Occupancy, SlotAt
<1> QED BY <1>1, <1>2, <1>3 DEF Next, ClockEdge

\* A free slot never carries `done` or `err`: a granted request, pushed without
\* writing `done` (bus.sv:114-119), is never answered by what its slot held
\* before, because only the retiring assignment (bus.sv:137-141) frees a slot.
THEOREM FreeSlotsAreClean == Spec => []FreeSlotsClean
<1>1. Init => TypeOK /\ FreeSlotsClean
  BY InitTyped, InitClean
<1>2. (TypeOK /\ FreeSlotsClean) /\ [Next]_vars => (TypeOK /\ FreeSlotsClean)'
  BY StepTyped, StepClean
<1> QED BY <1>1, <1>2, PTL DEF Spec

-----------------------------------------------------------------------------
(* The bus keeps its promise: every accepted request gets the answer of    *)
(* its device, in the order of acceptance, although the ring's slots are   *)
(* filled out of order and only the order of a device's answers says which *)
(* slot an answer is for.                                                  *)

-----------------------------------------------------------------------------
(* Places.  The slot k places from the front moves to place k - r when the *)
(* front moves on by r.                                                    *)

\* How far an edge moves the front.
Shift == IF Responds THEN 1 ELSE 0

\* Places within the window are distinct slots, and the one behind it is back.
LEMMA Places ==
    ASSUME front \in Slot, back \in Slot
    PROVE  /\ Occupancy \in 0 .. BufferMax - 1
           /\ \A k \in 0 .. Occupancy : SlotAt(k) \in Slot
           /\ \A j, k \in 0 .. Occupancy : SlotAt(j) = SlotAt(k) => j = k
           /\ SlotAt(0) = front
           /\ SlotAt(Occupancy) = back
           /\ Full <=> Occupancy = BufferMax - 1
           /\ Empty <=> Occupancy = 0
BY CountsAssumption
   DEF Occupancy, SlotAt, Minus, Plus, Slot, Full, Empty, Inc

\* An edge moves every occupied place up by r, and the slot that takes a
\* request becomes the last place.
LEMMA PlacesShift ==
    ASSUME front \in Slot, back \in Slot, NEW gnt, NEW ans, Edge(gnt, ans),
           NEW r \in 0 .. 1, r = Shift
    PROVE  /\ Occupancy' = (Occupancy - r) + (IF Accepts(gnt) THEN 1 ELSE 0)
           /\ \A j \in r .. Occupancy : SlotAt(j - r)' = SlotAt(j)
           /\ r <= Occupancy
           /\ front' \in Slot /\ back' \in Slot
<1>1. /\ front' = IF r = 1 THEN Inc(front) ELSE front
      /\ back' = IF Accepts(gnt) THEN Inc(back) ELSE back
  BY DEF Edge, Shift
<1>2. r = 1 => front # back
  BY DEF Shift, Responds, Empty
<1>3. Accepts(gnt) => Inc(back) # front
  BY DEF Accepts, Full
<1>4. front' \in Slot /\ back' \in Slot
  BY <1>1, IncInSlot
<1>5. Occupancy' = (Occupancy - r) + (IF Accepts(gnt) THEN 1 ELSE 0)
  BY <1>1, <1>2, <1>3, CountsAssumption DEF Occupancy, Minus, Inc, Plus, Slot
<1>6. ASSUME NEW j \in r .. Occupancy PROVE SlotAt(j - r)' = SlotAt(j)
  BY <1>1, <1>2, <1>4, CountsAssumption DEF SlotAt, Occupancy, Minus, Inc, Plus, Slot
<1>7. r <= Occupancy
  BY <1>2, CountsAssumption DEF Occupancy, Minus, Slot
<1> QED BY <1>4, <1>5, <1>6, <1>7

-----------------------------------------------------------------------------
(* Entries.  What an edge writes into the slot at a place.                 *)

\* The place k takes an answer of this cycle: it is the first that waits for
\* one of the answering devices (the `claimed` bits of bus.sv:124-135).
Takes(ans, k) ==
    /\ k \in 0 .. Occupancy - 1
    /\ Waits(k)
    /\ outstanding[SlotAt(k)].device \in ans
    /\ \A i \in 0 .. k - 1 :
         Waits(i) => outstanding[SlotAt(i)].device # outstanding[SlotAt(k)].device

\* Takes says of a place what Captures says of a slot: the first slot in the ring
\* that waits for a device takes its answer.
LEMMA TakesIsCapture ==
    ASSUME front \in Slot, back \in Slot, NEW ans, NEW k \in 0 .. Occupancy - 1
    PROVE  SlotAt(k) \in Captures(ans) <=> Takes(ans, k)
<1>1. ASSUME SlotAt(k) \in Captures(ans) PROVE Takes(ans, k)
  <2>1. PICK i \in 0 .. Occupancy - 1 : Takes(ans, i) /\ SlotAt(k) = SlotAt(i)
    BY <1>1 DEF Captures, Takes
  <2>2. k = i
    BY <2>1, Places
  <2> QED BY <2>1, <2>2
<1>2. ASSUME Takes(ans, k) PROVE SlotAt(k) \in Captures(ans)
  BY <1>2 DEF Captures, Takes
<1> QED BY <1>1, <1>2

\* What the capturing assignment makes of an entry.
Filled(e) ==
    LET a == Answer(e.device, Head(devQ[e.device]))
    IN  [e EXCEPT !.rdata = a.rdata, !.err = a.err, !.done = TRUE]

\* Filling an entry keeps whom and what it is for.
LEMMA FilledEntry ==
    ASSUME NEW e \in Entry
    PROVE  LET a == Answer(e.device, Head(devQ[e.device]))
           IN  /\ Filled(e).host = e.host /\ Filled(e).device = e.device
               /\ Filled(e).done = TRUE
               /\ Filled(e).rdata = a.rdata /\ Filled(e).err = a.err
<1> DEFINE a == Answer(e.device, Head(devQ[e.device]))
<1>1. Filled(e) = [e EXCEPT !.rdata = a.rdata, !.err = a.err, !.done = TRUE]
  BY DEF Filled
<1> HIDE DEF a
<1>2. /\ Filled(e).host = e.host /\ Filled(e).device = e.device
      /\ Filled(e).done = TRUE
      /\ Filled(e).rdata = a.rdata /\ Filled(e).err = a.err
  BY <1>1 DEF Entry
<1> QED BY <1>2 DEF a

\* A slot that was occupied and stays so is written by the capturing
\* assignment or not at all.
LEMMA OldEntry ==
    ASSUME TypeOK, NEW gnt, NEW ans \in SUBSET Pending, Edge(gnt, ans),
           NEW r \in 0 .. 1, r = Shift, NEW j \in r .. Occupancy - 1,
           NEW e, e = outstanding[SlotAt(j)]
    PROVE  /\ ~Takes(ans, j) => outstanding[SlotAt(j - r)]' = e
           /\ Takes(ans, j) => outstanding[SlotAt(j - r)]' = Filled(e)
<1> DEFINE s == SlotAt(j)
<1>0. front \in Slot /\ back \in Slot
  BY DEF TypeOK
<1>1. j \in 0 .. Occupancy - 1 /\ Occupancy \in 0 .. BufferMax - 1
  BY <1>0, Places
<1>2. s \in Slot /\ s # back
  BY <1>0, <1>1, Places
<1>3. ~(Responds /\ s = front)
  BY <1>0, <1>1, Places DEF Shift
<1>4. SlotAt(j - r)' = s
  BY <1>0, <1>1, PlacesShift
<1>5. outstanding'[s] = Retire(s, Capture(s, Push(s, e, Accepts(gnt)), Captures(ans)))
  BY <1>2 DEF Edge
<1>6. Push(s, e, Accepts(gnt)) = e
  BY <1>2 DEF Push
<1>7. outstanding'[s] = Capture(s, e, Captures(ans))
  BY <1>3, <1>5, <1>6 DEF Retire
<1>8. s \in Captures(ans) <=> Takes(ans, j)
  BY <1>0, <1>1, TakesIsCapture
<1>9. outstanding[SlotAt(j - r)]' = outstanding'[s]
  BY <1>4
<1> QED
  BY <1>7, <1>8, <1>9 DEF Capture, Filled

\* The slot that takes the request of this cycle holds nothing but it.
LEMMA NewEntry ==
    ASSUME TypeOK, NEW gnt, NEW ans \in SUBSET Pending, Edge(gnt, ans), Accepts(gnt),
           NEW r \in 0 .. 1, r = Shift, NEW n, n = Occupancy
    PROVE  outstanding[SlotAt(n - r)]' = Push(back, outstanding[back], TRUE)
<1>0. front \in Slot /\ back \in Slot
  BY DEF TypeOK
<1>1. n \in 0 .. BufferMax - 1 /\ SlotAt(n) = back /\ r <= n
  BY <1>0, Places, PlacesShift
<1>2. SlotAt(n - r)' = back
  BY <1>0, <1>1, PlacesShift
<1>3. back \notin Captures(ans)
  <2>1. ASSUME back \in Captures(ans) PROVE FALSE
    <3>1. PICK k \in 0 .. Occupancy - 1 : back = SlotAt(k)
      BY <2>1 DEF Captures
    <3> QED BY <1>0, <1>1, <3>1, Places
  <2> QED BY <2>1
<1>4. ~(Responds /\ back = front)
  BY DEF Responds, Empty
<1>5. outstanding'[back]
        = Retire(back, Capture(back, Push(back, outstanding[back], Accepts(gnt)), Captures(ans)))
  BY <1>0 DEF Edge
<1>6. outstanding'[back] = Push(back, outstanding[back], Accepts(gnt))
  BY <1>3, <1>4, <1>5 DEF Retire, Capture
<1>7. Push(back, outstanding[back], Accepts(gnt)) = Push(back, outstanding[back], TRUE)
  BY DEF Push
<1> QED
  BY <1>2, <1>6, <1>7

-----------------------------------------------------------------------------
(* Waiters.  Which places wait for a device, before and after an edge.     *)

Taken(ans, d) == {k \in WaitingFor(d) : Takes(ans, k)}

\* A device that answers answers the oldest place that waits for it, and
\* no other place takes an answer of that device.
LEMMA TakenIsOldest ==
    ASSUME TypeOK, NEW ans, NEW d \in Device
    PROVE  /\ d \notin ans => Taken(ans, d) = {}
           /\ d \in ans /\ WaitingFor(d) # {} =>
                \E m \in WaitingFor(d) : /\ Taken(ans, d) = {m}
                                         /\ \A k \in WaitingFor(d) : m <= k
<1>1. d \notin ans => Taken(ans, d) = {}
  BY DEF Taken, Takes, WaitingFor
<1>2. ASSUME d \in ans, WaitingFor(d) # {}
      PROVE  \E m \in WaitingFor(d) : /\ Taken(ans, d) = {m}
                                      /\ \A k \in WaitingFor(d) : m <= k
  <2>1. Occupancy \in Nat
    BY Places DEF TypeOK
  <2>2. WaitingFor(d) \in SUBSET Nat
    BY <2>1 DEF WaitingFor
  <2>3. PICK m \in WaitingFor(d) : \A k \in WaitingFor(d) : m <= k
    BY <1>2, <2>2, LeastNat
  <2>4. Takes(ans, m)
    <3>1. \A i \in 0 .. m - 1 : Waits(i) => outstanding[SlotAt(i)].device # d
      BY <2>1, <2>3 DEF WaitingFor
    <3> QED BY <1>2, <3>1 DEF Takes, WaitingFor
  <2>5. ASSUME NEW k \in WaitingFor(d), Takes(ans, k) PROVE k = m
    <3>1. k \in Nat /\ m \in Nat /\ m <= k
      BY <2>2, <2>3
    <3>2. ~(m < k)
      <4>1. ASSUME m < k PROVE FALSE
        <5>1. m \in 0 .. k - 1
          BY <3>1, <4>1
        <5> QED BY <2>3, <2>5, <5>1 DEF Takes, WaitingFor
      <4> QED BY <4>1
    <3> QED BY <3>1, <3>2
  <2>6. Taken(ans, d) = {m}
    BY <2>4, <2>5 DEF Taken
  <2> QED BY <2>3, <2>6
<1> QED BY <1>1, <1>2

\* An error is only ever recorded together with `done` (bus.sv:120-122 and
\* 131-133), so a place that does not wait is done.
ErrorsAreDone == \A s \in Slot : outstanding[s].err => outstanding[s].done

\* The places that wait after an edge: those that waited and took no answer,
\* moved up, and the place of a request that a device has accepted.
LEMMA WaitersStep ==
    ASSUME TypeOK, FreeSlotsClean,
           NEW gnt, NEW ans \in SUBSET Pending, Edge(gnt, ans),
           NEW r \in 0 .. 1, r = Shift, NEW n, n = Occupancy, NEW d \in Device
    PROVE  WaitingFor(d)' = {j - r : j \in WaitingFor(d) \ Taken(ans, d)}
                              \cup (IF AcceptedBy(d, gnt) THEN {n - r} ELSE {})
<1>0. front \in Slot /\ back \in Slot
  BY DEF TypeOK
<1>1. n \in 0 .. BufferMax - 1 /\ r <= n
  BY <1>0, Places, PlacesShift
<1>2. Occupancy' = (n - r) + (IF Accepts(gnt) THEN 1 ELSE 0)
  BY <1>0, PlacesShift
<1>3. ASSUME NEW j \in r .. n - 1
      PROVE  (j - r) \in WaitingFor(d)' <=> j \in WaitingFor(d) \ Taken(ans, d)
  <2> DEFINE e == outstanding[SlotAt(j)]
  <2>1. SlotAt(j) \in Slot /\ e \in Entry
    BY <1>0, <1>1, Places DEF TypeOK
  <2>2. (j - r) \in 0 .. Occupancy' - 1
    BY <1>1, <1>2, CountsAssumption
  <2>3. (j - r) \in WaitingFor(d)' <=>
            LET f == outstanding[SlotAt(j - r)]'
            IN  ~f.done /\ ~f.err /\ f.device = d
    BY <2>2 DEF WaitingFor, Waits
  <2>4. j \in WaitingFor(d) <=> ~e.done /\ ~e.err /\ e.device = d
    BY <1>1 DEF WaitingFor, Waits
  <2>5. CASE Takes(ans, j)
    <3>1. outstanding[SlotAt(j - r)]'.done = TRUE
      <4> DEFINE x == Filled(e)
      <4>1. outstanding[SlotAt(j - r)]' = x
        BY <1>1, <2>5, OldEntry
      <4>2. x.done = TRUE
        BY <2>1, FilledEntry
      <4> HIDE DEF x
      <4> QED BY <4>1, <4>2
    <3> QED BY <2>3, <2>5, <3>1 DEF Taken
  <2>6. CASE ~Takes(ans, j)
    <3>1. outstanding[SlotAt(j - r)]' = e
      BY <1>1, <2>6, OldEntry
    <3> HIDE DEF e
    <3> QED BY <2>3, <2>4, <2>6, <3>1 DEF Taken
  <2> QED BY <2>5, <2>6
<1>4. Accepts(gnt) => ((n - r) \in WaitingFor(d)' <=> AcceptedBy(d, gnt))
  <2> SUFFICES ASSUME Accepts(gnt)
               PROVE  (n - r) \in WaitingFor(d)' <=> AcceptedBy(d, gnt)
    OBVIOUS
  <2>1. outstanding[SlotAt(n - r)]' = Push(back, outstanding[back], TRUE)
    BY NewEntry
  <2>2. outstanding[back] \in Entry /\ ~outstanding[back].done /\ ~outstanding[back].err
    <3>1. back \notin Window
      <4>1. SlotAt(n) = back /\ n \in 0 .. n
        BY <1>0, <1>1, Places
      <4>2. ASSUME NEW k \in 0 .. n - 1, SlotAt(k) = back PROVE FALSE
        BY <1>0, <1>1, <4>1, <4>2, Places
      <4> QED BY <4>2 DEF Window
    <3> QED BY <1>0, <3>1 DEF FreeSlotsClean, TypeOK
  <2>3. (n - r) \in 0 .. Occupancy' - 1
    BY <1>1, <1>2, CountsAssumption
  <2>4. (n - r) \in WaitingFor(d)' <=>
            LET f == outstanding[SlotAt(n - r)]'
            IN  ~f.done /\ ~f.err /\ f.device = d
    BY <2>3 DEF WaitingFor, Waits
  <2>5. CASE Mapped(Selected.addr)
    <3>1. Push(back, outstanding[back], TRUE)
            = [outstanding[back] EXCEPT !.host = SelectedHost,
                    !.device = Decode(Selected.addr), !.err = FALSE]
      BY <2>5 DEF Push
    <3> DEFINE dev == Decode(Selected.addr)
               new == Push(back, outstanding[back], TRUE)
    <3>2. new.device = dev /\ ~new.done /\ ~new.err
      <4> DEFINE old == outstanding[back]
                 h == SelectedHost
      <4>1. new = [old EXCEPT !.host = h, !.device = dev, !.err = FALSE]
        BY <3>1
      <4>2. old \in Entry /\ ~old.done
        BY <2>2
      <4> HIDE DEF dev, new, old, h
      <4> QED BY <4>1, <4>2 DEF Entry
    <3>3. AcceptedBy(d, gnt) <=> dev = d
      BY <2>5 DEF AcceptedBy
    <3> HIDE DEF dev, new
    <3> QED BY <2>1, <2>4, <3>2, <3>3 DEF new
  <2>6. CASE ~Mapped(Selected.addr)
    <3>1. Push(back, outstanding[back], TRUE).done
      BY <2>2, <2>6 DEF Push, Entry
    <3> QED BY <2>1, <2>4, <2>6, <3>1 DEF AcceptedBy
  <2> QED BY <2>5, <2>6
<1>5. WaitingFor(d) \ Taken(ans, d) \subseteq r .. n - 1
  <2> SUFFICES ASSUME NEW k \in WaitingFor(d) PROVE k \in r .. n - 1
    OBVIOUS
  <2>1. k \in 0 .. n - 1 /\ ~outstanding[SlotAt(k)].done
    BY DEF WaitingFor, Waits
  <2>2. r = 1 => k # 0
    BY <1>0, <2>1, Places DEF Shift, Responds
  <2> QED BY <1>1, <2>1, <2>2
<1>6. WaitingFor(d)' \subseteq 0 .. Occupancy' - 1
  BY DEF WaitingFor
<1>7. AcceptedBy(d, gnt) => Accepts(gnt)
  BY DEF AcceptedBy
<1> DEFINE W == WaitingFor(d) \ Taken(ans, d)
           W2 == WaitingFor(d)'
<1>8. ASSUME NEW k \in W2 PROVE \/ \E j \in W : k = j - r
                                \/ AcceptedBy(d, gnt) /\ k = n - r
  <2>1. CASE k < n - r
    <3>1. (k + r) \in r .. n - 1 /\ (k + r) - r = k
      BY <1>1, <1>2, <1>6, <2>1, CountsAssumption
    <3> QED BY <1>3, <3>1
  <2>2. CASE ~(k < n - r)
    <3>1. Accepts(gnt) /\ k = n - r
      BY <1>1, <1>2, <1>6, <2>2, CountsAssumption
    <3> QED BY <1>4, <3>1
  <2> QED BY <2>1, <2>2
<1>9. \A j \in W : (j - r) \in W2
  BY <1>3, <1>5
<1>10. AcceptedBy(d, gnt) => (n - r) \in W2
  BY <1>4, <1>7
<1> HIDE DEF W, W2
<1>11. W2 = {j - r : j \in W} \cup (IF AcceptedBy(d, gnt) THEN {n - r} ELSE {})
  BY <1>8, <1>9, <1>10
<1> QED BY <1>11 DEF W, W2

-----------------------------------------------------------------------------
(* Counting the waiters.                                                   *)

\* Moving every place up by r does not change how many there are.
LEMMA ShiftedCount ==
    ASSUME NEW T \in SUBSET Int, IsFiniteSet(T), NEW r \in Int
    PROVE  LET U == {j - r : j \in T}
           IN  IsFiniteSet(U) /\ Cardinality(U) = Cardinality(T)
<1> DEFINE U == {j - r : j \in T}
           f == [j \in T |-> j - r]
<1>1. f \in Injection(T, U)
  <2>1. f \in [T -> U]
    OBVIOUS
  <2>2. \A a, b \in T : f[a] = f[b] => a = b
    OBVIOUS
  <2> HIDE DEF f, U
  <2> QED BY <2>1, <2>2 DEF Injection, IsInjective
<1>2. f \in Surjection(T, U)
  BY DEF Surjection
<1>3. ExistsBijection(T, U)
  BY <1>1, <1>2, Zenon DEF ExistsBijection, Bijection
<1> HIDE DEF U, f
<1>4. IsFiniteSet(U) /\ Cardinality(U) = Cardinality(T)
  BY <1>3, FS_Bijection
<1> QED BY <1>4 DEF U

\* The places that wait are finitely many and all occupied.
LEMMA WaitersFinite ==
    ASSUME TypeOK, NEW d \in Device
    PROVE  /\ Occupancy \in Nat
           /\ WaitingFor(d) \subseteq 0 .. Occupancy - 1
           /\ IsFiniteSet(WaitingFor(d))
<1>1. Occupancy \in Nat
  BY Places DEF TypeOK
<1>2. WaitingFor(d) \subseteq 0 .. Occupancy - 1
  BY DEF WaitingFor
<1>3. IsFiniteSet(0 .. Occupancy - 1)
  BY <1>1, FS_Interval
<1> QED BY <1>1, <1>2, <1>3, FS_Subset

\* How many requests leave the queue of d at the head, and how many stay.
Leaving(ans, d) == IF d \in ans THEN 1 ELSE 0
Staying(ans, d) == Len(devQ[d]) - Leaving(ans, d)

\* What an edge does to the requests a device has yet to answer: the answered
\* one leaves, and one is added at the end if the device grants it.
LEMMA QueueStep ==
    ASSUME TypeOK, NEW gnt, NEW ans \in SUBSET Pending, Edge(gnt, ans), NEW d \in Device
    PROVE  /\ Staying(ans, d) \in Nat /\ Leaving(ans, d) \in 0 .. 1
           /\ AcceptedBy(d, gnt) => Len(devQ'[d]) = Staying(ans, d) + 1
           /\ ~AcceptedBy(d, gnt) => Len(devQ'[d]) = Staying(ans, d)
           /\ \A i \in 1 .. Staying(ans, d) : devQ'[d][i] = devQ[d][i + Leaving(ans, d)]
           /\ AcceptedBy(d, gnt) => devQ'[d][Staying(ans, d) + 1] = Selected.tag
<1> DEFINE c == Leaving(ans, d)
           left == Staying(ans, d)
           q == devQ[d]
           rest == IF d \in ans THEN Tail(q) ELSE q
           t == Selected.tag
<1>1. q \in Seq(Tag) /\ (d \in ans => q # <<>>)
  BY DEF TypeOK, Pending
<1>2. AcceptedBy(d, gnt) => t \in Tag
  BY SelectedHostRequests, DataAssumption
     DEF AcceptedBy, Accepts, Requesting, Selected, TypeOK
<1>3. devQ'[d] = IF AcceptedBy(d, gnt) THEN Append(rest, t) ELSE rest
  BY DEF Edge
<1> HIDE DEF q, t
<1>4. /\ rest \in Seq(Tag) /\ Len(rest) = Len(q) - c /\ Len(rest) \in Nat
      /\ \A i \in 1 .. Len(rest) : rest[i] = q[i + c]
      /\ c \in 0 .. 1
  BY <1>1 DEF Leaving
<1> HIDE DEF rest
<1>5. left = Len(rest)
  BY <1>4 DEF q, Staying
<1> HIDE DEF c, left
<1>6. CASE AcceptedBy(d, gnt)
  <2>1. devQ'[d] = Append(rest, t)
    BY <1>3, <1>6
  <2>2. /\ Len(Append(rest, t)) = Len(rest) + 1
        /\ \A i \in 1 .. Len(rest) : Append(rest, t)[i] = rest[i]
        /\ Append(rest, t)[Len(rest) + 1] = t
    BY <1>2, <1>4, <1>6
  <2> QED BY <1>4, <1>5, <1>6, <2>1, <2>2 DEF q, t, c, left
<1>7. CASE ~AcceptedBy(d, gnt)
  <2>1. devQ'[d] = rest
    BY <1>3, <1>7
  <2> QED BY <1>4, <1>5, <1>7, <2>1 DEF q, c, left
<1> QED BY <1>6, <1>7

\* The places before j that wait for d.
Ahead(d, j) == {k \in WaitingFor(d) : k < j}

\* How many of the places that wait for d before place j are left in front of
\* it after the edge: one fewer if the device answered, and as it answers the
\* oldest this holds for every place that waits on.
LEMMA WaitersInFront ==
    ASSUME TypeOK, FreeSlotsClean, WaitersMatchDevices,
           NEW gnt, NEW ans \in SUBSET Pending, Edge(gnt, ans),
           NEW r \in 0 .. 1, r = Shift, NEW d \in Device,
           NEW n, n = Occupancy, NEW j \in r .. n,
           j = n \/ j \in WaitingFor(d) \ Taken(ans, d)
    PROVE  /\ IsFiniteSet(Ahead(d, j)) /\ IsFiniteSet(Ahead(d, j - r)')
           /\ Cardinality(Ahead(d, j)) \in Nat
           /\ Cardinality(Ahead(d, j - r)') = Cardinality(Ahead(d, j)) - Leaving(ans, d)
<1> DEFINE c == Leaving(ans, d)
           W == WaitingFor(d)
           T == Taken(ans, d)
           before == {k \in W : k < j}
           after  == {k \in WaitingFor(d)' : k < j - r}
           still  == before \ T
           moved  == {k - r : k \in still}
<1>0. j = n \/ j \in W \ T
  OBVIOUS
<1>1. n \in Nat /\ W \subseteq 0 .. n - 1 /\ IsFiniteSet(W)
  BY WaitersFinite
<1>2. WaitingFor(d)' = {k - r : k \in W \ T} \cup (IF AcceptedBy(d, gnt) THEN {n - r} ELSE {})
  BY WaitersStep
<1>3. IsFiniteSet(before) /\ Cardinality(before) \in Nat
  <2> HIDE DEF W
  <2>1. before \in SUBSET W
    OBVIOUS
  <2> QED BY <1>1, <2>1, FS_Subset, FS_CardinalityType
<1>4. after = moved
  <2> HIDE DEF W, T
  <2>1. ASSUME NEW k \in after PROVE k \in moved
    <3>1. k # n - r
      BY <1>1, <2>1
    <3>2. PICK i \in W \ T : k = i - r
      BY <1>2, <3>1
    <3>3. i < j
      BY <1>1, <2>1, <3>2
    <3> QED BY <3>2, <3>3
  <2>2. ASSUME NEW k \in moved PROVE k \in after
    <3>1. PICK i \in W \ T : i < j /\ k = i - r
      OBVIOUS
    <3> QED BY <1>1, <1>2, <3>1
  <2> QED BY <2>1, <2>2
<1>5. IsFiniteSet(still) /\ Cardinality(still) = Cardinality(before) - c
  <2>1. CASE d \notin ans
    <3>1. T = {} /\ c = 0
      BY <2>1, TakenIsOldest DEF Leaving
    <3> HIDE DEF T, W
    <3>2. still = before
      BY <3>1
    <3> HIDE DEF still, before
    <3> QED BY <1>3, <3>1, <3>2
  <2>2. CASE d \in ans
    <3>1. W # {} /\ c = 1
      <4>1. devQ[d] # <<>> /\ devQ[d] \in Seq(Tag)
        BY <2>2 DEF Pending, TypeOK
      <4>2. Len(devQ[d]) # 0
        BY <4>1
      <4>3. Cardinality(W) # 0
        BY <4>2 DEF WaitersMatchDevices
      <4>4. W # {}
        BY <4>3, FS_EmptySet
      <4> QED BY <2>2, <4>4 DEF Leaving
    <3>2. PICK m \in W : T = {m} /\ \A k \in W : m <= k
      BY <2>2, <3>1, TakenIsOldest
    <3> HIDE DEF W, T
    <3>3. m < j
      BY <1>0, <1>1, <3>2
    <3>4. still = before \ {m} /\ m \in before
      BY <3>2, <3>3
    <3> HIDE DEF before, still
    <3> QED BY <1>3, <3>1, <3>4, FS_RemoveElement
  <2> QED BY <2>1, <2>2
<1>6. IsFiniteSet(moved) /\ Cardinality(moved) = Cardinality(still)
  <2>1. still \in SUBSET Int
    <3>1. still \subseteq W
      OBVIOUS
    <3> HIDE DEF W, still
    <3> QED BY <1>1, <3>1
  <2>2. r \in Int
    OBVIOUS
  <2> HIDE DEF still
  <2> QED BY <1>5, <2>1, <2>2, ShiftedCount, Zenon
<1> HIDE DEF after, before, moved, still
<1>7. /\ IsFiniteSet(before) /\ IsFiniteSet(after)
      /\ Cardinality(before) \in Nat
      /\ Cardinality(after) = Cardinality(before) - c
  BY <1>3, <1>4, <1>5, <1>6
<1> QED BY <1>7 DEF after, before, W, Ahead

-----------------------------------------------------------------------------
(* The invariant.                                                          *)

RingInv == TypeOK /\ FreeSlotsClean /\ ErrorsAreDone /\ WaitersMatchDevices

\* At reset the ring and the devices' queues are empty.
LEMMA InitRing == Init => RingInv
<1> SUFFICES ASSUME Init PROVE RingInv
  OBVIOUS
<1>1. TypeOK /\ FreeSlotsClean
  BY InitTyped, InitClean
<1>2. ErrorsAreDone
  BY DEF Init, ErrorsAreDone
<1>3. ASSUME NEW d \in Device PROVE Cardinality(WaitingFor(d)) = Len(devQ[d])
  <2>1. devQ[d] = <<>>
    BY DEF Init
  <2>2. WaitingFor(d) = {}
    <3>1. Occupancy = 0
      BY DEF Init, Occupancy, Minus
    <3> QED BY <3>1 DEF WaitingFor
  <2>3. Cardinality(WaitingFor(d)) = 0
    BY <2>2, FS_EmptySet
  <2> QED BY <2>1, <2>3
<1> QED BY <1>1, <1>2, <1>3 DEF RingInv, WaitersMatchDevices

\* Pushing a mapped request clears the error bit, pushing an unmapped one and
\* capturing an answer set `done` along with it.
LEMMA EdgeErrorsDone ==
    ASSUME TypeOK, ErrorsAreDone, NEW gnt, NEW ans \in SUBSET Pending, Edge(gnt, ans)
    PROVE  ErrorsAreDone'
<1> SUFFICES ASSUME NEW s \in Slot PROVE outstanding'[s].err => outstanding'[s].done
  BY DEF ErrorsAreDone
<1> DEFINE e == outstanding[s]
           pushed == Push(s, e, Accepts(gnt))
           captured == Capture(s, pushed, Captures(ans))
<1>1. e \in Entry /\ (e.err => e.done)
  BY DEF TypeOK, ErrorsAreDone
<1>2. pushed \in Entry /\ captured \in Entry
  BY <1>1, PushTyped, CaptureTyped
<1>3. pushed.err => pushed.done
  <2>1. CASE ~(Accepts(gnt) /\ s = back)
    BY <1>1, <2>1 DEF Push
  <2>2. CASE Accepts(gnt) /\ s = back /\ Mapped(Selected.addr)
    <3> DEFINE h == SelectedHost
               d == Decode(Selected.addr)
    <3>1. pushed = [e EXCEPT !.host = h, !.device = d, !.err = FALSE]
      BY <2>2 DEF Push
    <3> HIDE DEF e, pushed, h, d
    <3> QED BY <1>1, <3>1 DEF Entry
  <2>3. CASE Accepts(gnt) /\ s = back /\ ~Mapped(Selected.addr)
    <3> DEFINE h == SelectedHost
    <3>1. pushed = [e EXCEPT !.host = h, !.device = 0, !.err = TRUE, !.done = TRUE]
      BY <2>3 DEF Push
    <3> HIDE DEF e, pushed, h
    <3> QED BY <1>1, <3>1 DEF Entry
  <2> QED BY <2>1, <2>2, <2>3
<1>4. captured.err => captured.done
  <2>1. CASE s \notin Captures(ans)
    BY <1>3, <2>1 DEF Capture
  <2>2. CASE s \in Captures(ans)
    <3> DEFINE a == Answer(outstanding[s].device, Head(devQ[outstanding[s].device]))
    <3>1. captured = [pushed EXCEPT !.rdata = a.rdata, !.err = a.err, !.done = TRUE]
      BY <2>2 DEF Capture
    <3> HIDE DEF pushed, captured, a
    <3> QED BY <1>2, <3>1 DEF Entry
  <2> QED BY <2>1, <2>2
<1>5. outstanding'[s] = Retire(s, captured)
  BY DEF Edge
<1> HIDE DEF captured
<1> QED BY <1>2, <1>4, <1>5 DEF Retire, Entry

\* An edge that takes an answer off a device's queue fills one slot that waited for
\* it, and an accepted request adds one to both.
LEMMA EdgeWaiters ==
    ASSUME TypeOK, FreeSlotsClean, WaitersMatchDevices,
           NEW gnt \in BOOLEAN, NEW ans \in SUBSET Pending, Edge(gnt, ans)
    PROVE  WaitersMatchDevices'
<1> SUFFICES ASSUME NEW d \in Device
             PROVE  Cardinality(WaitingFor(d)') = Len(devQ'[d])
  BY DEF WaitersMatchDevices
<1>1. PICK r \in 0 .. 1 : r = Shift
  BY DEF Shift
<1>2. PICK n : n = Occupancy
  OBVIOUS
<1> DEFINE c == Leaving(ans, d)
           W == WaitingFor(d)
           before == Ahead(d, n)
           after == Ahead(d, n - r)'
<1>3. n \in Nat /\ W \subseteq 0 .. n - 1 /\ r <= n
  BY <1>1, <1>2, WaitersFinite, PlacesShift DEF TypeOK
<1>4. before = W /\ after = {k \in WaitingFor(d)' : k < n - r}
  BY <1>3 DEF Ahead
<1>5. IsFiniteSet(after) /\ Cardinality(after) = Cardinality(before) - c
  <2>1. n \in r .. n
    BY <1>3
  <2> QED BY <1>1, <1>2, <2>1, WaitersInFront
<1>6. Cardinality(after) = Staying(ans, d)
  BY <1>4, <1>5 DEF WaitersMatchDevices, Staying
<1>7. WaitingFor(d)' = {j - r : j \in W \ Taken(ans, d)}
                          \cup (IF AcceptedBy(d, gnt) THEN {n - r} ELSE {})
  BY <1>1, <1>2, WaitersStep
<1>8. \A k \in {j - r : j \in W \ Taken(ans, d)} : k < n - r
  <2> HIDE DEF W
  <2> QED BY <1>3
<1>9. WaitingFor(d)' = IF AcceptedBy(d, gnt) THEN after \cup {n - r} ELSE after
  <2> HIDE DEF W, after
  <2> QED BY <1>3, <1>4, <1>7, <1>8
<1>10. (n - r) \notin after
  BY <1>3, <1>4
<1> HIDE DEF after, before, W
<1>11. CASE AcceptedBy(d, gnt)
  <2>1. Cardinality(after \cup {n - r}) = Cardinality(after) + 1
    BY <1>5, <1>10, FS_AddElement
  <2> QED BY <1>6, <1>9, <1>11, <2>1, QueueStep
<1>12. CASE ~AcceptedBy(d, gnt)
  BY <1>6, <1>9, <1>12, QueueStep
<1> QED BY <1>11, <1>12

\* Requests and clock edges keep the invariant.
LEMMA StepRing == RingInv /\ [Next]_vars => RingInv'
<1> SUFFICES ASSUME RingInv, [Next]_vars PROVE RingInv'
  OBVIOUS
<1>1. TypeOK' /\ FreeSlotsClean'
  BY StepTyped, StepClean DEF RingInv
<1>2. ASSUME NEW gnt \in BOOLEAN, NEW ans \in SUBSET Pending, Edge(gnt, ans)
      PROVE  ErrorsAreDone' /\ WaitersMatchDevices'
  BY <1>2, EdgeErrorsDone, EdgeWaiters DEF RingInv
<1>3. ASSUME UNCHANGED <<front, back, outstanding, devQ>>
      PROVE  ErrorsAreDone' /\ WaitersMatchDevices'
  <2>1. \A d \in Device : WaitingFor(d)' = WaitingFor(d)
    BY <1>3 DEF WaitingFor, Occupancy, Waits, SlotAt
  <2> QED
    BY <1>3, <2>1 DEF RingInv, ErrorsAreDone, WaitersMatchDevices
<1>4. ASSUME NEW h \in Host, NEW r \in Request, RaiseRequest(h, r)
      PROVE  ErrorsAreDone' /\ WaitersMatchDevices'
  BY <1>3, <1>4 DEF RaiseRequest
<1>5. CASE UNCHANGED vars
  <2>1. UNCHANGED <<front, back, outstanding, devQ>>
    BY <1>5 DEF vars
  <2> QED BY <1>1, <1>3, <2>1 DEF RingInv
<1> QED BY <1>1, <1>2, <1>4, <1>5 DEF Next, ClockEdge, RingInv

\* The ring and the devices agree: typed slots, the free ones clean, errors answered
\* at once, and as many slots waiting for a device as it has answers to give.
THEOREM RingInvariant == Spec => []RingInv
BY InitRing, StepRing, PTL DEF Spec

\* Nothing the ring waits for is lost or invented: a device always has as many
\* answers to give as slots wait for it, so that the order of its answers alone
\* tells the bus which slot each is for (bus.sv:124-135).
THEOREM WaitersAlwaysMatch == Spec => []WaitersMatchDevices
BY RingInvariant, PTL DEF RingInv

-----------------------------------------------------------------------------
(* The responses owed, before and after an edge.                           *)

\* The owed response of a place, in terms of the places ahead of it.
LEMMA OwedCases ==
    ASSUME NEW k, NEW e, e = outstanding[SlotAt(k)]
    PROVE  /\ e.done => OwedAt(k) = Delivered(e.host, e)
           /\ ~e.done => OwedAt(k) =
                Delivered(e.host,
                    Answer(e.device, devQ[e.device][Cardinality(Ahead(e.device, k)) + 1]))
BY DEF OwedAt, Ahead

\* A place that is still occupied is owed the same response after an edge,
\* whether it has its answer, takes it now or has one place fewer ahead of it.
LEMMA OwedKept ==
    ASSUME RingInv, NEW gnt, NEW ans \in SUBSET Pending, Edge(gnt, ans),
           NEW r \in 0 .. 1, r = Shift, NEW j \in r .. Occupancy - 1
    PROVE  OwedAt(j - r)' = OwedAt(j)
<1> USE DEF RingInv
<1>1. PICK n, e : n = Occupancy /\ e = outstanding[SlotAt(j)]
  OBVIOUS
<1>2. PICK e2 : e2 = outstanding[SlotAt(j - r)]'
  OBVIOUS
<1>3. n \in Nat /\ j \in 0 .. n - 1 /\ j \in r .. n /\ SlotAt(j) \in Slot
  BY <1>1, Places DEF TypeOK
<1>4. e \in Entry /\ (e.err => e.done)
  BY <1>1, <1>3 DEF TypeOK, ErrorsAreDone
<1>5. /\ ~Takes(ans, j) => e2 = e
      /\ Takes(ans, j) => e2 = Filled(e)
  BY <1>1, <1>2, OldEntry
<1>6. /\ e2.done => OwedAt(j - r)' = Delivered(e2.host, e2)
      /\ ~e2.done => OwedAt(j - r)' =
            Delivered(e2.host, Answer(e2.device,
                devQ'[e2.device][Cardinality(Ahead(e2.device, j - r)') + 1]))
  BY <1>2 DEF OwedAt, Ahead
<1>7. CASE e.done
  <2>1. ~Takes(ans, j)
    BY <1>1, <1>7 DEF Takes, Waits
  <2> QED BY <1>1, <1>5, <1>6, <1>7, <2>1, OwedCases
<1>8. CASE ~e.done
  <2>1. PICK d : d = e.device
    OBVIOUS
  <2>2. d \in Device /\ j \in WaitingFor(d)
    BY <1>1, <1>3, <1>4, <1>8, <2>1 DEF Entry, WaitingFor, Waits
  <2>3. OwedAt(j) = Delivered(e.host, Answer(d, devQ[d][Cardinality(Ahead(d, j)) + 1]))
    BY <1>1, <1>8, <2>1, OwedCases
  <2>4. CASE Takes(ans, j)
    <3>1. d \in ans /\ j \in Taken(ans, d)
      BY <1>1, <2>1, <2>2, <2>4 DEF Takes, Taken
    <3>2. \A k \in WaitingFor(d) : j <= k
      BY <2>2, <3>1, TakenIsOldest
    <3>3. Ahead(d, j) = {}
      BY <1>3, <2>2, <3>2, WaitersFinite DEF Ahead
    <3>4. Cardinality(Ahead(d, j)) + 1 = 1
      BY <3>3, FS_EmptySet
    <3>5. devQ[d][1] = Head(devQ[d])
      BY <2>2, <3>1 DEF Pending, TypeOK
    <3>6. OwedAt(j) = Delivered(e.host, Answer(d, Head(devQ[d])))
      BY <2>3, <3>4, <3>5
    <3>7. LET a == Answer(d, Head(devQ[d]))
          IN  e2.done /\ e2.host = e.host /\ e2.rdata = a.rdata /\ e2.err = a.err
      BY <1>4, <1>5, <2>1, <2>4, FilledEntry
    <3> QED BY <1>6, <3>6, <3>7 DEF Delivered
  <2>5. CASE ~Takes(ans, j)
    <3>1. e2 = e
      BY <1>5, <2>5
    <3>2. j \in WaitingFor(d) \ Taken(ans, d)
      BY <2>2, <2>5 DEF Taken
    <3>3. /\ Cardinality(Ahead(d, j)) \in Nat /\ IsFiniteSet(Ahead(d, j - r)')
          /\ Cardinality(Ahead(d, j - r)') = Cardinality(Ahead(d, j)) - Leaving(ans, d)
      BY <1>1, <1>3, <2>2, <3>2, WaitersInFront
    <3>4. Cardinality(Ahead(d, j - r)') \in Nat
      BY <3>3, FS_CardinalityType
    <3>5. Cardinality(Ahead(d, j)) < Len(devQ[d])
      <4>1. /\ IsFiniteSet(WaitingFor(d)) /\ Cardinality(WaitingFor(d)) = Len(devQ[d])
            /\ Cardinality(WaitingFor(d)) \in Nat
        BY <2>2, WaitersFinite, FS_CardinalityType DEF WaitersMatchDevices
      <4>2. Ahead(d, j) \in SUBSET WaitingFor(d) /\ j \notin Ahead(d, j)
        BY <1>3 DEF Ahead
      <4>3. Ahead(d, j) # WaitingFor(d)
        BY <2>2, <4>2
      <4>4. /\ Cardinality(Ahead(d, j)) <= Cardinality(WaitingFor(d))
            /\ Cardinality(Ahead(d, j)) # Cardinality(WaitingFor(d))
        BY <4>1, <4>2, <4>3, FS_Subset
      <4> QED BY <3>3, <4>1, <4>4
    <3> DEFINE i == Cardinality(Ahead(d, j - r)') + 1
    <3>6. i \in 1 .. Staying(ans, d) /\ i + Leaving(ans, d) = Cardinality(Ahead(d, j)) + 1
      BY <2>2, <3>3, <3>4, <3>5, QueueStep DEF Staying
    <3> HIDE DEF i
    <3>7. devQ'[d][i] = devQ[d][Cardinality(Ahead(d, j)) + 1]
      BY <2>2, <3>6, QueueStep
    <3> QED BY <1>6, <1>8, <2>1, <2>3, <3>1, <3>7 DEF i
  <2> QED BY <2>4, <2>5
<1> QED BY <1>7, <1>8

\* The request that is accepted is owed the answer to it: its device grants it
\* behind all the requests it still has to answer, and as many places wait for
\* that device; a request that no device claims is owed an error at once.
LEMMA OwedNew ==
    ASSUME RingInv, NEW gnt, NEW ans \in SUBSET Pending, Edge(gnt, ans), Accepts(gnt),
           NEW r \in 0 .. 1, r = Shift, NEW n, n = Occupancy
    PROVE  OwedAt(n - r)' = Order!Owe(SelectedHost, Selected)
<1> USE DEF RingInv
<1>1. PICK e : e = outstanding[SlotAt(n - r)]'
  OBVIOUS
<1>2. n \in Nat /\ r <= n /\ SlotAt(n) = back /\ back \in Slot
  BY Places, PlacesShift DEF TypeOK
<1>3. PICK old, h, q : /\ old = outstanding[back]
                       /\ h = SelectedHost
                       /\ q = Selected
  OBVIOUS
<1>4. old \in Entry /\ ~old.done
  <2>1. back \notin Window
    <3>1. ASSUME NEW k \in 0 .. n - 1, SlotAt(k) = back PROVE FALSE
      BY <1>2, <3>1, Places DEF TypeOK
    <3> QED BY <3>1 DEF Window
  <2> QED BY <1>2, <1>3, <2>1 DEF TypeOK, FreeSlotsClean
<1>5. e = Push(back, old, TRUE)
  BY <1>1, <1>3, NewEntry
<1>6. /\ e.done => OwedAt(n - r)' = Delivered(e.host, e)
      /\ ~e.done => OwedAt(n - r)' =
            Delivered(e.host, Answer(e.device,
                devQ'[e.device][Cardinality(Ahead(e.device, n - r)') + 1]))
  BY <1>1 DEF OwedAt, Ahead
<1>7. Order!Owe(SelectedHost, Selected)
        = [host |-> h, rdata |-> AnswerTo(q).rdata, err |-> AnswerTo(q).err]
  BY <1>3 DEF Order!Owe
<1>8. q \in Request /\ q.addr \in Addr
  BY <1>3, SelectedHostRequests, DataAssumption
     DEF Accepts, Requesting, Selected, TypeOK
<1>9. CASE Mapped(q.addr)
  <2>1. PICK d : d = Decode(q.addr)
    OBVIOUS
  <2>2. d \in Device /\ AcceptedBy(d, gnt)
    BY <1>3, <1>8, <1>9, <2>1, DecodeClaims DEF AcceptedBy
  <2>3. e = [old EXCEPT !.host = h, !.device = d, !.err = FALSE]
    BY <1>3, <1>5, <1>9, <2>1 DEF Push
  <2>4. e.host = h /\ e.device = d /\ ~e.done
    BY <1>4, <2>3 DEF Entry
  <2>5. /\ IsFiniteSet(Ahead(d, n - r)')
        /\ Cardinality(Ahead(d, n - r)') = Cardinality(Ahead(d, n)) - Leaving(ans, d)
    <3>1. n \in r .. n
      BY <1>2
    <3> QED BY <2>2, <3>1, WaitersInFront
  <2>6. Ahead(d, n) = WaitingFor(d)
    BY <1>2, <2>2, WaitersFinite DEF Ahead
  <2>7. Cardinality(Ahead(d, n - r)') = Staying(ans, d)
    BY <2>2, <2>5, <2>6 DEF WaitersMatchDevices, Staying
  <2>8. devQ'[d][Cardinality(Ahead(d, n - r)') + 1] = q.tag
    BY <1>3, <2>2, <2>7, QueueStep
  <2>9. OwedAt(n - r)' = Delivered(h, Answer(d, q.tag))
    BY <1>6, <2>4, <2>8
  <2>10. /\ AnswerTo(q).err = Answer(d, q.tag).err
         /\ AnswerTo(q).rdata = IF Answer(d, q.tag).err THEN Zero ELSE Answer(d, q.tag).rdata
    BY <1>9, <2>1 DEF AnswerTo
  <2> QED BY <1>7, <2>9, <2>10 DEF Delivered
<1>10. CASE ~Mapped(q.addr)
  <2>1. e = [old EXCEPT !.host = h, !.device = 0, !.err = TRUE, !.done = TRUE]
    BY <1>3, <1>5, <1>10 DEF Push
  <2>2. e.host = h /\ e.done = TRUE /\ e.err = TRUE
    BY <1>4, <2>1 DEF Entry
  <2>3. AnswerTo(q).rdata = Zero /\ AnswerTo(q).err = TRUE
    BY <1>10 DEF AnswerTo
  <2> QED BY <1>6, <1>7, <2>2, <2>3 DEF Delivered
<1> QED BY <1>9, <1>10

-----------------------------------------------------------------------------
(* Sequences that start with what is left of another one.                  *)

\* A sequence that repeats another one from its place r + 1 on.
LEMMA SameAfterShift ==
    ASSUME NEW S, NEW s \in Seq(S), NEW t \in Seq(S), NEW r \in 0 .. 1, r <= Len(s),
           Len(t) = Len(s) - r, \A i \in 1 .. Len(t) : t[i] = s[i + r]
    PROVE  t = IF r = 1 THEN Tail(s) ELSE s
<1>1. CASE r = 1
  <2>1. s # <<>>
    BY <1>1
  <2>2. Tail(s) \in Seq(S) /\ Len(Tail(s)) = Len(s) - 1
        /\ \A i \in 1 .. Len(Tail(s)) : Tail(s)[i] = s[i + 1]
    BY <2>1, HeadTailProperties
  <2>3. t = Tail(s)
    BY <1>1, <2>2, SeqEqual
  <2> QED BY <1>1, <2>3
<1>2. CASE r = 0
  <2>1. Len(t) = Len(s) /\ \A i \in 1 .. Len(t) : t[i] = s[i]
    BY <1>2
  <2>2. t = s
    BY <2>1, SeqEqual
  <2> QED BY <1>2, <2>2
<1> QED BY <1>1, <1>2

\* The same with one element more at the end.
LEMMA AppendedAfterShift ==
    ASSUME NEW S, NEW s \in Seq(S), NEW t \in Seq(S), NEW r \in 0 .. 1, r <= Len(s),
           NEW x \in S,
           Len(t) = (Len(s) - r) + 1, \A i \in 1 .. Len(s) - r : t[i] = s[i + r],
           t[Len(t)] = x
    PROVE  t = Append(IF r = 1 THEN Tail(s) ELSE s, x)
<1> DEFINE left == IF r = 1 THEN Tail(s) ELSE s
<1>1. left \in Seq(S) /\ Len(left) = Len(s) - r
      /\ \A i \in 1 .. Len(left) : left[i] = s[i + r]
  <2>1. CASE r = 1
    <3>1. s # <<>>
      BY <2>1
    <3> QED BY <2>1, <3>1, HeadTailProperties
  <2>2. CASE r = 0
    BY <2>2
  <2> QED BY <2>1, <2>2
<1> HIDE DEF left
<1>2. Append(left, x) \in Seq(S) /\ Len(Append(left, x)) = Len(left) + 1
      /\ \A i \in 1 .. Len(left) : Append(left, x)[i] = left[i]
      /\ Append(left, x)[Len(left) + 1] = x
  BY <1>1, AppendProperties
<1>3. \A i \in 1 .. Len(t) : t[i] = Append(left, x)[i]
  BY <1>1, <1>2, LenProperties
<1>4. t = Append(left, x)
  BY <1>1, <1>2, <1>3, SeqEqual
<1> QED BY <1>4 DEF left

\* The answers that are owed are listed by place: a sequence.
LEMMA FunctionIsSequence ==
    ASSUME NEW S, NEW n \in Nat, NEW s \in [1 .. n -> S]
    PROVE  s \in Seq(S) /\ Len(s) = n
OBVIOUS

-----------------------------------------------------------------------------
(* The refinement.                                                         *)

\* What an edge makes of the sequence of owed responses: the oldest leaves if
\* the bus responds, and the answer to the accepted request joins at the end.
LEMMA OwedStep ==
    ASSUME RingInv, NEW gnt, NEW ans \in SUBSET Pending, Edge(gnt, ans),
           NEW left, left = (IF Responds THEN Tail(OwedResponses) ELSE OwedResponses)
    PROVE  /\ Responds => OwedResponses # <<>> /\ Head(OwedResponses) = OwedAt(0)
           /\ Len(OwedResponses) = Occupancy
           /\ ~Accepts(gnt) => OwedResponses' = left
           /\ Accepts(gnt) => OwedResponses' = Append(left, Order!Owe(SelectedHost, Selected))
<1>1. PICK r \in 0 .. 1 : r = Shift
  BY DEF Shift
<1>2. PICK n, m, s, t : /\ n = Occupancy /\ m = Occupancy'
                        /\ s = OwedResponses /\ t = OwedResponses'
  OBVIOUS
<1>3. /\ n \in Nat /\ r <= n /\ m \in Nat
      /\ m = (n - r) + (IF Accepts(gnt) THEN 1 ELSE 0)
  <2>1. /\ n \in Nat /\ r <= n /\ m = (n - r) + (IF Accepts(gnt) THEN 1 ELSE 0)
    BY <1>1, <1>2, Places, PlacesShift DEF RingInv, TypeOK
  <2> QED BY <2>1
<1>4. /\ s = [i \in 1 .. n |-> OwedAt(i - 1)]
      /\ t = [i \in 1 .. m |-> OwedAt(i - 1)']
  BY <1>2 DEF OwedResponses
<1> DEFINE S == {s[i] : i \in 1 .. n} \cup {t[i] : i \in 1 .. m}
<1>5. /\ s \in [1 .. n -> S]
      /\ t \in [1 .. m -> S]
  BY <1>4
<1> HIDE DEF S
<1>6. s \in Seq(S) /\ Len(s) = n /\ t \in Seq(S) /\ Len(t) = m
  BY <1>3, <1>5, FunctionIsSequence
<1>7. ASSUME NEW i \in 1 .. n - r PROVE t[i] = s[i + r]
  <2>1. PICK j \in r .. n - 1 : j = i - 1 + r /\ j - r = i - 1
    <3>1. i - 1 + r \in r .. n - 1 /\ (i - 1 + r) - r = i - 1
      BY <1>3
    <3> QED BY <3>1
  <2>2. OwedAt(j - r)' = OwedAt(j)
    BY <1>1, <1>2, OwedKept
  <2>3. t[i] = OwedAt(i - 1)'
    BY <1>3, <1>4
  <2>4. s[i + r] = OwedAt(j)
    <3>1. i + r \in 1 .. n /\ (i + r) - 1 = j
      BY <1>3, <2>1
    <3> QED BY <1>4, <3>1
  <2>5. OwedAt(i - 1)' = OwedAt(j - r)'
    BY <2>1
  <2> QED BY <2>2, <2>3, <2>4, <2>5
<1>8. left = IF r = 1 THEN Tail(s) ELSE s
  BY <1>1, <1>2 DEF Shift
<1>9. Responds => s # <<>> /\ Head(s) = OwedAt(0)
  <2> SUFFICES ASSUME Responds PROVE s # <<>> /\ Head(s) = OwedAt(0)
    OBVIOUS
  <2>1. n >= 1
    BY <1>1, <1>3 DEF Shift
  <2>2. s # <<>> /\ Head(s) = s[1]
    BY <1>3, <1>6, <2>1
  <2>3. s[1] = OwedAt(1 - 1)
    BY <1>3, <1>4, <2>1
  <2>4. 1 - 1 = 0
    OBVIOUS
  <2> QED BY <2>2, <2>3, <2>4
<1>10. ASSUME ~Accepts(gnt) PROVE t = left
  <2>1. Len(t) = Len(s) - r /\ r <= Len(s)
    BY <1>3, <1>6, <1>10
  <2>2. \A i \in 1 .. Len(t) : t[i] = s[i + r]
    BY <1>3, <1>6, <1>7, <1>10
  <2> QED BY <1>6, <1>8, <2>1, <2>2, SameAfterShift
<1>11. ASSUME Accepts(gnt) PROVE t = Append(left, Order!Owe(SelectedHost, Selected))
  <2>1. PICK x : x = Order!Owe(SelectedHost, Selected)
    OBVIOUS
  <2>2. m = (n - r) + 1
    BY <1>3, <1>11
  <2>3. t[m] = x /\ x \in S
    <3>1. OwedAt(n - r)' = x
      BY <1>1, <1>2, <1>11, <2>1, OwedNew
    <3>2. t[m] = OwedAt(m - 1)' /\ m \in 1 .. m
      BY <1>3, <1>4, <2>2
    <3>3. m - 1 = n - r
      BY <1>3, <2>2
    <3>4. OwedAt(m - 1)' = OwedAt(n - r)'
      BY <3>3
    <3> QED BY <1>5, <3>1, <3>2, <3>4
  <2>4. Len(t) = (Len(s) - r) + 1 /\ r <= Len(s) /\ t[Len(t)] = x
    BY <1>3, <1>6, <2>2, <2>3
  <2>5. \A i \in 1 .. Len(s) - r : t[i] = s[i + r]
    BY <1>6, <1>7
  <2>6. t = Append(IF r = 1 THEN Tail(s) ELSE s, x)
    BY <1>6, <2>3, <2>4, <2>5, AppendedAfterShift
  <2> QED BY <1>8, <2>1, <2>6
<1> QED BY <1>2, <1>6, <1>9, <1>10, <1>11

\* One clock edge of the bus is one tick of the promise.
LEMMA EdgeIsTick ==
    ASSUME RingInv, NEW gnt \in BOOLEAN, NEW ans \in SUBSET Pending, Edge(gnt, ans)
    PROVE  Order!Tick
<1>1. PICK left : left = (IF Responds THEN Tail(OwedResponses) ELSE OwedResponses)
  OBVIOUS
<1>2. /\ Responds => OwedResponses # <<>> /\ Head(OwedResponses) = OwedAt(0)
      /\ Len(OwedResponses) = Occupancy
      /\ ~Accepts(gnt) => OwedResponses' = left
      /\ Accepts(gnt) => OwedResponses' = Append(left, Order!Owe(SelectedHost, Selected))
  BY <1>1, OwedStep
<1>3. rsp' = Response
  BY DEF Edge
<1>4. Order!Deliver(left)
  <2>1. CASE Responds
    <3>1. SlotAt(0) = front /\ outstanding[front].done
      BY <2>1, Places DEF RingInv, TypeOK, Responds
    <3>2. OwedAt(0) = Delivered(outstanding[front].host, outstanding[front])
      BY <3>1, OwedCases
    <3>3. Response = OwedAt(0)
      BY <2>1, <3>2 DEF Response, Delivered
    <3> QED BY <1>1, <1>2, <1>3, <2>1, <3>3 DEF Order!Deliver
  <2>2. CASE ~Responds
    BY <1>1, <1>3, <2>2 DEF Response, Order!Deliver
  <2> QED BY <2>1, <2>2
<1>5. Order!Accept(left)
  <2>1. hostReq \in [Host -> Request \cup {None}]
    BY DEF RingInv, TypeOK
  <2>2. CASE ~Accepts(gnt)
    <3>1. hostReq' = hostReq
      BY <2>1, <2>2 DEF Edge
    <3> QED BY <1>2, <2>2, <3>1 DEF Order!Accept
  <2>3. CASE Accepts(gnt)
    <3>1. SelectedHost \in Host /\ hostReq[SelectedHost] # None
      BY <2>3, SelectedHostRequests DEF Accepts, Requesting
    <3>2. hostReq' = [hostReq EXCEPT ![SelectedHost] = None]
      BY <2>1, <2>3, <3>1 DEF Edge
    <3>3. Len(OwedResponses) < BufferMax - 1
      BY <1>2, <2>3, Places, CountsAssumption DEF Accepts, RingInv, TypeOK
    <3> QED
      BY <1>2, <2>3, <3>1, <3>2, <3>3 DEF Order!Accept, Selected
  <2> QED BY <2>2, <2>3
<1>6. left \in {OwedResponses} \cup (IF OwedResponses = <<>> THEN {} ELSE {Tail(OwedResponses)})
  BY <1>1, <1>2
<1> QED BY <1>4, <1>5, <1>6 DEF Order!Tick

\* At reset nothing is owed.
LEMMA InitOrder == Init => Order!Init
<1> SUFFICES ASSUME Init PROVE Order!Init
  OBVIOUS
<1>1. Occupancy = 0
  BY DEF Init, Occupancy, Minus
<1>2. OwedResponses = <<>>
  BY <1>1 DEF OwedResponses
<1> QED BY <1>2 DEF Init, Order!Init

\* Every step of the bus is a step of the specification it promises: a request of a
\* host, a tick of the clock, or nothing.
LEMMA StepOrder == RingInv /\ [Next]_vars => [Order!Next]_(Order!vars)
<1> SUFFICES ASSUME RingInv, [Next]_vars PROVE [Order!Next]_(Order!vars)
  OBVIOUS
<1>1. ASSUME UNCHANGED <<front, back, outstanding, devQ>>
      PROVE  OwedResponses' = OwedResponses
  BY <1>1 DEF OwedResponses, OwedAt, WaitingFor, Waits, Occupancy, SlotAt
<1>2. ASSUME NEW h \in Host, NEW q \in Request, RaiseRequest(h, q) PROVE Order!Next
  <2>1. OwedResponses' = OwedResponses
    BY <1>1, <1>2 DEF RaiseRequest
  <2> QED BY <1>2, <2>1 DEF RaiseRequest, Order!Next, Order!Raise
<1>3. ASSUME NEW gnt \in BOOLEAN, NEW ans \in SUBSET Pending, Edge(gnt, ans)
      PROVE  Order!Next
  BY <1>3, EdgeIsTick DEF Order!Next
<1>4. CASE UNCHANGED vars
  <2>1. UNCHANGED <<front, back, outstanding, devQ>>
    BY <1>4 DEF vars
  <2>2. OwedResponses' = OwedResponses
    BY <1>1, <2>1
  <2> QED BY <1>4, <2>2 DEF vars, Order!vars
<1> QED BY <1>2, <1>3, <1>4 DEF Next, ClockEdge

\* The bus (bus.sv:83-147) implements its promise: every host gets the answer
\* to each accepted request once, from the device its address selects, in the
\* order in which the bus accepted the requests.
THEOREM BusKeepsOrder == Spec => ResponsesInOrder
<1>1. Init => Order!Init
  BY InitOrder
<1>2. RingInv /\ [Next]_vars => [Order!Next]_(Order!vars)
  BY StepOrder
<1> QED BY <1>1, <1>2, RingInvariant, PTL DEF Spec, ResponsesInOrder, Order!Spec
=============================================================================
