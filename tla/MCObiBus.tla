------------------------------ MODULE MCObiBus ------------------------------
(***************************************************************************)
(* Instances of ObiBus for TLC.  Address a0 selects device 0, a1 device 1, *)
(* aBoth matches both windows (the higher device wins) and aNone neither.  *)
(* Device 0 gets requests that differ, one of them answered with an error  *)
(* if ErrTag says so: an exchange of two answers shows.                    *)
(***************************************************************************)
EXTENDS ObiBus, TLC

CONSTANTS a0, a1, aBoth, aNone, t1, t2

MCAddr == {a0, a1, aBoth, aNone}
MCClaims == a0 :> {0} @@ a1 :> {1} @@ aBoth :> {0, 1} @@ aNone :> {}

To(a, t) == [addr |-> a, tag |-> t]

MCRequest == {To(a0, t1), To(a0, t2), To(aBoth, t1), To(aNone, t1)}
MCMappedRequest == {To(a0, t1), To(a1, t1)}

\* Two states that differ only in what nobody reads again are one to TLC: the
\* host, device and data of a free slot, the data of a slot that waits and of
\* one that answers with an error.
LiveData ==
    <<front, back, hostReq, devQ, rsp,
      [s \in Slot |->
        LET e == outstanding[s]
        IN  IF s \notin Window THEN <<e.done, e.err>>
            ELSE IF e.done /\ ~e.err THEN e ELSE [e EXCEPT !.rdata = Zero]]>>
=============================================================================
