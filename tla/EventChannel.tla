----------------------------- MODULE EventChannel -----------------------------
(***************************************************************************)
(* What the path of keyboard and mouse events from the user interface to   *)
(* the guest promises (cudaEventHandler to the end of a packet): a channel *)
(* that may lose any event on its way, but that neither reorders events    *)
(* nor duplicates or invents one.  Events are numbered as they are posted. *)
(***************************************************************************)
EXTENDS Integers, Sequences

CONSTANT MaxEvents      \* bound: events the user causes

VARIABLES
    posted,             \* the number of events so far
    transit,            \* the events on their way
    received            \* the events the guest has got, in this order

vars == <<posted, transit, received>>

Post ==
    /\ posted < MaxEvents
    /\ posted' = posted + 1
    /\ transit' = transit \cup {posted + 1}
    /\ UNCHANGED received

Lose(n) ==
    /\ n \in transit
    /\ transit' = transit \ {n}
    /\ UNCHANGED <<posted, received>>

Receive(n) ==
    /\ n \in transit
    /\ \A k \in transit : n <= k
    /\ transit' = transit \ {n}
    /\ received' = Append(received, n)
    /\ UNCHANGED posted

Init == posted = 0 /\ transit = {} /\ received = <<>>

Next == Post \/ \E n \in 1 .. MaxEvents : Lose(n) \/ Receive(n)

Spec == Init /\ [][Next]_vars

-----------------------------------------------------------------------------
(***************************************************************************)
(* The guest sees events in the order the user caused them, none twice and *)
(* none that the user did not cause.                                       *)
(***************************************************************************)
InOrder ==
    /\ \A i \in 1 .. Len(received) : received[i] \in 1 .. posted
    /\ \A i, j \in 1 .. Len(received) : i < j => received[i] < received[j]
=============================================================================
