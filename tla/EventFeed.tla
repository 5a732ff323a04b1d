------------------------------ MODULE EventFeed ------------------------------
(***************************************************************************)
(* What the log of device events promises to the consoles that collect it: *)
(* no event twice, none before an older one, and every event unless one    *)
(* has been missed.  An abstract specification, which DeviceLog implements *)
(* while requests are served one at a time.                                *)
(***************************************************************************)
EXTENDS Naturals, Sequences

VARIABLES
    posted,     \* events so far: they are numbered as they are posted
    pending,    \* the events nobody has collected, in order
    delivered,  \* those collected, in order
    missed      \* an event has been lost, or will be

vars == <<posted, pending, delivered, missed>>

Init == /\ posted    = 0
        /\ pending   = << >>
        /\ delivered = << >>
        /\ missed    = FALSE

First(n) == SubSeq(pending, 1, n)
From(n)  == SubSeq(pending, n, Len(pending))

Post == /\ posted'  = posted + 1
        /\ pending' = Append(pending, posted')
        /\ missed'  \in {missed, TRUE}
        /\ UNCHANGED delivered

\* A collector gets the first n of m pending events; the others are lost.
Collect == \E m \in 1..Len(pending) : \E n \in 0..m :
               /\ delivered' = delivered \o First(n)
               /\ pending'   = From(m + 1)
               /\ missed'    = (missed \/ n < m)
               /\ UNCHANGED posted

\* The events after the first n are lost.
Lose == /\ missed
        /\ \E n \in 0..Len(pending) : pending' = First(n)
        /\ UNCHANGED <<posted, delivered, missed>>

Next == Post \/ Collect \/ Lose

Spec == Init /\ [][Next]_vars
------------------------------------------------------------------------------
TypeOK == /\ posted    \in Nat
          /\ pending   \in Seq(Nat)
          /\ delivered \in Seq(Nat)
          /\ missed    \in BOOLEAN

Accounted == delivered \o pending

\* What --getudev hands out is in the order of the log, each event at most once;
\* and while nothing is missed every event is delivered or pending.
Promise == /\ \A i, j \in 1..Len(Accounted) : i < j => Accounted[i] < Accounted[j]
           /\ ~missed => /\ Len(Accounted) = posted
                         /\ \A i \in 1..posted : Accounted[i] = i
==============================================================================
