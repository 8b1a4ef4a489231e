---------------------------- MODULE LossyStream ----------------------------
(***************************************************************************)
(* What a source promises to the router, whatever its threads and buffers: *)
(* the samples of the device come out in order, each at most once, in      *)
(* batches that leave none behind; a sample is lost on the way in only     *)
(* while a whole buffer of them is under way, and on the way out only      *)
(* after the router has left.  Module Capture implements it.               *)
(***************************************************************************)
EXTENDS Integers, Sequences, FiniteSets

CONSTANTS
  Amounts,  \* how many samples the device may supply in one step
  Capacity  \* how many samples are under way before any may be lost

VARIABLES
  supplied,   \* samples supplied so far; a sample is named by its number
  transit,    \* the set of samples under way
  delivered,  \* the batches delivered, each a sequence of samples
  open        \* whether the receiver is there

vars == <<supplied, transit, delivered, open>>

Init == supplied = 0 /\ transit = {} /\ delivered = <<>> /\ open = TRUE

-----------------------------------------------------------------------------
\* The numbers of S as an ascending sequence.
InOrder(S) == [i \in 1 .. Cardinality(S) |-> CHOOSE x \in S : Cardinality({y \in S : y < x}) = i - 1]

\* The oldest samples under way.
Before(n) == {x \in transit : x < n}

\* The first of the samples supplied are taken; if not all, the buffer is full.
Supply(n) ==
  /\ supplied' = supplied + n
  /\ \E fit \in 0 .. n :
       /\ transit' = transit \cup (supplied .. supplied + fit - 1)
       /\ fit < n => Cardinality(transit') >= Capacity
  /\ UNCHANGED <<delivered, open>>

\* The oldest samples, up to some number, come out in one batch.
Deliver(n) ==
  /\ open /\ Before(n) # {}
  /\ delivered' = Append(delivered, InOrder(Before(n)))
  /\ transit' = transit \ Before(n)
  /\ UNCHANGED <<supplied, open>>

\* The receiver leaves; from then on the oldest samples may be thrown away.
Close == open /\ open' = FALSE /\ UNCHANGED <<supplied, transit, delivered>>

Discard(n) ==
  /\ ~open /\ Before(n) # {}
  /\ transit' = transit \ Before(n)
  /\ UNCHANGED <<supplied, delivered, open>>

Next ==
  \/ \E n \in Amounts : Supply(n)
  \/ \E n \in 1 .. supplied : Deliver(n) \/ Discard(n)
  \/ Close

Spec == Init /\ [][Next]_vars
=============================================================================
