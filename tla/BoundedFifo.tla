----------------------------- MODULE BoundedFifo -----------------------------
(***************************************************************************)
(* What one core-to-core link promises: a FIFO of `depth` slots.  A put     *)
(* takes a free slot, the gets take the payloads in order, and a payload    *)
(* keeps its slot until the consumer comes back for the next one.           *)
(***************************************************************************)
EXTENDS Integers

CONSTANT N        \* payloads the link carries

VARIABLES depth,  \* slots of the FIFO
          put,    \* payloads put so far
          taken,  \* payloads taken so far
          freed   \* slots given back so far

fvars == <<depth, put, taken, freed>>

Init ==
  /\ depth \in 1 .. N + 1
  /\ put = 0 /\ taken = 0 /\ freed = 0

Put  == /\ put < N
        /\ put - freed < depth
        /\ put' = put + 1
        /\ UNCHANGED <<depth, taken, freed>>

\* A payload is taken after every earlier one has been given back.
Take == /\ taken < put
        /\ taken = freed
        /\ taken' = taken + 1
        /\ UNCHANGED <<depth, put, freed>>

Free == /\ freed < taken
        /\ taken < N
        /\ freed' = freed + 1
        /\ UNCHANGED <<depth, put, taken>>

Next == Put \/ Take \/ Free

Fairness == WF_fvars(Put) /\ WF_fvars(Take) /\ WF_fvars(Free)

Spec == Init /\ [][Next]_fvars /\ Fairness
=============================================================================
