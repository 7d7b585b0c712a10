----------------------------- MODULE ObjectReads -----------------------------
(***************************************************************************)
(* What a reader of Git objects promises, whatever carries the answers: it *)
(* is asked for objects in order, tells of each one in that order and of   *)
(* itself, and a comparison of many ends with a verdict that follows from  *)
(* them.  The wire may lose its last questions, and then nothing asked     *)
(* later is answered from it.                                              *)
(***************************************************************************)
EXTENDS Integers, Sequences

CONSTANTS
    Batches,  \* sequences of objects somebody may ask for
    Truth(_), \* object -> what a read of it alone tells
    None

VARIABLES
    objects,     \* the objects of this batch
    outstanding, \* positions asked for and not yet told, in order
    lost,        \* the wire is down
    told,        \* what was told of the first objects
    verdict      \* None, or the end: "clean", "dirty", "apart" or "end"

vars == <<objects, outstanding, lost, told, verdict>>

Init == /\ objects \in Batches
        /\ outstanding = <<>> /\ lost = FALSE /\ told = <<>> /\ verdict = None

Next1 == Len(told) + Len(outstanding) + 1

Ask == /\ verdict = None /\ ~lost /\ Next1 <= Len(objects)
       /\ outstanding' = Append(outstanding, Next1)
       /\ UNCHANGED <<objects, lost, told, verdict>>

\* The oldest question is answered, from the object it named.
Tell == /\ verdict = None /\ outstanding # <<>>
        /\ told' = Append(told, Truth(objects[Head(outstanding)]))
        /\ outstanding' = Tail(outstanding)
        /\ UNCHANGED <<objects, lost, verdict>>

\* A read that gives the wire up: by itself, or not within its limits.
TellApart == /\ verdict = None /\ Len(told) < Len(objects)
             /\ \E a \in {Truth(objects[Len(told) + 1]), "limit"} :
                    told' = Append(told, a)
             /\ outstanding' = <<>> /\ lost' \in BOOLEAN
             /\ UNCHANGED <<objects, verdict>>

\* The wire is down, and any number of the last questions is lost with it.
Lose == /\ lost' = TRUE
        /\ \E n \in 0..Len(outstanding) : outstanding' = SubSeq(outstanding, 1, n)
        /\ UNCHANGED <<objects, told, verdict>>

\* A comparison is clean when every object was found the same, dirty only
\* when one is not, and may always be left to reads of one object at a time.
Conclude == /\ verdict = None
            /\ \/ verdict' = "clean" /\ told = [i \in DOMAIN objects |-> "same"]
               \/ verdict' = "dirty" /\ \E i \in DOMAIN objects : Truth(objects[i]) # "same"
               \/ verdict' = "apart"
               \/ verdict' = "end" /\ Len(told) = Len(objects)
            /\ outstanding' = <<>> /\ lost' \in BOOLEAN
            /\ UNCHANGED <<objects, told>>

Renew == lost /\ lost' = FALSE /\ outstanding = <<>>
         /\ UNCHANGED <<objects, outstanding, told, verdict>>

Next == Ask \/ Tell \/ TellApart \/ Lose \/ Conclude \/ Renew

Spec == Init /\ [][Next]_vars
=============================================================================
