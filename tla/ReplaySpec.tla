------------------------------ MODULE ReplaySpec ------------------------------
(***************************************************************************)
(* What a receive window promises, stated over the plain set of sequence   *)
(* numbers accepted so far: a number above every accepted one is accepted, *)
(* a number at least WindowSize below the highest is too old, and a number *)
(* in between is accepted exactly once.  The unit test                     *)
(* "agrees_with_a_set_model_across_reordering_wraps_and_jumps" of          *)
(* crypto/src/replay.rs compares the bitmap with the same reference.       *)
(***************************************************************************)
EXTENDS Integers

CONSTANTS
    WindowSize,      \* how many numbers, the highest included, stay acceptable
    Sequence         \* the sequence numbers a datagram header can carry

VARIABLES
    highest,         \* the highest accepted number, or None
    accepted,        \* every number accepted so far
    verdict          \* the result of the last call of decrypt_into

vars == <<highest, accepted, verdict>>

None == -1

Judge(s) ==
    IF highest = None \/ s > highest THEN "Ok"
    ELSE IF highest - s >= WindowSize THEN "TooOld"
    ELSE IF s \in accepted THEN "Duplicate"
    ELSE "Ok"

Init ==
    /\ highest = None
    /\ accepted = {}
    /\ verdict = "None"

Accept(s) ==
    /\ Judge(s) = "Ok"
    /\ verdict' = "Ok"
    /\ accepted' = accepted \cup {s}
    /\ highest' = IF highest = None \/ s > highest THEN s ELSE highest

\* A datagram whose number is acceptable but whose tag is not authentic.
Unauthentic(s) ==
    /\ Judge(s) = "Ok"
    /\ verdict' = "Unauthentic"
    /\ UNCHANGED <<highest, accepted>>

Refuse(s) ==
    /\ Judge(s) # "Ok"
    /\ verdict' = Judge(s)
    /\ UNCHANGED <<highest, accepted>>

Next == \E s \in Sequence : Accept(s) \/ Unauthentic(s) \/ Refuse(s)

Spec == Init /\ [][Next]_vars
===============================================================================
