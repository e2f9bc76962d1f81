---------------------------- MODULE WrittenOffDebt ----------------------------
(***************************************************************************)
(* What writing a loan off promises, whatever calls overlap, die or are    *)
(* repeated: the loan's debt is written off once, with every component of  *)
(* it, and what is collected on it afterwards never exceeds what was       *)
(* written off of any component.  Module WriteOff implements it.           *)
(***************************************************************************)
EXTENDS Naturals

CONSTANTS
    Components, \* components of a debt
    Limit       \* what may be written off of one at most

VARIABLES
    written,    \* what was written off of each component
    isWritten,  \* the loan has been written off
    recovered   \* what has been collected of each since

vars == <<written, isWritten, recovered>>

Nothing == [c \in Components |-> 0]

Init == written = Nothing /\ isWritten = FALSE /\ recovered = Nothing

WriteDown ==
    /\ ~isWritten /\ isWritten' = TRUE
    /\ written' \in [Components -> 0..Limit]
    /\ \E c \in Components : written'[c] > 0
    /\ UNCHANGED recovered

Collect ==
    /\ isWritten
    /\ recovered' \in [Components -> 0..Limit]
    /\ \A c \in Components : recovered[c] <= recovered'[c] /\ recovered'[c] <= written[c]
    /\ UNCHANGED <<written, isWritten>>

Next == WriteDown \/ Collect

Spec == Init /\ [][Next]_vars
===============================================================================
