------------------------------ MODULE MCProduct ------------------------------
(***************************************************************************)
(* An instance of Product for TLC.  Attempts are alike, the second begins  *)
(* while the first is busy; versions are created under keys of their own,  *)
(* in order, and publications asked for under the others, where p3 is the  *)
(* key of one approval only.                                               *)
(***************************************************************************)
EXTENDS Product, TLC

CONSTANTS a1, a2, a3, a4, c1, c2, k1, k2, k3, p1, p2, p3

MCVersionOf == (a1 :> 1) @@ (a2 :> 2) @@ (a3 :> 3) @@ (a4 :> 2)
Created(k)  == \E v \in DOMAIN versions : versions[v].key = k
Begins(c)   == c = c2 => ~At(c1, "idle")

MCNext ==
    \/ CreateProduct
    \/ \E c \in Attempts : Step(c) \/ Abort(c)
    \/ \E c \in Attempts, k \in {k1, k2, k3} :
          /\ Begins(c) /\ (k = k2 => Created(k1)) /\ (k = k3 => Created(k2))
          /\ CreateVersion(c, k)
    \/ \E c \in Attempts, v \in Numbers, a \in Approvals, k \in {p1, p2, p3} :
          /\ Begins(c) /\ (k = p3 => a = a3) /\ (v # VersionOf[a] => k = p1)
          /\ Publish(c, v, a, k)

MCSpec ==
    /\ ProductInit /\ [][MCNext]_productVars
    /\ \A c \in Attempts : WF_productVars(Step(c))
    /\ \A a \in Approvals : SF_productVars(Resend(a))
===============================================================================
