--------------------------- MODULE DisbursementMoney ---------------------------
(***************************************************************************)
(* What a loan disbursement promises about money, whatever happens to the  *)
(* service: the funds of each disbursement go through one line of steps.   *)
(* They are authorised, then booked as a receivable, then handed to the    *)
(* payment rail, which pays or refuses them at once or later; the booking  *)
(* is unwound only after a refusal, and nothing is ever done twice or      *)
(* skipped.  Module Disbursement implements it.                            *)
(***************************************************************************)
CONSTANT Keys   \* the disbursements

VARIABLE funds  \* where the money of each disbursement stands

Stages == {"untouched", "authorised", "booked", "sent", "paid", "refused", "unwound"}

TypeOK == funds \in [Keys -> Stages]

Init == funds = [k \in Keys |-> "untouched"]

Move(k, from, to) == funds[k] = from /\ funds' = [funds EXCEPT ![k] = to]

Authorise(k) == Move(k, "untouched", "authorised")
Book(k)      == Move(k, "authorised", "booked")
HandOver(k)  == \E outcome \in {"sent", "paid", "refused"} : Move(k, "booked", outcome)
Clear(k)     == \E outcome \in {"paid", "refused"} : Move(k, "sent", outcome)
Unwind(k)    == Move(k, "refused", "unwound")

Next == \E k \in Keys : Authorise(k) \/ Book(k) \/ HandOver(k) \/ Clear(k) \/ Unwind(k)

Spec == Init /\ [][Next]_funds
================================================================================
