-------------------------- MODULE DisbursementProofs --------------------------
(***************************************************************************)
(* Proofs about Disbursement, for any loans, keys and overlapping calls,   *)
(* and any number of calls that die.                                       *)
(*                                                                         *)
(* What a row or a loan says is true because of what the call that wrote   *)
(* it had seen: so the inductive invariant says, for each point a call may *)
(* be at, what has already happened outside (CallsInv), next to what rows  *)
(* and services imply of each other (RowsInv, ServicesInv).                *)
(***************************************************************************)
EXTENDS MCDisbursement, Outbox, FiniteSetTheorems, TLAPS

\* Points a call reaches only once the row is there, approved, posted.
WithRow   == Points \ {"idle", "source", "insert"}
Approved  == WithRow \ {"approve"}
Posted    == Approved \ {"recordApproval", "post"}

CallInv(c) ==
    /\ ~At(c, "idle") => Key(c) \in Keys /\ call[c].loan \in Loans
    /\ call[c].at \in WithRow => rowLoan[Key(c)] = call[c].loan
    /\ call[c].at \in Approved => Key(c) \in approved
    /\ call[c].at \in Posted => Key(c) \in posted
    /\ At(c, "finish") =>
          /\ call[c].outcome # "FAILED" /\ payout[Key(c)] # "NONE"
          /\ call[c].outcome = "SUCCEEDED" => payout[Key(c)] = "SUCCEEDED"
    /\ call[c].at \in {"reverse", "compensate"} => payout[Key(c)] = "FAILED"
    /\ At(c, "compensate") => Key(c) \in reversed

CallsInv == \A c \in Calls : CallInv(c)

RowsInv ==
    \A k \in Keys :
        /\ rowStatus[k] # "NONE" => rowLoan[k] \in Loans
        /\ rowLoan[k] # NoLoan => rowStatus[k] # "NONE"
        /\ rowStatus[k] \notin {"NONE", "APPROVAL_PENDING"} => k \in approved
        /\ rowLedgerTx[k] => k \in posted

ServicesInv ==
    \A k \in Keys :
        /\ k \in posted => k \in approved
        /\ payout[k] # "NONE" => k \in posted
        /\ k \in reversed => payout[k] = "FAILED"

LoansInv ==
    \A l \in Loans : loanStatus[l] = "DISBURSED" =>
        \E k \in Keys : rowLoan[k] = l /\ payout[k] = "SUCCEEDED"

IInv == TypeOK /\ CallsInv /\ RowsInv /\ ServicesInv /\ LoansInv /\ FinalRowsAreTrue

-----------------------------------------------------------------------------
LEMMA InitIInv == Init => IInv
<1> SUFFICES ASSUME Init PROVE IInv
  OBVIOUS
<1> USE NullAssumption, MaxAbortsAssumption
<1>1. TypeOK
  <2>1. Idle \in [at : Points, key : Keys \cup {NoKey}, loan : Loans \cup {NoLoan}, outcome : Outcomes]
    BY DEF Idle, Points, Outcomes
  <2>2. call \in [Calls -> [at : Points, key : Keys \cup {NoKey},
                             loan : Loans \cup {NoLoan}, outcome : Outcomes]]
    BY <2>1 DEF Init
  <2> QED
    BY <2>2 DEF Init, TypeOK, RowStatus
<1>2. CallsInv
  BY DEF Init, CallsInv, CallInv, Idle, At, WithRow, Approved, Posted
<1>3. RowsInv /\ ServicesInv /\ LoansInv /\ FinalRowsAreTrue
  BY DEF Init, RowsInv, ServicesInv, LoansInv, FinalRowsAreTrue
<1> QED
  BY <1>1, <1>2, <1>3 DEF IInv

\* Every step keeps the types.
LEMMA NextType == TypeOK /\ CallsInv /\ [Next]_vars => TypeOK'
<1> SUFFICES ASSUME TypeOK, CallsInv, [Next]_vars PROVE TypeOK'
  OBVIOUS
<1> USE NullAssumption, MaxAbortsAssumption DEF TypeOK, CallInv, db, services, At, GoTo, End, Key
<1>1. ASSUME NEW c \in Calls, NEW k \in Keys, NEW l \in Loans, Lookup(c, k, l) PROVE TypeOK'
  <2>1. ResumePoint(k) \in Points
    BY DEF ResumePoint, Points, RowStatus
  <2>2. PICK point \in Points :
            call' = [call EXCEPT ![c].at = point, ![c].key = k, ![c].loan = l]
    BY <1>1, <2>1 DEF Lookup, Points
  <2>3. call' \in [Calls -> [at : Points, key : Keys \cup {NoKey},
                              loan : Loans \cup {NoLoan}, outcome : Outcomes]]
    BY <2>2, ZenonT(30)
  <2> QED
    BY <1>1, <2>3 DEF Lookup
<1>2. ASSUME NEW c \in Calls, ReadSource(c) PROVE TypeOK'
  BY <1>2 DEF ReadSource, Points, Idle, Outcomes
<1>3. ASSUME NEW c \in Calls, InsertRow(c) PROVE TypeOK'
  <2>1. Key(c) \in Keys /\ call[c].loan \in Loans
    BY <1>3 DEF InsertRow, CallsInv
  <2>2. /\ rowLoan' \in [Keys -> Loans \cup {NoLoan}]
        /\ rowStatus' \in [Keys -> RowStatus]
    BY <1>3, <2>1 DEF InsertRow, RowStatus
  <2>3. call' \in [Calls -> [at : Points, key : Keys \cup {NoKey},
                              loan : Loans \cup {NoLoan}, outcome : Outcomes]]
    BY <1>3 DEF InsertRow, Points, Idle, Outcomes
  <2> QED
    BY <1>3, <2>2, <2>3 DEF InsertRow
<1>4. ASSUME NEW c \in Calls, ConsumeApproval(c) PROVE TypeOK'
  BY <1>4 DEF ConsumeApproval, Points, CallsInv
<1>5. ASSUME NEW c \in Calls, RecordApproval(c) PROVE TypeOK'
  BY <1>5 DEF RecordApproval, Points, RowStatus, CallsInv
<1>6. ASSUME NEW c \in Calls, PostLedger(c) PROVE TypeOK'
  BY <1>6 DEF PostLedger, Points, CallsInv
<1>7. ASSUME NEW c \in Calls, RecordPosting(c) PROVE TypeOK'
  <2>1. /\ rowStatus' \in [Keys -> RowStatus]
        /\ rowLedgerTx' \in [Keys -> BOOLEAN]
    BY <1>7 DEF RecordPosting, RowStatus
  <2>2. call' \in [Calls -> [at : Points, key : Keys \cup {NoKey},
                              loan : Loans \cup {NoLoan}, outcome : Outcomes]]
    BY <1>7 DEF RecordPosting, Points, Idle, Outcomes
  <2> QED
    BY <1>7, <2>1, <2>2 DEF RecordPosting
<1>8. ASSUME NEW c \in Calls, SubmitPayout(c) PROVE TypeOK'
  <2>1. PICK outcome \in IF payout[Key(c)] = "NONE" THEN Outcomes ELSE {payout[Key(c)]} :
            /\ payout' = [payout EXCEPT ![Key(c)] = outcome]
            /\ call' = [call EXCEPT ![c].at = AfterAnswer(outcome), ![c].outcome = outcome]
    BY <1>8 DEF SubmitPayout
  <2>2. Key(c) \in Keys
    BY <1>8 DEF SubmitPayout, CallsInv
  <2>3. outcome \in Outcomes /\ AfterAnswer(outcome) \in Points
    <3>1. payout[Key(c)] \in Outcomes \cup {"NONE"}
      BY <2>2
    <3>2. outcome \in Outcomes
      BY <2>1, <3>1
    <3> QED
      BY <3>2 DEF AfterAnswer, Points
  <2>4. payout' \in [Keys -> Outcomes \cup {"NONE"}]
    BY <2>1, <2>3
  <2>5. call' \in [Calls -> [at : Points, key : Keys \cup {NoKey},
                              loan : Loans \cup {NoLoan}, outcome : Outcomes]]
    BY <2>1, <2>3, ZenonT(30)
  <2> QED
    BY <1>8, <2>4, <2>5 DEF SubmitPayout
<1>9. ASSUME NEW c \in Calls, Finish(c) PROVE TypeOK'
  <2>1. call[c].outcome \in {"PENDING", "SUCCEEDED"}
    BY <1>9 DEF Finish, CallsInv, Outcomes
  <2>2. Key(c) \in Keys /\ call[c].loan \in Loans
    BY <1>9 DEF Finish, CallsInv
  <2>3. rowStatus' \in [Keys -> RowStatus]
    BY <1>9, <2>1 DEF Finish, RowStatus
  <2>4. loanStatus' \in [Loans -> {"APPROVED", "DISBURSED"}] /\ outbox' \subseteq Loans
    BY <1>9, <2>2 DEF Finish
  <2>5. call' \in [Calls -> [at : Points, key : Keys \cup {NoKey},
                              loan : Loans \cup {NoLoan}, outcome : Outcomes]]
    BY <1>9 DEF Finish, Points, Idle, Outcomes
  <2> QED
    BY <1>9, <2>3, <2>4, <2>5 DEF Finish
<1>10. ASSUME NEW c \in Calls, ReverseLedger(c) PROVE TypeOK'
  BY <1>10 DEF ReverseLedger, Points, CallsInv
<1>11. ASSUME NEW c \in Calls, RecordCompensation(c) PROVE TypeOK'
  BY <1>11 DEF RecordCompensation, Points, RowStatus, Idle, Outcomes
<1>12. ASSUME NEW c \in Calls, Abort(c) PROVE TypeOK'
  BY <1>12 DEF Abort, Points, Idle, Outcomes
<1>13. ASSUME NEW k \in Keys, PayoutSettles(k) PROVE TypeOK'
  BY <1>13 DEF PayoutSettles, Outcomes
<1>14. CASE UNCHANGED vars
  BY <1>14 DEF vars
<1> QED
  BY <1>1, <1>2, <1>3, <1>4, <1>5, <1>6, <1>7, <1>8, <1>9, <1>10, <1>11, <1>12, <1>13, <1>14
     DEF Next, Step

-----------------------------------------------------------------------------
(* What no step takes back. *)

Kept ==
    /\ approved \subseteq approved' /\ posted \subseteq posted' /\ reversed \subseteq reversed'
    /\ \A k \in Keys :
          /\ payout[k] # "NONE" => payout'[k] # "NONE"
          /\ payout[k] \in {"SUCCEEDED", "FAILED"} => payout'[k] = payout[k]
          /\ rowLoan[k] \in Loans => rowLoan'[k] = rowLoan[k]

LEMMA NextKept == TypeOK /\ [Next]_vars => Kept
<1> SUFFICES ASSUME TypeOK, [Next]_vars PROVE Kept
  OBVIOUS
<1> USE NullAssumption DEF Kept, TypeOK, db, services
<1>1. ASSUME NEW c \in Calls, NEW k \in Keys, NEW l \in Loans, Lookup(c, k, l) PROVE Kept
  BY <1>1 DEF Lookup
<1>2. ASSUME NEW c \in Calls, ReadSource(c) PROVE Kept
  BY <1>2 DEF ReadSource
<1>3. ASSUME NEW c \in Calls, InsertRow(c) PROVE Kept
  BY <1>3 DEF InsertRow, CanInsert
<1>4. ASSUME NEW c \in Calls, ConsumeApproval(c) PROVE Kept
  BY <1>4 DEF ConsumeApproval
<1>5. ASSUME NEW c \in Calls, RecordApproval(c) PROVE Kept
  BY <1>5 DEF RecordApproval
<1>6. ASSUME NEW c \in Calls, PostLedger(c) PROVE Kept
  BY <1>6 DEF PostLedger
<1>7. ASSUME NEW c \in Calls, RecordPosting(c) PROVE Kept
  BY <1>7 DEF RecordPosting
<1>8. ASSUME NEW c \in Calls, SubmitPayout(c) PROVE Kept
  <2>1. PICK outcome \in IF payout[Key(c)] = "NONE" THEN Outcomes ELSE {payout[Key(c)]} :
            payout' = [payout EXCEPT ![Key(c)] = outcome]
    BY <1>8 DEF SubmitPayout
  <2>2. payout[Key(c)] # "NONE" => outcome = payout[Key(c)]
    BY <2>1
  <2>3. payout[Key(c)] = "NONE" => outcome # "NONE"
    BY <2>1 DEF Outcomes
  <2> QED
    BY <1>8, <2>1, <2>2, <2>3 DEF SubmitPayout
<1>9. ASSUME NEW c \in Calls, Finish(c) PROVE Kept
  BY <1>9 DEF Finish
<1>10. ASSUME NEW c \in Calls, ReverseLedger(c) PROVE Kept
  BY <1>10 DEF ReverseLedger
<1>11. ASSUME NEW c \in Calls, RecordCompensation(c) PROVE Kept
  BY <1>11 DEF RecordCompensation
<1>12. ASSUME NEW c \in Calls, Abort(c) PROVE Kept
  BY <1>12 DEF Abort
<1>13. ASSUME NEW k \in Keys, PayoutSettles(k) PROVE Kept
  BY <1>13 DEF PayoutSettles
<1>14. CASE UNCHANGED vars
  BY <1>14 DEF vars
<1> QED
  BY <1>1, <1>2, <1>3, <1>4, <1>5, <1>6, <1>7, <1>8, <1>9, <1>10, <1>11, <1>12, <1>13, <1>14
     DEF Next, Step

\* What a call has seen stays true while others move.
LEMMA CallUntouched ==
    ASSUME Kept, NEW c \in Calls, CallInv(c), call'[c] = call[c]
    PROVE  CallInv(c)'
<1>1. /\ call'[c].at = call[c].at /\ Key(c)' = Key(c)
      /\ call'[c].loan = call[c].loan /\ call'[c].outcome = call[c].outcome
  BY DEF Key
<1>2. call[c].at \in WithRow => ~At(c, "idle")
  BY DEF WithRow, At
<1>3. Posted \subseteq Approved /\ Approved \subseteq WithRow /\ {"finish", "reverse", "compensate"} \subseteq Posted
  BY DEF Posted, Approved, WithRow, Points
<1> QED
  BY <1>1, <1>2, <1>3 DEF CallInv, Kept, At

\* A call that ends has nothing to answer for.
LEMMA CallEnded ==
    ASSUME NEW c \in Calls, call'[c] = Idle
    PROVE  CallInv(c)'
  BY DEF CallInv, Idle, At, WithRow, Approved, Posted

-----------------------------------------------------------------------------
\* Each call has seen, at the point it reaches, what that point says.
LEMMA NextCalls == IInv /\ [Next]_vars => CallsInv'
<1> SUFFICES ASSUME IInv, [Next]_vars PROVE CallsInv'
  OBVIOUS
<1>0. TypeOK /\ CallsInv /\ RowsInv /\ ServicesInv /\ Kept
  BY NextKept DEF IInv
<1>a. ASSUME NEW c \in Calls, CallInv(c)', \A d \in Calls \ {c} : call'[d] = call[d] PROVE CallsInv'
  <2> SUFFICES ASSUME NEW d \in Calls PROVE CallInv(d)'
    BY DEF CallsInv
  <2>1. CASE d = c
    BY <2>1, <1>a
  <2>2. CASE d # c
    BY <2>2, <1>a, <1>0, CallUntouched DEF CallsInv
  <2> QED
    BY <2>1, <2>2
<1>b. ASSUME NEW c \in Calls, End(c) PROVE CallsInv'
  <2>1. call'[c] = Idle /\ \A d \in Calls \ {c} : call'[d] = call[d]
    BY <1>b, <1>0 DEF End, TypeOK
  <2> QED
    BY <2>1, <1>a, CallEnded
<1>c. ASSUME call' = call PROVE CallsInv'
  BY <1>c, <1>0, CallUntouched DEF CallsInv
<1>d. ASSUME NEW c \in Calls, NEW point \in Points, GoTo(c, point)
      PROVE  /\ call'[c].at = point /\ Key(c)' = Key(c) /\ call'[c].loan = call[c].loan
             /\ call'[c].outcome = call[c].outcome
             /\ \A d \in Calls \ {c} : call'[d] = call[d]
  BY <1>d, <1>0 DEF GoTo, TypeOK, Key
<1> USE NullAssumption DEF WithRow, Approved, Posted
<1>1. ASSUME NEW c \in Calls, NEW k \in Keys, NEW l \in Loans, Lookup(c, k, l) PROVE CallsInv'
  <2>1. PICK point \in Points \ {"idle"} :
            /\ point = IF rowLoan[k] = NoLoan THEN "source" ELSE ResumePoint(k)
            /\ call' = [call EXCEPT ![c].at = point, ![c].key = k, ![c].loan = l]
    BY <1>1, <1>0 DEF Lookup, ResumePoint, Points, TypeOK, RowStatus
  <2>2. /\ call'[c].at = point /\ call'[c].key = k /\ call'[c].loan = l
        /\ \A d \in Calls \ {c} : call'[d] = call[d]
    BY <2>1, <1>0 DEF TypeOK
  <2>3. /\ point \in {"source", "approve", "post", "submit"}
        /\ point # "source" => rowLoan[k] = l
        /\ point \in {"post", "submit"} => k \in approved
        /\ point = "submit" => k \in posted
    BY <1>1, <2>1, <1>0 DEF Lookup, ResumePoint, RowsInv, Points
  <2>4. UNCHANGED <<db, services>>
    BY <1>1 DEF Lookup
  <2>5. CallInv(c)'
    BY <2>2, <2>3, <2>4 DEF CallInv, At, Key, db, services, Points
  <2> QED
    BY <2>2, <2>5, <1>a
<1>2. ASSUME NEW c \in Calls, ReadSource(c) PROVE CallsInv'
  <2>1. CASE GoTo(c, "insert")
    <3>1. CallInv(c)'
      BY <2>1, <1>2, <1>0, <1>d DEF ReadSource, CallsInv, CallInv, At, Key, Points
    <3> QED
      BY <3>1, <2>1, <1>a, <1>d DEF Points
  <2>2. CASE End(c)
    BY <2>2, <1>b
  <2> QED
    BY <1>2, <2>1, <2>2 DEF ReadSource
<1>3. ASSUME NEW c \in Calls, InsertRow(c) PROVE CallsInv'
  <2>1. CASE GoTo(c, "approve") /\ rowLoan' = [rowLoan EXCEPT ![Key(c)] = call[c].loan]
    <3>1. Key(c) \in Keys /\ call[c].loan \in Loans
      BY <1>3, <1>0 DEF InsertRow, CallsInv, CallInv, At
    <3>2. CallInv(c)'
      BY <2>1, <3>1, <1>0, <1>d DEF CallInv, At, Key, Points, TypeOK
    <3> QED
      BY <3>2, <2>1, <1>a, <1>d DEF Points
  <2>2. CASE End(c)
    BY <2>2, <1>b
  <2> QED
    BY <1>3, <2>1, <2>2 DEF InsertRow
<1>4. ASSUME NEW c \in Calls, ConsumeApproval(c) PROVE CallsInv'
  <2>1. CallInv(c)'
    BY <1>4, <1>0, <1>d DEF ConsumeApproval, CallsInv, CallInv, At, Key, Points, db
  <2> QED
    BY <2>1, <1>4, <1>a, <1>d DEF ConsumeApproval, Points
<1>5. ASSUME NEW c \in Calls, RecordApproval(c) PROVE CallsInv'
  <2>1. CallInv(c)'
    BY <1>5, <1>0, <1>d DEF RecordApproval, CallsInv, CallInv, At, Key, Points, services
  <2> QED
    BY <2>1, <1>5, <1>a, <1>d DEF RecordApproval, Points
<1>6. ASSUME NEW c \in Calls, PostLedger(c) PROVE CallsInv'
  <2>1. CallInv(c)'
    BY <1>6, <1>0, <1>d DEF PostLedger, CallsInv, CallInv, At, Key, Points, db
  <2> QED
    BY <2>1, <1>6, <1>a, <1>d DEF PostLedger, Points
<1>7. ASSUME NEW c \in Calls, RecordPosting(c) PROVE CallsInv'
  <2>1. CASE GoTo(c, "submit")
    <3>1. CallInv(c)'
      BY <2>1, <1>7, <1>0, <1>d DEF RecordPosting, CallsInv, CallInv, At, Key, Points, services
    <3> QED
      BY <3>1, <2>1, <1>a, <1>d DEF Points
  <2>2. CASE End(c)
    BY <2>2, <1>b
  <2> QED
    BY <1>7, <2>1, <2>2 DEF RecordPosting
<1>8. ASSUME NEW c \in Calls, SubmitPayout(c) PROVE CallsInv'
  <2>1. PICK outcome \in IF payout[Key(c)] = "NONE" THEN Outcomes ELSE {payout[Key(c)]} :
            /\ payout' = [payout EXCEPT ![Key(c)] = outcome]
            /\ call' = [call EXCEPT ![c].at = AfterAnswer(outcome), ![c].outcome = outcome]
    BY <1>8 DEF SubmitPayout
  <2>2. /\ Key(c) \in Keys /\ call[c].loan \in Loans /\ rowLoan[Key(c)] = call[c].loan
        /\ Key(c) \in approved /\ Key(c) \in posted
    BY <1>8, <1>0 DEF SubmitPayout, CallsInv, CallInv, At, Points
  <2>3. outcome \in Outcomes
    <3>1. payout[Key(c)] \in Outcomes \cup {"NONE"}
      BY <2>2, <1>0 DEF TypeOK
    <3> QED
      BY <2>1, <3>1
  <2>4. /\ call'[c].at = AfterAnswer(outcome) /\ call'[c].key = call[c].key
        /\ call'[c].loan = call[c].loan /\ call'[c].outcome = outcome
        /\ \A d \in Calls \ {c} : call'[d] = call[d]
    BY <2>1, <1>0 DEF TypeOK
  <2>5. payout'[Key(c)] = outcome
    BY <2>1, <2>2, <1>0 DEF TypeOK
  <2>6. CallInv(c)'
    BY <1>8, <2>2, <2>3, <2>4, <2>5 DEF SubmitPayout, CallInv, At, Key, Points, AfterAnswer, Outcomes, db
  <2> QED
    BY <2>4, <2>6, <1>a
<1>9. ASSUME NEW c \in Calls, Finish(c) PROVE CallsInv'
  BY <1>9, <1>b DEF Finish
<1>10. ASSUME NEW c \in Calls, ReverseLedger(c) PROVE CallsInv'
  <2>1. CallInv(c)'
    BY <1>10, <1>0, <1>d DEF ReverseLedger, CallsInv, CallInv, At, Key, Points, db
  <2> QED
    BY <2>1, <1>10, <1>a, <1>d DEF ReverseLedger, Points
<1>11. ASSUME NEW c \in Calls, RecordCompensation(c) PROVE CallsInv'
  BY <1>11, <1>b DEF RecordCompensation
<1>12. ASSUME NEW c \in Calls, Abort(c) PROVE CallsInv'
  BY <1>12, <1>b DEF Abort
<1>13. ASSUME NEW k \in Keys, PayoutSettles(k) PROVE CallsInv'
  BY <1>13, <1>c DEF PayoutSettles
<1>14. CASE UNCHANGED vars
  BY <1>14, <1>c DEF vars
<1> QED
  BY <1>1, <1>2, <1>3, <1>4, <1>5, <1>6, <1>7, <1>8, <1>9, <1>10, <1>11, <1>12, <1>13, <1>14
     DEF Next, Step

-----------------------------------------------------------------------------
\* The services imply of each other what they did: no payout without a posting,
\* no posting without an approval, no reversal without a refused payout.
LEMMA NextServices == IInv /\ [Next]_vars => ServicesInv'
<1> SUFFICES ASSUME IInv, [Next]_vars PROVE ServicesInv'
  OBVIOUS
<1>0. TypeOK /\ CallsInv /\ ServicesInv
  BY DEF IInv
<1> USE DEF WithRow, Approved, Posted, Points, At
<1>1. ASSUME UNCHANGED services PROVE ServicesInv'
  BY <1>1, <1>0 DEF services, ServicesInv
<1>2. ASSUME NEW c \in Calls, ConsumeApproval(c) PROVE ServicesInv'
  BY <1>2, <1>0 DEF ConsumeApproval, ServicesInv
<1>3. ASSUME NEW c \in Calls, PostLedger(c) PROVE ServicesInv'
  <2>1. Key(c) \in approved
    BY <1>3, <1>0 DEF PostLedger, CallsInv, CallInv
  <2> QED
    BY <1>3, <2>1, <1>0 DEF PostLedger, ServicesInv
<1>4. ASSUME NEW c \in Calls, SubmitPayout(c) PROVE ServicesInv'
  <2>1. PICK outcome \in IF payout[Key(c)] = "NONE" THEN Outcomes ELSE {payout[Key(c)]} :
            payout' = [payout EXCEPT ![Key(c)] = outcome]
    BY <1>4 DEF SubmitPayout
  <2>2. Key(c) \in posted /\ Key(c) \in Keys
    BY <1>4, <1>0 DEF SubmitPayout, CallsInv, CallInv
  <2>3. payout[Key(c)] # "NONE" => outcome = payout[Key(c)]
    BY <2>1
  <2> QED
    BY <1>4, <2>1, <2>2, <2>3, <1>0 DEF SubmitPayout, ServicesInv, TypeOK
<1>5. ASSUME NEW c \in Calls, ReverseLedger(c) PROVE ServicesInv'
  <2>1. payout[Key(c)] = "FAILED"
    BY <1>5, <1>0 DEF ReverseLedger, CallsInv, CallInv
  <2> QED
    BY <1>5, <2>1, <1>0 DEF ReverseLedger, ServicesInv
<1>6. ASSUME NEW k \in Keys, PayoutSettles(k) PROVE ServicesInv'
  BY <1>6, <1>0 DEF PayoutSettles, ServicesInv, TypeOK
<1> QED
  BY <1>1, <1>2, <1>3, <1>4, <1>5, <1>6
     DEF Next, Step, vars, services, Lookup, ReadSource, InsertRow, RecordApproval,
         RecordPosting, Finish, RecordCompensation, Abort

\* A row says of the services only what they have done.
LEMMA NextRows == IInv /\ [Next]_vars => RowsInv'
<1> SUFFICES ASSUME IInv, [Next]_vars PROVE RowsInv'
  OBVIOUS
<1>0. TypeOK /\ CallsInv /\ RowsInv /\ Kept
  BY NextKept DEF IInv
<1> USE NullAssumption DEF WithRow, Approved, Posted, Points, At
<1>1. ASSUME UNCHANGED <<rowLoan, rowStatus, rowLedgerTx>> PROVE RowsInv'
  BY <1>1, <1>0 DEF RowsInv, Kept
<1>2. ASSUME NEW c \in Calls, InsertRow(c) PROVE RowsInv'
  <2>1. Key(c) \in Keys /\ call[c].loan \in Loans
    BY <1>2, <1>0 DEF InsertRow, CallsInv, CallInv
  <2> QED
    BY <1>2, <2>1, <1>0 DEF InsertRow, RowsInv, TypeOK, services
<1>3. ASSUME NEW c \in Calls, RecordApproval(c) PROVE RowsInv'
  <2>1. Key(c) \in approved
    BY <1>3, <1>0 DEF RecordApproval, CallsInv, CallInv
  <2> QED
    BY <1>3, <2>1, <1>0 DEF RecordApproval, RowsInv, TypeOK, services
<1>4. ASSUME NEW c \in Calls, RecordPosting(c) PROVE RowsInv'
  <2>1. Key(c) \in approved /\ Key(c) \in posted /\ rowLoan[Key(c)] \in Loans
    BY <1>4, <1>0 DEF RecordPosting, CallsInv, CallInv
  <2> QED
    BY <1>4, <2>1, <1>0 DEF RecordPosting, RowsInv, TypeOK, services
<1>5. ASSUME NEW c \in Calls, Finish(c) PROVE RowsInv'
  <2>1. Key(c) \in approved /\ rowLoan[Key(c)] \in Loans
    BY <1>5, <1>0 DEF Finish, CallsInv, CallInv
  <2>2. call[c].outcome # "NONE"
    BY <1>0 DEF TypeOK, Outcomes
  <2> QED
    BY <1>5, <2>1, <2>2, <1>0 DEF Finish, RowsInv, TypeOK, services
<1>6. ASSUME NEW c \in Calls, RecordCompensation(c) PROVE RowsInv'
  <2>1. Key(c) \in approved /\ rowLoan[Key(c)] \in Loans
    BY <1>6, <1>0 DEF RecordCompensation, CallsInv, CallInv
  <2> QED
    BY <1>6, <2>1, <1>0 DEF RecordCompensation, RowsInv, TypeOK, services
<1> QED
  BY <1>1, <1>2, <1>3, <1>4, <1>5, <1>6
     DEF Next, Step, vars, db, Lookup, ReadSource, ConsumeApproval, PostLedger, SubmitPayout,
         ReverseLedger, Abort, PayoutSettles

\* A loan becomes DISBURSED, and a row final, by a call that has seen the payout.
LEMMA NextLoans == IInv /\ [Next]_vars => LoansInv' /\ FinalRowsAreTrue'
<1> SUFFICES ASSUME IInv, [Next]_vars PROVE LoansInv' /\ FinalRowsAreTrue'
  OBVIOUS
<1>0. TypeOK /\ CallsInv /\ RowsInv /\ LoansInv /\ FinalRowsAreTrue /\ Kept
  BY NextKept DEF IInv
<1> USE NullAssumption DEF WithRow, Approved, Posted, Points, At
<1>a. ASSUME UNCHANGED <<loanStatus, rowStatus, outbox>> PROVE LoansInv' /\ FinalRowsAreTrue'
  <2>1. LoansInv'
    BY <1>a, <1>0 DEF LoansInv, Kept
  <2>2. FinalRowsAreTrue'
    BY <1>a, <1>0 DEF FinalRowsAreTrue, RowsInv, Kept
  <2> QED
    BY <2>1, <2>2
<1>b. ASSUME UNCHANGED <<loanStatus, outbox>>, NEW k \in Keys, NEW s \in RowStatus,
             rowStatus' = [rowStatus EXCEPT ![k] = s], s \notin {"SUCCEEDED", "COMPENSATED"}
      PROVE  LoansInv' /\ FinalRowsAreTrue'
  <2>1. LoansInv'
    BY <1>b, <1>0 DEF LoansInv, Kept
  <2>2. FinalRowsAreTrue'
    BY <1>b, <1>0 DEF FinalRowsAreTrue, RowsInv, Kept, TypeOK
  <2> QED
    BY <2>1, <2>2
<1>1. ASSUME NEW c \in Calls, InsertRow(c) PROVE LoansInv' /\ FinalRowsAreTrue'
  <2>1. Key(c) \in Keys
    BY <1>1, <1>0 DEF InsertRow, CallsInv, CallInv
  <2> QED
    BY <1>1, <2>1, <1>a, <1>b DEF InsertRow, RowStatus
<1>2. ASSUME NEW c \in Calls, RecordApproval(c) PROVE LoansInv' /\ FinalRowsAreTrue'
  <2>1. Key(c) \in Keys
    BY <1>2, <1>0 DEF RecordApproval, CallsInv, CallInv
  <2> QED
    BY <1>2, <2>1, <1>a, <1>b DEF RecordApproval, RowStatus
<1>3. ASSUME NEW c \in Calls, RecordPosting(c) PROVE LoansInv' /\ FinalRowsAreTrue'
  <2>1. Key(c) \in Keys
    BY <1>3, <1>0 DEF RecordPosting, CallsInv, CallInv
  <2> QED
    BY <1>3, <2>1, <1>a, <1>b DEF RecordPosting, RowStatus
<1>4. ASSUME NEW c \in Calls, Finish(c) PROVE LoansInv' /\ FinalRowsAreTrue'
  <2>1. /\ Key(c) \in Keys /\ call[c].loan \in Loans /\ rowLoan[Key(c)] = call[c].loan
        /\ call[c].outcome \in {"PENDING", "SUCCEEDED"}
        /\ call[c].outcome = "SUCCEEDED" => payout[Key(c)] = "SUCCEEDED"
    BY <1>4, <1>0 DEF Finish, CallsInv, CallInv, TypeOK, Outcomes
  <2>2. UNCHANGED <<rowLoan, services>>
    BY <1>4 DEF Finish
  <2>3. CASE UNCHANGED <<rowStatus, loanStatus, outbox>>
    BY <2>3, <1>a
  <2>4. CASE call[c].outcome = "PENDING" /\ rowStatus' = [rowStatus EXCEPT ![Key(c)] = "PENDING"]
    BY <2>4, <1>4, <2>1, <1>b DEF Finish, Disburses, RowStatus
  <2>5. CASE /\ call[c].outcome = "SUCCEEDED"
             /\ rowStatus' = [rowStatus EXCEPT ![Key(c)] = "SUCCEEDED"]
             /\ loanStatus' = [loanStatus EXCEPT ![call[c].loan] = "DISBURSED"]
             /\ outbox' = outbox \cup {call[c].loan}
    <3>1. LoansInv'
      BY <2>1, <2>2, <2>5, <1>0 DEF LoansInv, services, TypeOK
    <3>2. FinalRowsAreTrue'
      BY <2>1, <2>2, <2>5, <1>0 DEF FinalRowsAreTrue, RowsInv, services, TypeOK
    <3> QED
      BY <3>1, <3>2
  <2> QED
    BY <1>4, <2>1, <2>3, <2>4, <2>5 DEF Finish, Disburses
<1>5. ASSUME NEW c \in Calls, RecordCompensation(c) PROVE LoansInv' /\ FinalRowsAreTrue'
  <2>1. Key(c) \in Keys /\ payout[Key(c)] = "FAILED" /\ Key(c) \in reversed
    BY <1>5, <1>0 DEF RecordCompensation, CallsInv, CallInv
  <2>2. LoansInv'
    BY <1>5, <1>0 DEF RecordCompensation, LoansInv, services
  <2>3. FinalRowsAreTrue'
    BY <1>5, <2>1, <1>0 DEF RecordCompensation, FinalRowsAreTrue, services, TypeOK
  <2> QED
    BY <2>2, <2>3
<1> QED
  BY <1>a, <1>1, <1>2, <1>3, <1>4, <1>5
     DEF Next, Step, vars, db, Lookup, ReadSource, ConsumeApproval, PostLedger, SubmitPayout,
         ReverseLedger, Abort, PayoutSettles

THEOREM Invariant == Spec => []IInv
<1>1. IInv /\ [Next]_vars => IInv'
  BY NextType, NextCalls, NextRows, NextServices, NextLoans DEF IInv
<1> QED
  BY <1>1, InitIInv, PTL DEF Spec

-----------------------------------------------------------------------------
\* For any number of overlapping and dying calls, the variables keep their types:
\* a refused payout, for one, never becomes the status of a row.
THEOREM TypeCorrect == Spec => []TypeOK
<1>1. IInv => TypeOK
  BY DEF IInv
<1> QED
  BY <1>1, Invariant, PTL

\* For any number of overlapping and dying calls: what SUCCEEDED and COMPENSATED
\* rows say of ledger, payment and loan is true.
THEOREM FinalRowsTrue == Spec => []FinalRowsAreTrue
<1>1. IInv => FinalRowsAreTrue
  BY DEF IInv
<1> QED
  BY <1>1, Invariant, PTL

\* For any number of overlapping and dying calls: a DISBURSED loan is approved,
\* booked and paid.
THEOREM DisbursedPaid == Spec => []DisbursedIsPaid
<1>1. IInv => DisbursedIsPaid
  BY DEF IInv, LoansInv, ServicesInv, DisbursedIsPaid
<1> QED
  BY <1>1, Invariant, PTL

\* Whatever calls overlap and die: the loan's status and a final row say what happened.
THEOREM StatusesTrue == Spec => []StatusesAreTrue
  BY FinalRowsTrue, DisbursedPaid, PTL DEF StatusesAreTrue

-----------------------------------------------------------------------------
(* Disbursement implements DisbursementMoney. *)

\* Where the funds of one disbursement stand.
LEMMA FundsOf ==
    ASSUME NEW k \in Keys, TypeOK, ServicesInv
    PROVE  /\ k \in reversed => Funds[k] = "unwound"
           /\ k \notin reversed /\ payout[k] = "FAILED" => Funds[k] = "refused"
           /\ payout[k] = "SUCCEEDED" => Funds[k] = "paid"
           /\ payout[k] = "PENDING" => Funds[k] = "sent"
           /\ payout[k] = "NONE" /\ k \in posted => Funds[k] = "booked"
           /\ k \notin posted /\ k \in approved => Funds[k] = "authorised"
           /\ k \notin approved => Funds[k] = "untouched"
<1>1. payout[k] \in {"NONE", "PENDING", "SUCCEEDED", "FAILED"}
  BY DEF TypeOK, Outcomes
<1>2. Funds[k] =
        CASE k \in reversed -> "unwound"
          [] k \notin reversed /\ payout[k] = "FAILED" -> "refused"
          [] k \notin reversed /\ payout[k] = "SUCCEEDED" -> "paid"
          [] k \notin reversed /\ payout[k] = "PENDING" -> "sent"
          [] k \notin reversed /\ payout[k] = "NONE" /\ k \in posted -> "booked"
          [] k \notin reversed /\ payout[k] = "NONE" /\ k \notin posted /\ k \in approved -> "authorised"
          [] OTHER -> "untouched"
  BY DEF Funds
<1>3. /\ k \in posted => k \in approved
      /\ payout[k] # "NONE" => k \in posted
      /\ k \in reversed => payout[k] = "FAILED"
  BY DEF ServicesInv
<1> QED
  BY <1>1, <1>2, <1>3

\* The same, after a step.
LEMMA FundsOfNext ==
    ASSUME NEW k \in Keys, TypeOK', ServicesInv'
    PROVE  /\ k \in reversed' => Funds'[k] = "unwound"
           /\ k \notin reversed' /\ payout'[k] = "FAILED" => Funds'[k] = "refused"
           /\ payout'[k] = "SUCCEEDED" => Funds'[k] = "paid"
           /\ payout'[k] = "PENDING" => Funds'[k] = "sent"
           /\ payout'[k] = "NONE" /\ k \in posted' => Funds'[k] = "booked"
           /\ k \notin posted' /\ k \in approved' => Funds'[k] = "authorised"
           /\ k \notin approved' => Funds'[k] = "untouched"
<1>1. payout'[k] \in {"NONE", "PENDING", "SUCCEEDED", "FAILED"}
  BY DEF TypeOK, Outcomes
<1>2. Funds'[k] =
        CASE k \in reversed' -> "unwound"
          [] k \notin reversed' /\ payout'[k] = "FAILED" -> "refused"
          [] k \notin reversed' /\ payout'[k] = "SUCCEEDED" -> "paid"
          [] k \notin reversed' /\ payout'[k] = "PENDING" -> "sent"
          [] k \notin reversed' /\ payout'[k] = "NONE" /\ k \in posted' -> "booked"
          [] k \notin reversed' /\ payout'[k] = "NONE" /\ k \notin posted' /\ k \in approved' -> "authorised"
          [] OTHER -> "untouched"
  BY DEF Funds
<1>3. /\ k \in posted' => k \in approved'
      /\ payout'[k] # "NONE" => k \in posted'
      /\ k \in reversed' => payout'[k] = "FAILED"
  BY DEF ServicesInv
<1> QED
  BY <1>1, <1>2, <1>3

\* A step of the saga moves the funds of one disbursement one stage on, or none.
LEMMA MoneyStep == IInv /\ IInv' /\ [Next]_vars => [Money!Next]_Funds
<1> SUFFICES ASSUME IInv, IInv', [Next]_vars PROVE [Money!Next]_Funds
  OBVIOUS
<1>0. TypeOK /\ CallsInv /\ ServicesInv /\ TypeOK' /\ ServicesInv'
  BY DEF IInv
<1>a. ASSUME NEW k \in Keys, \A j \in Keys \ {k} : Funds'[j] = Funds[j]
      PROVE  Funds' = [Funds EXCEPT ![k] = Funds'[k]]
  BY <1>a, ZenonT(30) DEF Funds
<1>b. ASSUME UNCHANGED services PROVE UNCHANGED Funds
  BY <1>b DEF services, Funds
<1> USE DEF WithRow, Approved, Posted, Points, At
<1>1. ASSUME NEW c \in Calls, ConsumeApproval(c) PROVE [Money!Next]_Funds
  <2>1. Key(c) \in Keys
    BY <1>1, <1>0 DEF ConsumeApproval, CallsInv, CallInv
  <2>2. \A j \in Keys \ {Key(c)} : Funds'[j] = Funds[j]
    BY <1>1 DEF ConsumeApproval, Funds
  <2>3. CASE Key(c) \in approved
    <3>1. UNCHANGED services
      BY <1>1, <2>3 DEF ConsumeApproval, services
    <3> QED
      BY <3>1, <1>b
  <2>4. CASE Key(c) \notin approved
    <3>1. Funds[Key(c)] = "untouched"
      BY <2>1, <2>4, <1>0, FundsOf
    <3>2. Funds'[Key(c)] = "authorised"
      <4>1. Key(c) \notin posted' /\ Key(c) \in approved'
        BY <1>1, <2>1, <2>4, <1>0 DEF ConsumeApproval, ServicesInv
      <4> QED
        BY <4>1, <2>1, <1>0, FundsOfNext
    <3>3. Money!Authorise(Key(c))
      BY <3>1, <3>2, <2>1, <2>2, <1>a DEF Money!Authorise, Money!Move
    <3> QED
      BY <3>3, <2>1 DEF Money!Next
  <2> QED
    BY <2>3, <2>4
<1>2. ASSUME NEW c \in Calls, PostLedger(c) PROVE [Money!Next]_Funds
  <2>1. Key(c) \in Keys /\ Key(c) \in approved
    BY <1>2, <1>0 DEF PostLedger, CallsInv, CallInv
  <2>2. \A j \in Keys \ {Key(c)} : Funds'[j] = Funds[j]
    BY <1>2 DEF PostLedger, Funds
  <2>3. CASE Key(c) \in posted
    <3>1. UNCHANGED services
      BY <1>2, <2>3 DEF PostLedger, services
    <3> QED
      BY <3>1, <1>b
  <2>4. CASE Key(c) \notin posted
    <3>1. Funds[Key(c)] = "authorised"
      BY <2>1, <2>4, <1>0, FundsOf
    <3>2. Funds'[Key(c)] = "booked"
      <4>1. payout'[Key(c)] = "NONE" /\ Key(c) \in posted'
        BY <1>2, <2>1, <2>4, <1>0 DEF PostLedger, ServicesInv
      <4> QED
        BY <4>1, <2>1, <1>0, FundsOfNext
    <3>3. Money!Book(Key(c))
      BY <3>1, <3>2, <2>1, <2>2, <1>a DEF Money!Book, Money!Move
    <3> QED
      BY <3>3, <2>1 DEF Money!Next
  <2> QED
    BY <2>3, <2>4
<1>3. ASSUME NEW c \in Calls, SubmitPayout(c) PROVE [Money!Next]_Funds
  <2>1. Key(c) \in Keys /\ Key(c) \in posted
    BY <1>3, <1>0 DEF SubmitPayout, CallsInv, CallInv
  <2>2. PICK outcome \in IF payout[Key(c)] = "NONE" THEN Outcomes ELSE {payout[Key(c)]} :
            payout' = [payout EXCEPT ![Key(c)] = outcome]
    BY <1>3 DEF SubmitPayout
  <2>3. UNCHANGED <<approved, posted, reversed>>
    BY <1>3 DEF SubmitPayout
  <2>4. \A j \in Keys \ {Key(c)} : Funds'[j] = Funds[j]
    BY <2>2, <2>3, <1>0 DEF Funds, TypeOK
  <2>5. CASE payout[Key(c)] # "NONE"
    <3>1. payout' = payout
      BY <2>2, <2>5, <1>0 DEF TypeOK
    <3> QED
      BY <3>1, <2>3, <1>b DEF services
  <2>6. CASE payout[Key(c)] = "NONE"
    <3>1. Funds[Key(c)] = "booked"
      BY <2>1, <2>6, <1>0, FundsOf
    <3>2. payout'[Key(c)] = outcome /\ outcome \in Outcomes
      BY <2>1, <2>2, <2>6, <1>0 DEF TypeOK
    <3>3. Key(c) \notin reversed'
      BY <2>1, <2>3, <2>6, <1>0 DEF ServicesInv
    <3>4. Funds'[Key(c)] \in {"sent", "paid", "refused"}
      BY <3>2, <3>3, <2>1, <1>0, FundsOfNext DEF Outcomes
    <3>5. Money!HandOver(Key(c))
      BY <3>1, <3>4, <2>1, <2>4, <1>a DEF Money!HandOver, Money!Move
    <3> QED
      BY <3>5, <2>1 DEF Money!Next
  <2> QED
    BY <2>5, <2>6
<1>4. ASSUME NEW c \in Calls, ReverseLedger(c) PROVE [Money!Next]_Funds
  <2>1. Key(c) \in Keys /\ payout[Key(c)] = "FAILED"
    BY <1>4, <1>0 DEF ReverseLedger, CallsInv, CallInv
  <2>2. \A j \in Keys \ {Key(c)} : Funds'[j] = Funds[j]
    BY <1>4 DEF ReverseLedger, Funds
  <2>3. CASE Key(c) \in reversed
    <3>1. UNCHANGED services
      BY <1>4, <2>3 DEF ReverseLedger, services
    <3> QED
      BY <3>1, <1>b
  <2>4. CASE Key(c) \notin reversed
    <3>1. Funds[Key(c)] = "refused"
      BY <2>1, <2>4, <1>0, FundsOf
    <3>2. Funds'[Key(c)] = "unwound"
      BY <1>4, <2>1, <1>0, FundsOfNext DEF ReverseLedger
    <3>3. Money!Unwind(Key(c))
      BY <3>1, <3>2, <2>1, <2>2, <1>a DEF Money!Unwind, Money!Move
    <3> QED
      BY <3>3, <2>1 DEF Money!Next
  <2> QED
    BY <2>3, <2>4
<1>5. ASSUME NEW k \in Keys, PayoutSettles(k) PROVE [Money!Next]_Funds
  <2>1. PICK outcome \in {"SUCCEEDED", "FAILED"} : payout' = [payout EXCEPT ![k] = outcome]
    BY <1>5 DEF PayoutSettles
  <2>2. UNCHANGED <<approved, posted, reversed>> /\ payout[k] = "PENDING"
    BY <1>5 DEF PayoutSettles
  <2>3. \A j \in Keys \ {k} : Funds'[j] = Funds[j]
    BY <2>1, <2>2, <1>0 DEF Funds, TypeOK
  <2>4. Funds[k] = "sent"
    BY <2>2, <1>0, FundsOf
  <2>5. payout'[k] = outcome /\ k \notin reversed'
    BY <2>1, <2>2, <1>0 DEF TypeOK, ServicesInv
  <2>6. Funds'[k] \in {"paid", "refused"}
    BY <2>5, <1>0, FundsOfNext
  <2>7. Money!Clear(k)
    BY <2>3, <2>4, <2>6, <1>a DEF Money!Clear, Money!Move
  <2> QED
    BY <2>7 DEF Money!Next
<1> QED
  BY <1>b, <1>1, <1>2, <1>3, <1>4, <1>5
     DEF Next, Step, vars, services, Lookup, ReadSource, InsertRow, RecordApproval,
         RecordPosting, Finish, RecordCompensation, Abort

\* For any number of overlapping and dying calls: the money of each disbursement is
\* approved, booked, paid and unwound in order and at most once.
THEOREM MoneyIsInOrder == Spec => MoneyInOrder
<1>1. Init => Money!Init
  BY DEF Init, Money!Init, Funds
<1>2. IInv /\ IInv' /\ [Next]_vars => [Money!Next]_Funds
  BY MoneyStep
<1> QED
  BY <1>1, <1>2, Invariant, PTL DEF Spec, MoneyInOrder, Money!Spec

-----------------------------------------------------------------------------
(* While no calls have overlapped, the row a call works on is as the call   *)
(* has left it, and the index on rows in flight and the status of the loan  *)
(* together leave a loan one row that is, or may yet be, paid out.          *)

\* Statuses of a row that is paid out or may yet be.
Live == InFlight \cup {"SUCCEEDED"}

SoloCall(c) ==
    /\ At(c, "insert") => loanStatus[call[c].loan] = "APPROVED"
    /\ call[c].at \in {"approve", "recordApproval"} => rowStatus[Key(c)] = "APPROVAL_PENDING"
    /\ call[c].at \in {"post", "recordPosting"} =>
           rowStatus[Key(c)] \in {"LEDGER_POSTING", "PAYMENT_SUBMITTING"}
    /\ call[c].at \in {"submit", "finish", "reverse", "compensate"} =>
           rowStatus[Key(c)] = "PAYMENT_SUBMITTING"

SoloCalls   == \A c \in Calls : SoloCall(c)
PaidAreLive == \A k \in Keys : payout[k] \in {"PENDING", "SUCCEEDED"} => rowStatus[k] \in Live
OneLive     == \A j, k \in Keys : j # k /\ rowLoan[j] = rowLoan[k] =>
                   rowStatus[j] \notin Live \/ rowStatus[k] \notin Live

Solo    == NoOverlap /\ SoloCalls /\ PaidAreLive /\ OneLive
SoloInv == alone => Solo

LEMMA InitSolo == MCInit => SoloInv
<1> SUFFICES ASSUME MCInit PROVE Solo
  BY DEF SoloInv
<1>1. NoOverlap /\ SoloCalls
  BY DEF MCInit, Init, NoOverlap, SoloCalls, SoloCall, At, Idle
<1>2. PaidAreLive /\ OneLive
  BY DEF MCInit, Init, PaidAreLive, OneLive, Live, InFlight
<1> QED
  BY <1>1, <1>2 DEF Solo

\* The calls of a step that leaves them alone: the one that moves is the only one.
LEMMA SoloMoves ==
    ASSUME TypeOK, NoOverlap', NEW c \in Calls, ~At(c, "idle") \/ ~At(c, "idle")', NoOverlap,
           SoloCall(c)', \A d \in Calls \ {c} : call'[d] = call[d]
    PROVE  SoloCalls'
<1> SUFFICES ASSUME NEW d \in Calls PROVE SoloCall(d)'
  BY DEF SoloCalls
<1>1. CASE d = c
  BY <1>1
<1>2. CASE d # c
  <2>1. At(d, "idle")'
    BY <1>2 DEF NoOverlap, At
  <2> QED
    BY <2>1 DEF SoloCall, At
<1> QED
  BY <1>1, <1>2

\* A step that changes one row, which was live, or makes it live when no other is.
LEMMA SoloRow ==
    ASSUME TypeOK, OneLive, PaidAreLive, NEW k \in Keys, NEW s \in RowStatus,
           rowStatus' = [rowStatus EXCEPT ![k] = s], UNCHANGED <<rowLoan, payout>>,
           s \in Live => rowStatus[k] \in Live,
           s \notin Live => payout[k] \notin {"PENDING", "SUCCEEDED"}
    PROVE  OneLive' /\ PaidAreLive'
  BY DEF TypeOK, OneLive, PaidAreLive

LEMMA NextSolo == IInv /\ IInv' /\ SoloInv /\ [MCNext]_MCVars => SoloInv'
<1> SUFFICES ASSUME IInv, IInv', SoloInv, [MCNext]_MCVars, alone' PROVE Solo'
  BY DEF SoloInv
<1>0. TypeOK /\ CallsInv /\ RowsInv /\ ServicesInv /\ FinalRowsAreTrue
  BY DEF IInv
<1>u. CASE UNCHANGED MCVars
  <2>1. Solo
    BY <1>u DEF SoloInv, MCVars
  <2> QED
    BY <2>1, <1>u DEF Solo, MCVars, vars, db, services, NoOverlap, At, SoloCalls, SoloCall, Key,
                      PaidAreLive, OneLive
<1> SUFFICES ASSUME MCNext PROVE Solo'
  BY <1>u
<1>s. alone /\ NoOverlap /\ NoOverlap' /\ SoloCalls /\ PaidAreLive /\ OneLive
  BY DEF MCNext, SoloInv, Solo
<1>a. ASSUME SoloCalls', PaidAreLive', OneLive' PROVE Solo'
  BY <1>a, <1>s DEF Solo
<1>b. ASSUME NEW c \in Calls, NEW point \in Points, GoTo(c, point)
      PROVE  /\ call'[c].at = point /\ Key(c)' = Key(c) /\ call'[c].loan = call[c].loan
             /\ \A d \in Calls \ {c} : call'[d] = call[d]
  BY <1>b, <1>0 DEF GoTo, TypeOK, Key
<1>c. ASSUME NEW c \in Calls, End(c), ~At(c, "idle") PROVE SoloCalls'
  <2>1. call'[c] = Idle /\ \A d \in Calls \ {c} : call'[d] = call[d]
    BY <1>c, <1>0 DEF End, TypeOK
  <2>2. SoloCall(c)'
    BY <2>1 DEF SoloCall, Idle, At
  <2> QED
    BY <2>1, <2>2, <1>0, <1>s, <1>c, SoloMoves
<1>d. ASSUME NEW c \in Calls, NEW point \in Points, GoTo(c, point), ~At(c, "idle"), SoloCall(c)'
      PROVE  SoloCalls'
  <2>1. \A d \in Calls \ {c} : call'[d] = call[d]
    BY <1>b, <1>d
  <2> QED
    BY <2>1, <1>0, <1>s, <1>d, SoloMoves
<1>e. ASSUME UNCHANGED <<rowLoan, rowStatus, payout>> PROVE PaidAreLive' /\ OneLive'
  BY <1>e, <1>s DEF PaidAreLive, OneLive
<1>f. \A c \in Calls : SoloCall(c) /\ CallInv(c)
  BY <1>0, <1>s DEF SoloCalls, CallsInv
<1> USE DEF WithRow, Approved, Posted, Points, At
<1>1. ASSUME NEW c \in Calls, NEW k \in Keys, NEW l \in Loans, Lookup(c, k, l) PROVE Solo'
  <2>1. PICK point \in Points \ {"idle"} :
            /\ point = IF rowLoan[k] = NoLoan THEN "source" ELSE ResumePoint(k)
            /\ call' = [call EXCEPT ![c].at = point, ![c].key = k, ![c].loan = l]
    BY <1>1, <1>0 DEF Lookup, ResumePoint, TypeOK, RowStatus
  <2>2. /\ call'[c].at = point /\ call'[c].key = k /\ call'[c].loan = l
        /\ \A d \in Calls \ {c} : call'[d] = call[d]
    BY <2>1, <1>0 DEF TypeOK
  <2>3. UNCHANGED <<db, services>>
    BY <1>1 DEF Lookup
  <2>4. SoloCall(c)'
    BY <2>1, <2>2, <2>3 DEF SoloCall, Key, db, ResumePoint
  <2>5. SoloCalls'
    BY <2>2, <2>4, <1>0, <1>s, SoloMoves
  <2> QED
    BY <2>5, <2>3, <1>a, <1>e DEF db, services
<1>2. ASSUME NEW c \in Calls, ReadSource(c) PROVE Solo'
  <2>1. ~At(c, "idle") /\ UNCHANGED <<db, services>>
    BY <1>2 DEF ReadSource
  <2>2. CASE GoTo(c, "insert") /\ loanStatus[call[c].loan] = "APPROVED"
    <3>1. SoloCall(c)'
      BY <2>1, <2>2, <1>b DEF SoloCall, db
    <3> QED
      BY <3>1, <2>1, <2>2, <1>a, <1>d, <1>e DEF db, services
  <2>3. CASE End(c)
    BY <2>3, <2>1, <1>a, <1>c, <1>e DEF db, services
  <2> QED
    BY <1>2, <2>2, <2>3 DEF ReadSource
<1>3. ASSUME NEW c \in Calls, InsertRow(c) PROVE Solo'
  <2> DEFINE k == Key(c)  l == call[c].loan
  <2>1. /\ ~At(c, "idle") /\ UNCHANGED <<loanStatus, services>>
        /\ k \in Keys /\ l \in Loans /\ loanStatus[l] = "APPROVED"
    BY <1>3, <1>f DEF InsertRow, CallInv, SoloCall
  <2>2. CASE /\ CanInsert(k, l) /\ GoTo(c, "approve")
             /\ rowLoan' = [rowLoan EXCEPT ![k] = l]
             /\ rowStatus' = [rowStatus EXCEPT ![k] = "APPROVAL_PENDING"]
    <3>1. SoloCall(c)'
      BY <2>1, <2>2, <1>0, <1>b DEF SoloCall, Key, TypeOK
    <3>2. PaidAreLive'
      BY <2>1, <2>2, <1>0, <1>s DEF PaidAreLive, Live, InFlight, services, TypeOK
    <3>3. \A j \in Keys \ {k} : rowLoan[j] = l => rowStatus[j] \notin Live
      <4> SUFFICES ASSUME NEW j \in Keys \ {k}, rowLoan[j] = l PROVE rowStatus[j] \notin Live
        OBVIOUS
      <4>1. rowStatus[j] \notin InFlight
        BY <2>2 DEF CanInsert, IndexesAllow, NoOtherInFlight, InFlight
      <4>2. rowStatus[j] # "SUCCEEDED"
        BY <2>1, <1>0 DEF FinalRowsAreTrue
      <4> QED
        BY <4>1, <4>2 DEF Live
    <3>4. OneLive'
      BY <2>1, <2>2, <3>3, <1>0, <1>s DEF OneLive, TypeOK
    <3> QED
      BY <3>1, <3>2, <3>4, <2>1, <2>2, <1>a, <1>d
  <2>3. CASE End(c) /\ UNCHANGED <<rowLoan, rowStatus>>
    BY <2>3, <2>1, <1>a, <1>c, <1>e DEF services
  <2> QED
    BY <1>3, <2>2, <2>3 DEF InsertRow
<1>4. ASSUME NEW c \in Calls, ConsumeApproval(c) PROVE Solo'
  <2>1. ~At(c, "idle") /\ GoTo(c, "recordApproval") /\ UNCHANGED db /\ UNCHANGED payout
    BY <1>4 DEF ConsumeApproval
  <2>2. SoloCall(c)'
    BY <1>4, <2>1, <1>b, <1>f DEF ConsumeApproval, SoloCall, Key, db
  <2> QED
    BY <2>1, <2>2, <1>a, <1>d, <1>e DEF db
<1>5. ASSUME NEW c \in Calls, RecordApproval(c) PROVE Solo'
  <2>1. /\ ~At(c, "idle") /\ GoTo(c, "post") /\ UNCHANGED <<rowLoan, payout>> /\ Key(c) \in Keys
        /\ rowStatus[Key(c)] = "APPROVAL_PENDING"
        /\ rowStatus' = [rowStatus EXCEPT ![Key(c)] = "LEDGER_POSTING"]
    BY <1>5, <1>f DEF RecordApproval, SoloCall, CallInv, services
  <2>2. SoloCall(c)'
    BY <2>1, <1>0, <1>b DEF SoloCall, Key, TypeOK
  <2>3. OneLive' /\ PaidAreLive'
    BY <2>1, <1>0, <1>s, SoloRow DEF Live, InFlight, RowStatus
  <2> QED
    BY <2>1, <2>2, <2>3, <1>a, <1>d
<1>6. ASSUME NEW c \in Calls, PostLedger(c) PROVE Solo'
  <2>1. ~At(c, "idle") /\ GoTo(c, "recordPosting") /\ UNCHANGED db /\ UNCHANGED payout
    BY <1>6 DEF PostLedger
  <2>2. SoloCall(c)'
    BY <1>6, <2>1, <1>b, <1>f DEF PostLedger, SoloCall, Key, db
  <2> QED
    BY <2>1, <2>2, <1>a, <1>d, <1>e DEF db
<1>7. ASSUME NEW c \in Calls, RecordPosting(c) PROVE Solo'
  <2>1. /\ ~At(c, "idle") /\ UNCHANGED <<rowLoan, payout>> /\ Key(c) \in Keys
        /\ rowStatus[Key(c)] \in {"LEDGER_POSTING", "PAYMENT_SUBMITTING"}
    BY <1>7, <1>f DEF RecordPosting, SoloCall, CallInv, services
  <2>2. CASE GoTo(c, "submit") /\ rowStatus' = [rowStatus EXCEPT ![Key(c)] = "PAYMENT_SUBMITTING"]
    <3>1. SoloCall(c)'
      BY <2>1, <2>2, <1>0, <1>b DEF SoloCall, Key, TypeOK
    <3>2. OneLive' /\ PaidAreLive'
      BY <2>1, <2>2, <1>0, <1>s, SoloRow DEF Live, InFlight, RowStatus
    <3> QED
      BY <2>1, <2>2, <3>1, <3>2, <1>a, <1>d
  <2>3. CASE End(c) /\ UNCHANGED rowStatus
    BY <2>1, <2>3, <1>a, <1>c, <1>e
  <2> QED
    BY <1>7, <2>2, <2>3 DEF RecordPosting
<1>8. ASSUME NEW c \in Calls, SubmitPayout(c) PROVE Solo'
  <2>1. PICK outcome \in IF payout[Key(c)] = "NONE" THEN Outcomes ELSE {payout[Key(c)]} :
            /\ payout' = [payout EXCEPT ![Key(c)] = outcome]
            /\ call' = [call EXCEPT ![c].at = AfterAnswer(outcome), ![c].outcome = outcome]
    BY <1>8 DEF SubmitPayout
  <2>2. /\ ~At(c, "idle") /\ UNCHANGED <<rowLoan, rowStatus>> /\ Key(c) \in Keys
        /\ rowStatus[Key(c)] = "PAYMENT_SUBMITTING"
    BY <1>8, <1>f DEF SubmitPayout, SoloCall, CallInv, db
  <2>3. /\ call'[c].at \in {"finish", "reverse"} /\ Key(c)' = Key(c)
        /\ \A d \in Calls \ {c} : call'[d] = call[d]
    BY <2>1, <1>0 DEF TypeOK, AfterAnswer, Key
  <2>4. SoloCall(c)'
    BY <2>2, <2>3 DEF SoloCall
  <2>5. SoloCalls'
    BY <2>2, <2>3, <2>4, <1>0, <1>s, SoloMoves
  <2>6. PaidAreLive' /\ OneLive'
    BY <2>1, <2>2, <1>0, <1>s DEF PaidAreLive, OneLive, Live, InFlight, TypeOK
  <2> QED
    BY <2>5, <2>6, <1>a
<1>9. ASSUME NEW c \in Calls, Finish(c) PROVE Solo'
  <2>1. /\ ~At(c, "idle") /\ UNCHANGED <<rowLoan, payout>> /\ Key(c) \in Keys /\ End(c)
        /\ rowStatus[Key(c)] = "PAYMENT_SUBMITTING"
        /\ call[c].outcome \in {"PENDING", "SUCCEEDED"}
    BY <1>9, <1>f, <1>0 DEF Finish, SoloCall, CallInv, services, TypeOK, Outcomes
  <2>2. CASE rowStatus' = [rowStatus EXCEPT ![Key(c)] = call[c].outcome]
    <3>1. OneLive' /\ PaidAreLive'
      BY <2>1, <2>2, <1>0, <1>s, SoloRow DEF Live, InFlight, RowStatus
    <3> QED
      BY <3>1, <2>1, <1>a, <1>c
  <2>3. CASE UNCHANGED rowStatus
    BY <2>1, <2>3, <1>a, <1>c, <1>e
  <2> QED
    BY <1>9, <2>2, <2>3 DEF Finish
<1>10. ASSUME NEW c \in Calls, ReverseLedger(c) PROVE Solo'
  <2>1. ~At(c, "idle") /\ GoTo(c, "compensate") /\ UNCHANGED db /\ UNCHANGED payout
    BY <1>10 DEF ReverseLedger
  <2>2. SoloCall(c)'
    BY <1>10, <2>1, <1>b, <1>f DEF ReverseLedger, SoloCall, Key, db
  <2> QED
    BY <2>1, <2>2, <1>a, <1>d, <1>e DEF db
<1>11. ASSUME NEW c \in Calls, RecordCompensation(c) PROVE Solo'
  <2>1. /\ ~At(c, "idle") /\ UNCHANGED <<rowLoan, payout>> /\ Key(c) \in Keys /\ End(c)
        /\ payout[Key(c)] = "FAILED"
        /\ rowStatus' = [rowStatus EXCEPT ![Key(c)] = "COMPENSATED"]
    BY <1>11, <1>f DEF RecordCompensation, CallInv, services
  <2>2. OneLive' /\ PaidAreLive'
    BY <2>1, <1>0, <1>s, SoloRow DEF Live, InFlight, RowStatus
  <2> QED
    BY <2>1, <2>2, <1>a, <1>c
<1>12. ASSUME NEW c \in Calls, Abort(c) PROVE Solo'
  BY <1>12, <1>a, <1>c, <1>e DEF Abort, db, services
<1>13. ASSUME NEW k \in Keys, PayoutSettles(k) PROVE Solo'
  <2>1. UNCHANGED <<loanStatus, rowLoan, rowStatus, call>> /\ payout[k] = "PENDING"
    BY <1>13 DEF PayoutSettles, db
  <2>2. SoloCalls'
    BY <2>1, <1>s DEF SoloCalls, SoloCall, Key
  <2>3. PaidAreLive' /\ OneLive'
    BY <1>13, <2>1, <1>0, <1>s DEF PayoutSettles, PaidAreLive, OneLive, TypeOK
  <2> QED
    BY <2>2, <2>3, <1>a
<1> QED
  BY <1>1, <1>2, <1>3, <1>4, <1>5, <1>6, <1>7, <1>8, <1>9, <1>10, <1>11, <1>12, <1>13
     DEF MCNext, Next, Step

\* What is proved of Spec holds of the specification with the history variable.
LEMMA HistoryKeepsSpec == MCSpec => Spec
<1>1. MCInit => Init
  BY DEF MCInit
<1>2. [MCNext]_MCVars => [Next]_vars
  BY DEF MCNext, MCVars
<1> QED
  BY <1>1, <1>2, PTL DEF MCSpec, Spec

LEMMA SoloInvariant == MCSpec => [](IInv /\ SoloInv)
<1>1. MCSpec => []IInv
  BY HistoryKeepsSpec, Invariant, PTL
<1> QED
  BY <1>1, InitSolo, NextSolo, PTL DEF MCSpec

\* For any loans, keys and calls that do not overlap, however many of them die and
\* are sent again: no loan is paid out, or on its way to being paid out, twice.
THEOREM OnePayout == MCSpec => []OnePayoutUnlessOverlapped
<1>1. IInv /\ SoloInv => OnePayoutUnlessOverlapped
  BY DEF SoloInv, Solo, PaidAreLive, OneLive, OnePayoutUnlessOverlapped, OnePayoutPerLoan
<1> QED
  BY <1>1, SoloInvariant, PTL

\* For any loans, keys and calls that do not overlap: no step changes a row that is
\* SUCCEEDED or COMPENSATED.
THEOREM FinalStaysFinal == MCSpec => FinalUnlessOverlapped
<1>1. ASSUME IInv, SoloInv, [MCNext]_MCVars
      PROVE  [alone' => \A k \in Keys : rowStatus[k] \in {"SUCCEEDED", "COMPENSATED"} =>
                  rowStatus'[k] = rowStatus[k]]_MCVars
  <2> SUFFICES ASSUME MCNext, alone', NEW k \in Keys, rowStatus[k] \in {"SUCCEEDED", "COMPENSATED"}
               PROVE  rowStatus'[k] = rowStatus[k]
    BY <1>1
  <2>0. TypeOK /\ RowsInv /\ \A c \in Calls : SoloCall(c) /\ CallInv(c)
    BY <1>1 DEF MCNext, IInv, SoloInv, Solo, SoloCalls, CallsInv
  <2>1. CASE UNCHANGED rowStatus
    BY <2>1
  <2>2. ASSUME NEW c \in Calls, NEW s, Key(c) \in Keys, rowStatus' = [rowStatus EXCEPT ![Key(c)] = s],
               rowStatus[Key(c)] \notin {"SUCCEEDED", "COMPENSATED"}
        PROVE  rowStatus'[k] = rowStatus[k]
    BY <2>2, <2>0 DEF TypeOK
  <2> USE DEF At, WithRow, Points
  <2>3. ASSUME NEW c \in Calls, InsertRow(c) PROVE rowStatus'[k] = rowStatus[k]
    <3>1. Key(c) \in Keys
      BY <2>3, <2>0 DEF InsertRow, CallInv
    <3>2. CASE CanInsert(Key(c), call[c].loan)
      <4>1. rowStatus[Key(c)] \notin {"SUCCEEDED", "COMPENSATED"}
        BY <3>1, <3>2, <2>0, NullAssumption DEF CanInsert, RowsInv
      <4> QED
        BY <2>3, <3>1, <3>2, <4>1, <2>2 DEF InsertRow
    <3> QED
      BY <2>3, <3>2, <2>1 DEF InsertRow
  <2>4. ASSUME NEW c \in Calls, RecordApproval(c) \/ RecordPosting(c) \/ Finish(c) \/ RecordCompensation(c)
        PROVE  rowStatus'[k] = rowStatus[k]
    <3>1. Key(c) \in Keys /\ rowStatus[Key(c)] \notin {"SUCCEEDED", "COMPENSATED"}
      BY <2>4, <2>0 DEF RecordApproval, RecordPosting, Finish, RecordCompensation, SoloCall, CallInv
    <3> QED
      BY <2>4, <3>1, <2>1, <2>2 DEF RecordApproval, RecordPosting, Finish, RecordCompensation
  <2> QED
    BY <2>1, <2>3, <2>4
       DEF MCNext, Next, Step, Lookup, ReadSource, ConsumeApproval, PostLedger, SubmitPayout,
           ReverseLedger, Abort, PayoutSettles, db
<1> QED
  BY <1>1, SoloInvariant, PTL DEF MCSpec, FinalUnlessOverlapped

-----------------------------------------------------------------------------
(***************************************************************************)
(* The outbox, for any events, tenants, processes and overlap.             *)
(* The account of duplicates needs to know what is still to come: every    *)
(* batch that has an event claimed, or on its way to the broker, may yet   *)
(* deliver it, so these batches are counted beside the deliveries, and a   *)
(* lease that is still live beside the retries and lapses that pay.        *)
(***************************************************************************)

\* Batches that may yet deliver an event.
Pending(e) == {b \in Batches : e \in rows[b] \/ (at[b] = "confirm" /\ sending[b] = e)}

\* The delivery a row is good for: while its lease is live, and once it is done.
Due(e) == IF status[e] = "PUBLISHED" \/ (status[e] = "PROCESSING" /\ ~expired[e]) THEN 1 ELSE 0

AccountInv ==
    \A e \in Event : deliveries[e] + Cardinality(Pending(e)) <= retries[e] + lapses[e] + Due(e)

BatchInv(b) ==
    /\ at[b] \in {"idle", "connect", "claim"} => rows[b] = {}
    /\ IF at[b] \in {"confirm", "recordPublished", "recordFailed"} THEN sending[b] \in Event
                                                                  ELSE sending[b] = 0
    /\ at[b] = "recordPublished" => deliveries[sending[b]] > 0
    /\ at[b] # "idle" => WorkerOf(b) \in alive
    /\ sending[b] \notin rows[b]

OutboxInv ==
    /\ OutboxTypeOK
    /\ PublishedIsDelivered
    /\ \A b \in Batches : BatchInv(b)
    /\ AccountInv

-----------------------------------------------------------------------------
(* Counting. *)

\* There are finitely many batches.
LEMMA FiniteBatches == IsFiniteSet(Batches)
<1> DEFINE Pairs  == Workers \X Tenants
           Nested == Pairs \X (1..Overlap)
           Flat   == [x \in Nested |-> <<x[1][1], x[1][2], x[2]>>]
<1>1. IsFiniteSet(1..Overlap)
  <2>1. Overlap \in Int
    BY SizesAssumption
  <2>2. QED
    BY <2>1, FS_Interval
<1>2. IsFiniteSet(Pairs)
  BY ProcessesAssumption, FS_Product
<1>3. IsFiniteSet(Nested)
  <2> HIDE DEF Pairs
  <2> QED BY <1>1, <1>2, FS_Product
<1>4. Flat \in Surjection(Nested, Batches)
  <2>1. Flat \in [Nested -> Batches]
    BY DEF Batches
  <2>2. ASSUME NEW b \in Batches PROVE \E x \in Nested : Flat[x] = b
    <3>1. b[1] \in Workers /\ b[2] \in Tenants /\ b[3] \in 1..Overlap /\ b = <<b[1], b[2], b[3]>>
      BY DEF Batches
    <3>2. <<<<b[1], b[2]>>, b[3]>> \in Nested
      BY <3>1
    <3>3. Flat[<<<<b[1], b[2]>>, b[3]>>] = b
      BY <3>1, <3>2
    <3>4. QED
      BY <3>2, <3>3
  <2>3. QED
    BY <2>1, <2>2 DEF Surjection
<1>5. QED
  <2> HIDE DEF Nested, Flat
  <2> QED BY <1>3, <1>4, FS_Surjection

\* A set of batches can be counted, and no part of it is larger.
LEMMA Counted ==
  ASSUME NEW S \in SUBSET Batches, NEW P \in SUBSET S
  PROVE  /\ Cardinality(S) \in Nat /\ Cardinality(P) \in Nat
         /\ Cardinality(P) <= Cardinality(S)
<1>1. IsFiniteSet(S)
  BY FiniteBatches, FS_Subset
<1>2. IsFiniteSet(P) /\ Cardinality(P) <= Cardinality(S)
  BY <1>1, FS_Subset
<1>3. QED
  BY <1>1, <1>2, FS_CardinalityType

\* Two disjoint parts of a set are together no larger.
LEMMA TwoParts ==
  ASSUME NEW S \in SUBSET Batches, NEW P \in SUBSET S, NEW R \in SUBSET S, P \cap R = {}
  PROVE  Cardinality(P) + Cardinality(R) <= Cardinality(S)
<1>1. IsFiniteSet(P) /\ IsFiniteSet(R)
  BY FiniteBatches, FS_Subset
<1>2. Cardinality(P \cup R) = Cardinality(P) + Cardinality(R) - Cardinality({})
  BY <1>1, FS_Union
<1>3. Cardinality(P \cup R) <= Cardinality(S)
  BY Counted
<1>4. Cardinality({}) = 0 /\ Cardinality(P) \in Nat /\ Cardinality(R) \in Nat
  BY FS_EmptySet, Counted
<1>5. QED
  BY <1>2, <1>3, <1>4

\* One batch more makes a set larger by one at most.
LEMMA OneMore ==
  ASSUME NEW S \in SUBSET Batches, NEW b \in Batches, NEW R \in SUBSET (S \cup {b})
  PROVE  Cardinality(R) <= Cardinality(S) + 1
<1>1. IsFiniteSet(S)
  BY FiniteBatches, FS_Subset
<1>2. Cardinality(S \cup {b}) = IF b \in S THEN Cardinality(S) ELSE Cardinality(S) + 1
  BY <1>1, FS_AddElement
<1>3. Cardinality(R) <= Cardinality(S \cup {b})
  BY Counted
<1>4. Cardinality(S) \in Nat /\ Cardinality(R) \in Nat /\ Cardinality(S \cup {b}) \in Nat
  BY Counted
<1>5. QED
  BY <1>2, <1>3, <1>4

LEMMA FaultType == ASSUME OutboxTypeOK, Fault PROVE faults' \in 0..MaxFaults
  BY SizesAssumption DEF OutboxTypeOK, Fault

LEMMA BatchParts ==
  ASSUME NEW b \in Batches
  PROVE  WorkerOf(b) \in Workers /\ Tenant(b) \in Tenants
  BY DEF Batches, WorkerOf, Tenant

LEMMA EventsAre == Event \subseteq Nat /\ 0 \notin Event
  BY SizesAssumption DEF Event

-----------------------------------------------------------------------------
\* The first state.
LEMMA InitOutbox == OutboxInit => OutboxInv
<1> SUFFICES ASSUME OutboxInit PROVE OutboxInv
  OBVIOUS
<1>1. OutboxTypeOK
  BY SizesAssumption, NoWorkerAssumption DEF OutboxInit, OutboxTypeOK, BatchPoints
<1>2. PublishedIsDelivered
  BY DEF OutboxInit, PublishedIsDelivered
<1>3. ASSUME NEW b \in Batches PROVE BatchInv(b)
  BY DEF OutboxInit, BatchInv
<1>4. AccountInv
  <2> SUFFICES ASSUME NEW e \in Event
               PROVE  deliveries[e] + Cardinality(Pending(e)) <= retries[e] + lapses[e] + Due(e)
    BY DEF AccountInv
  <2>1. Pending(e) = {}
    BY DEF OutboxInit, Pending
  <2>2. Cardinality(Pending(e)) = 0
    BY <2>1, FS_EmptySet
  <2>3. QED
    BY <2>2 DEF OutboxInit, Due
<1>5. QED
  BY <1>1, <1>2, <1>3, <1>4 DEF OutboxInv

-----------------------------------------------------------------------------
(* How the account is kept.  In most steps nothing is delivered, nothing   *)
(* new is pending and no credit is lost.                                   *)

Credit(e) == retries[e] + lapses[e] + Due(e)

LEMMA PendingCounted ==
  ASSUME NEW e
  PROVE  Pending(e) \in SUBSET Batches /\ Cardinality(Pending(e)) \in Nat
<1>1. Pending(e) \in SUBSET Batches
  BY DEF Pending
<1>2. QED
  BY <1>1, Counted

LEMMA PendingCountedNext ==
  ASSUME NEW e
  PROVE  Pending(e)' \in SUBSET Batches /\ Cardinality(Pending(e)') \in Nat
<1>1. Pending(e)' \in SUBSET Batches
  BY DEF Pending
<1>2. QED
  BY <1>1, Counted

LEMMA CreditIsNat ==
  ASSUME OutboxTypeOK, NEW e \in Event
  PROVE  Credit(e) \in Nat
  BY DEF Credit, Due, OutboxTypeOK

LEMMA KeptAccount ==
  ASSUME OutboxInv, OutboxTypeOK', deliveries' = deliveries,
         \A e \in Event : Pending(e)' \subseteq Pending(e) /\ Credit(e)' >= Credit(e)
  PROVE  AccountInv'
<1> SUFFICES ASSUME NEW e \in Event
             PROVE  deliveries'[e] + Cardinality(Pending(e)') <= Credit(e)'
  BY DEF AccountInv, Credit
<1>1. Cardinality(Pending(e)') <= Cardinality(Pending(e))
  BY PendingCounted, Counted
<1>2. deliveries[e] \in Nat /\ Credit(e) \in Nat /\ Credit(e)' \in Nat
  <2>1. Credit(e) \in Nat
    BY CreditIsNat DEF OutboxInv
  <2>2. Credit(e)' \in Nat
    BY DEF Credit, Due, OutboxTypeOK
  <2>3. QED
    BY <2>1, <2>2 DEF OutboxInv, OutboxTypeOK
<1>3. deliveries[e] + Cardinality(Pending(e)) <= Credit(e)
  BY DEF OutboxInv, AccountInv, Credit
<1>4. QED
  BY <1>1, <1>2, <1>3, PendingCounted, PendingCountedNext

\* What is delivered was pending, and is no longer.
LEMMA DeliveredAccount ==
  ASSUME OutboxInv, OutboxTypeOK', NEW e \in Event, NEW got \in SUBSET Pending(e),
         deliveries'[e] = deliveries[e] + Cardinality(got),
         Pending(e)' \subseteq Pending(e) \ got, Credit(e)' >= Credit(e)
  PROVE  deliveries'[e] + Cardinality(Pending(e)') <= Credit(e)'
<1>1. Cardinality(got) + Cardinality(Pending(e)') <= Cardinality(Pending(e))
  BY PendingCounted, TwoParts
<1>2. deliveries[e] \in Nat /\ Credit(e) \in Nat /\ Credit(e)' \in Nat
  <2>1. Credit(e) \in Nat
    BY CreditIsNat DEF OutboxInv
  <2>2. Credit(e)' \in Nat
    BY DEF Credit, Due, OutboxTypeOK
  <2>3. QED
    BY <2>1, <2>2 DEF OutboxInv, OutboxTypeOK
<1>3. deliveries[e] + Cardinality(Pending(e)) <= Credit(e)
  BY DEF OutboxInv, AccountInv, Credit
<1>4. Cardinality(got) \in Nat
  BY PendingCounted, Counted
<1>5. QED
  BY <1>1, <1>2, <1>3, <1>4, PendingCounted, PendingCountedNext

-----------------------------------------------------------------------------
(* The table's steps. *)

LEMMA WriteStep == ASSUME OutboxInv, NEW e \in Event, Write(e) PROVE OutboxInv'
<1>1. OutboxTypeOK'
  BY DEF OutboxInv, OutboxTypeOK, Write, worker
<1>2. PublishedIsDelivered'
  BY DEF OutboxInv, OutboxTypeOK, PublishedIsDelivered, Write
<1>3. ASSUME NEW b \in Batches PROVE BatchInv(b)'
  BY DEF OutboxInv, BatchInv, Write, worker
<1>4. AccountInv'
  <2>1. ASSUME NEW f \in Event PROVE Pending(f)' \subseteq Pending(f) /\ Credit(f)' >= Credit(f)
    BY DEF OutboxInv, OutboxTypeOK, Write, Pending, Credit, Due
  <2>2. QED
    BY <1>1, <2>1, KeptAccount DEF Write
<1>5. QED
  BY <1>1, <1>2, <1>3, <1>4 DEF OutboxInv

LEMMA LeaseExpiresStep == ASSUME OutboxInv, NEW e \in Event, LeaseExpires(e) PROVE OutboxInv'
<1>1. OutboxTypeOK'
  BY SizesAssumption DEF OutboxInv, OutboxTypeOK, LeaseExpires, worker, Fault
<1>2. PublishedIsDelivered'
  BY DEF OutboxInv, PublishedIsDelivered, LeaseExpires
<1>3. ASSUME NEW b \in Batches PROVE BatchInv(b)'
  BY DEF OutboxInv, BatchInv, LeaseExpires, worker
<1>4. AccountInv'
  <2>1. ASSUME NEW f \in Event PROVE Pending(f)' \subseteq Pending(f) /\ Credit(f)' >= Credit(f)
    BY DEF OutboxInv, OutboxTypeOK, LeaseExpires, Pending, Credit, Due
  <2>2. QED
    BY <1>1, <2>1, KeptAccount DEF LeaseExpires
<1>5. QED
  BY <1>1, <1>2, <1>3, <1>4 DEF OutboxInv

LEMMA BackoffEndsStep == ASSUME OutboxInv, NEW e \in Event, BackoffEnds(e) PROVE OutboxInv'
<1>1. OutboxTypeOK'
  BY DEF OutboxInv, OutboxTypeOK, BackoffEnds, worker
<1>2. PublishedIsDelivered'
  BY DEF OutboxInv, PublishedIsDelivered, BackoffEnds
<1>3. ASSUME NEW b \in Batches PROVE BatchInv(b)'
  BY DEF OutboxInv, BatchInv, BackoffEnds, worker
<1>4. AccountInv'
  <2>1. ASSUME NEW f \in Event PROVE Pending(f)' \subseteq Pending(f) /\ Credit(f)' >= Credit(f)
    BY DEF OutboxInv, OutboxTypeOK, BackoffEnds, Pending, Credit, Due
  <2>2. QED
    BY <1>1, <2>1, KeptAccount DEF BackoffEnds
<1>5. QED
  BY <1>1, <1>2, <1>3, <1>4 DEF OutboxInv

-----------------------------------------------------------------------------
(* The steps of a batch. *)

LEMMA PollStep == ASSUME OutboxInv, NEW w \in Workers, Poll(w) PROVE OutboxInv'
<1> PICK started \in SUBSET {b \in Batches : WorkerOf(b) = w} :
       /\ \A b \in started : at[b] = "idle"
       /\ round' = [round EXCEPT ![w] = started]
       /\ at' = [b \in Batches |-> IF b \in started THEN "connect" ELSE at[b]]
  <2> DEFINE chosen == {b \in Batches : WorkerOf(b) = w /\ b[3] \in Free(w, Tenant(b))}
  <2>1. ASSUME NEW b \in chosen PROVE at[b] = "idle"
    <3>1. b = <<w, Tenant(b), b[3]>>
      BY DEF Batches, WorkerOf, Tenant
    <3>2. at[<<w, Tenant(b), b[3]>>] = "idle"
      BY DEF Free
    <3>3. QED
      BY <3>1, <3>2
  <2>2. /\ round' = [round EXCEPT ![w] = chosen]
        /\ at' = [b \in Batches |-> IF b \in chosen THEN "connect" ELSE at[b]]
    BY DEF Poll
  <2>3. chosen \in SUBSET {b \in Batches : WorkerOf(b) = w}
    OBVIOUS
  <2> HIDE DEF chosen
  <2>4. QED
    BY <2>1, <2>2, <2>3
<1>1. OutboxTypeOK'
  <2>1. round' \in [Workers -> SUBSET Batches]
    BY DEF OutboxInv, OutboxTypeOK
  <2>2. at' \in [Batches -> BatchPoints]
    BY DEF OutboxInv, OutboxTypeOK, BatchPoints
  <2>3. QED
    BY <2>1, <2>2 DEF OutboxInv, OutboxTypeOK, Poll, table
<1>2. PublishedIsDelivered'
  BY DEF OutboxInv, PublishedIsDelivered, Poll, table
<1>3. ASSUME NEW b \in Batches PROVE BatchInv(b)'
  BY DEF OutboxInv, BatchInv, Poll
<1>4. AccountInv'
  <2>1. ASSUME NEW f \in Event PROVE Pending(f)' \subseteq Pending(f) /\ Credit(f)' >= Credit(f)
    <3>1. Credit(f)' = Credit(f) /\ Credit(f) \in Nat
      BY CreditIsNat DEF OutboxInv, Poll, Credit, Due, table
    <3>2. Pending(f)' \subseteq Pending(f)
      BY DEF Poll, Pending
    <3>3. QED
      BY <3>1, <3>2
  <2>2. QED
    BY <1>1, <2>1, KeptAccount DEF Poll
<1>5. QED
  BY <1>1, <1>2, <1>3, <1>4 DEF OutboxInv

\* A batch that ends, and the poll it belongs to.
LEMMA CloseType ==
  ASSUME OutboxTypeOK, NEW b \in Batches, Resolve(b) \/ Reject(b)
  PROVE  /\ at' \in [Batches -> BatchPoints] /\ rows' \in [Batches -> SUBSET Event]
         /\ sending' \in [Batches -> Event \cup {0}]
         /\ round' \in [Workers -> SUBSET Batches]
         /\ at'[b] = "idle" /\ rows'[b] = {} /\ sending'[b] = 0
         /\ \A c \in Batches \ {b} : at'[c] = at[c] /\ rows'[c] = rows[c] /\ sending'[c] = sending[c]
  BY BatchParts, SMTT(30) DEF OutboxTypeOK, Resolve, Reject, Close, GoesOn, BatchPoints

LEMMA ConnectStep == ASSUME OutboxInv, NEW b \in Batches, Connect(b) PROVE OutboxInv'
<1>1. CASE /\ at[b] = "connect" /\ channel' = channel \cup {WorkerOf(b)} /\ GoesOn(b, "claim")
           /\ UNCHANGED <<round, rows, sending, faults>>
           /\ UNCHANGED <<table, deliveries, alive>>
  <2>1. OutboxTypeOK'
    <3>1. at' \in [Batches -> BatchPoints]
      BY <1>1 DEF OutboxInv, OutboxTypeOK, GoesOn, BatchPoints
    <3>2. channel' \subseteq alive'
      BY <1>1 DEF OutboxInv, OutboxTypeOK, BatchInv
    <3>3. QED
      BY <1>1, <3>1, <3>2 DEF OutboxInv, OutboxTypeOK, table
  <2>2. PublishedIsDelivered'
    BY <1>1 DEF OutboxInv, PublishedIsDelivered, table
  <2>3. ASSUME NEW c \in Batches PROVE BatchInv(c)'
    BY <1>1 DEF OutboxInv, OutboxTypeOK, BatchInv, GoesOn
  <2>4. AccountInv'
    <3>1. ASSUME NEW f \in Event PROVE Pending(f)' \subseteq Pending(f) /\ Credit(f)' >= Credit(f)
      <4>1. Credit(f)' = Credit(f) /\ Credit(f) \in Nat
        BY <1>1, CreditIsNat DEF OutboxInv, Credit, Due, table
      <4>2. Pending(f)' \subseteq Pending(f)
        BY <1>1 DEF OutboxInv, OutboxTypeOK, GoesOn, Pending
      <4>3. QED
        BY <4>1, <4>2
    <3>2. QED
      BY <1>1, <2>1, <3>1, KeptAccount
  <2>5. QED
    BY <2>1, <2>2, <2>3, <2>4 DEF OutboxInv
<1>2. CASE /\ at[b] = "connect" /\ Fault /\ Reject(b) /\ UNCHANGED channel
           /\ UNCHANGED <<table, deliveries, alive>>
  <2>1. OutboxTypeOK'
    BY <1>2, CloseType, FaultType DEF OutboxInv, OutboxTypeOK, table
  <2>2. PublishedIsDelivered'
    BY <1>2 DEF OutboxInv, PublishedIsDelivered, table
  <2>3. ASSUME NEW c \in Batches PROVE BatchInv(c)'
    BY <1>2, CloseType, EventsAre DEF OutboxInv, BatchInv
  <2>4. AccountInv'
    <3>1. ASSUME NEW f \in Event PROVE Pending(f)' \subseteq Pending(f) /\ Credit(f)' >= Credit(f)
      <4>1. Credit(f)' = Credit(f) /\ Credit(f) \in Nat
        BY <1>2, CreditIsNat DEF OutboxInv, Credit, Due, table
      <4>2. Pending(f)' \subseteq Pending(f)
        BY <1>2, CloseType DEF OutboxInv, Pending
      <4>3. QED
        BY <4>1, <4>2
    <3>2. QED
      BY <1>2, <2>1, <3>1, KeptAccount
  <2>5. QED
    BY <2>1, <2>2, <2>3, <2>4 DEF OutboxInv
<1>3. QED
  BY <1>1, <1>2 DEF Connect

LEMMA ClaimStep == ASSUME OutboxInv, NEW b \in Batches, Claim(b) PROVE OutboxInv'
<1> PICK leased \in SUBSET Claimable(Tenant(b)) :
       /\ status' = [e \in Event |-> IF e \in leased THEN "PROCESSING"
                                     ELSE IF e \in Lapsed(Tenant(b)) THEN "PENDING" ELSE status[e]]
       /\ owner' = [e \in Event |-> IF e \in leased THEN WorkerOf(b)
                                    ELSE IF e \in Lapsed(Tenant(b)) THEN NoWorker ELSE owner[e]]
       /\ expired' = [e \in Event |-> expired[e] /\ e \notin leased \cup Lapsed(Tenant(b))]
       /\ \/ /\ rows' = [rows EXCEPT ![b] = leased] /\ GoesOn(b, "publish")
             /\ UNCHANGED <<round, sending>>
          \/ leased = {} /\ Resolve(b)
  <2>1. Oldest(Claimable(Tenant(b))) \in SUBSET Claimable(Tenant(b))
    BY DEF Oldest
  <2>2. QED
    BY <2>1 DEF Claim
<1>1. at[b] = "claim" /\ UNCHANGED <<available, retries, lapses, deliveries, alive, channel, faults>>
  BY DEF Claim
<1>2. leased \subseteq Event /\ \A e \in leased : status[e] # "PUBLISHED" /\ Due(e) = 0
  BY DEF Claimable, Lapsed, Due
<1>3. /\ at' \in [Batches -> BatchPoints] /\ rows' \in [Batches -> SUBSET Event]
      /\ sending' \in [Batches -> Event \cup {0}] /\ round' \in [Workers -> SUBSET Batches]
      /\ at'[b] \in {"publish", "idle"} /\ rows'[b] = leased
      /\ \A c \in Batches \ {b} : at'[c] = at[c] /\ rows'[c] = rows[c] /\ sending'[c] = sending[c]
  <2>1. CASE Resolve(b) /\ leased = {}
    BY <2>1, CloseType DEF OutboxInv
  <2>2. CASE rows' = [rows EXCEPT ![b] = leased] /\ GoesOn(b, "publish") /\ UNCHANGED <<round, sending>>
    BY <1>2, <2>2 DEF OutboxInv, OutboxTypeOK, GoesOn, BatchPoints
  <2>3. QED
    BY <2>1, <2>2
<1>4. OutboxTypeOK'
  <2>1. status' \in [Event -> {"NONE", "PENDING", "PROCESSING", "PUBLISHED", "FAILED"}]
    BY DEF OutboxInv, OutboxTypeOK
  <2>2. owner' \in [Event -> Workers \cup {NoWorker}]
    BY BatchParts DEF OutboxInv, OutboxTypeOK
  <2>3. ASSUME NEW e \in Event PROVE owner'[e] # NoWorker <=> status'[e] = "PROCESSING"
    BY BatchParts, NoWorkerAssumption DEF OutboxInv, OutboxTypeOK
  <2>4. expired' \in [Event -> BOOLEAN]
    <3>1. ASSUME NEW e \in Event PROVE (expired[e] /\ e \notin leased \cup Lapsed(Tenant(b))) \in BOOLEAN
      OBVIOUS
    <3>2. QED
      BY <3>1
  <2>5. QED
    BY <1>1, <1>3, <2>1, <2>2, <2>3, <2>4 DEF OutboxInv, OutboxTypeOK
<1>5. PublishedIsDelivered'
  BY <1>1 DEF OutboxInv, PublishedIsDelivered
<1>6. ASSUME NEW c \in Batches PROVE BatchInv(c)'
  <2>1. CASE c # b
    BY <1>1, <1>3, <2>1 DEF OutboxInv, BatchInv
  <2>2. CASE c = b /\ Resolve(b)
    BY <1>1, <2>2, CloseType, EventsAre DEF OutboxInv, BatchInv
  <2>3. CASE c = b /\ sending' = sending /\ at'[b] = "publish"
    BY <1>1, <1>2, <1>3, <2>3, EventsAre DEF OutboxInv, BatchInv
  <2>4. QED
    BY <2>1, <2>2, <2>3 DEF GoesOn, OutboxInv, OutboxTypeOK
<1>7. AccountInv'
  <2> SUFFICES ASSUME NEW e \in Event
               PROVE  deliveries[e] + Cardinality(Pending(e)') <= Credit(e)'
    BY <1>1 DEF AccountInv, Credit
  <2>1. Credit(e)' = retries[e] + lapses[e] + Due(e)'
    BY <1>1 DEF Credit
  <2>2. deliveries[e] + Cardinality(Pending(e)) <= retries[e] + lapses[e] + Due(e)
    BY DEF OutboxInv, AccountInv
  <2>3. deliveries[e] \in Nat /\ retries[e] \in Nat /\ lapses[e] \in Nat
    BY DEF OutboxInv, OutboxTypeOK
  <2>4. CASE e \in leased
    <3>1. Due(e) = 0 /\ Due(e)' = 1
      BY <1>2, <2>4 DEF Due
    <3>2. Pending(e)' \in SUBSET (Pending(e) \cup {b})
      BY <1>3 DEF Pending
    <3>3. Cardinality(Pending(e)') <= Cardinality(Pending(e)) + 1
      BY <3>2, OneMore, PendingCounted
    <3>4. QED
      BY <2>1, <2>2, <2>3, <3>1, <3>3, PendingCounted, PendingCountedNext
  <2>5. CASE e \notin leased
    <3>1. Due(e)' = Due(e) /\ Due(e) \in Nat
      BY <2>5 DEF Due, Lapsed
    <3>2. Pending(e)' \subseteq Pending(e)
      BY <1>3, <2>5 DEF Pending
    <3>3. Cardinality(Pending(e)') <= Cardinality(Pending(e))
      BY <3>2, PendingCounted, Counted
    <3>4. QED
      BY <2>1, <2>2, <2>3, <3>1, <3>3, PendingCounted, PendingCountedNext
  <2>6. QED
    BY <2>4, <2>5
<1>8. QED
  BY <1>4, <1>5, <1>6, <1>7 DEF OutboxInv
LEMMA PublishStep == ASSUME OutboxInv, NEW b \in Batches, Publish(b) PROVE OutboxInv'
<1>1. at[b] = "publish" /\ UNCHANGED <<table, deliveries, alive, channel, faults>>
  BY DEF Publish
<1>2. CASE Reject(b)
  <2>1. OutboxTypeOK'
    BY <1>1, <1>2, CloseType DEF OutboxInv, OutboxTypeOK, table
  <2>2. PublishedIsDelivered'
    BY <1>1 DEF OutboxInv, PublishedIsDelivered, table
  <2>3. ASSUME NEW c \in Batches PROVE BatchInv(c)'
    BY <1>1, <1>2, CloseType, EventsAre DEF OutboxInv, BatchInv
  <2>4. AccountInv'
    <3>1. ASSUME NEW f \in Event PROVE Pending(f)' \subseteq Pending(f) /\ Credit(f)' >= Credit(f)
      <4>1. Credit(f)' = Credit(f) /\ Credit(f) \in Nat
        BY <1>1, CreditIsNat DEF OutboxInv, Credit, Due, table
      <4>2. Pending(f)' \subseteq Pending(f)
        BY <1>2, CloseType DEF OutboxInv, Pending
      <4>3. QED
        BY <4>1, <4>2
    <3>2. QED
      BY <1>1, <2>1, <3>1, KeptAccount
  <2>5. QED
    BY <2>1, <2>2, <2>3, <2>4 DEF OutboxInv
<1>3. ASSUME NEW e \in rows[b], GoesOn(b, "confirm"), UNCHANGED round,
             sending' = [sending EXCEPT ![b] = e], rows' = [rows EXCEPT ![b] = @ \ {e}]
      PROVE  OutboxInv'
  <2>1. e \in Event
    BY <1>3 DEF OutboxInv, OutboxTypeOK
  <2>2. /\ at' \in [Batches -> BatchPoints] /\ rows' \in [Batches -> SUBSET Event]
        /\ sending' \in [Batches -> Event \cup {0}]
        /\ at'[b] = "confirm" /\ rows'[b] = rows[b] \ {e} /\ sending'[b] = e
        /\ \A c \in Batches \ {b} : at'[c] = at[c] /\ rows'[c] = rows[c] /\ sending'[c] = sending[c]
    BY <1>3, <2>1 DEF OutboxInv, OutboxTypeOK, GoesOn, BatchPoints
  <2>3. OutboxTypeOK'
    BY <1>1, <1>3, <2>2 DEF OutboxInv, OutboxTypeOK, table
  <2>4. PublishedIsDelivered'
    BY <1>1 DEF OutboxInv, PublishedIsDelivered, table
  <2>5. ASSUME NEW c \in Batches PROVE BatchInv(c)'
    BY <1>1, <2>1, <2>2 DEF OutboxInv, BatchInv
  <2>6. AccountInv'
    <3>1. ASSUME NEW f \in Event PROVE Pending(f)' \subseteq Pending(f) /\ Credit(f)' >= Credit(f)
      <4>1. Credit(f)' = Credit(f) /\ Credit(f) \in Nat
        BY <1>1, CreditIsNat DEF OutboxInv, Credit, Due, table
      <4>2. Pending(f)' \subseteq Pending(f)
        BY <1>3, <2>2 DEF Pending
      <4>3. QED
        BY <4>1, <4>2
    <3>2. QED
      BY <1>1, <2>3, <3>1, KeptAccount
  <2>7. QED
    BY <2>3, <2>4, <2>5, <2>6 DEF OutboxInv
<1>4. QED
  BY <1>2, <1>3 DEF Publish

LEMMA ConfirmStep == ASSUME OutboxInv, NEW b \in Batches, Confirm(b) PROVE OutboxInv'
<1> PICK confirmed \in BOOLEAN, received \in BOOLEAN :
       /\ confirmed => received
       /\ deliveries' = IF received THEN [deliveries EXCEPT ![sending[b]] = @ + 1] ELSE deliveries
       /\ GoesOn(b, AfterConfirm(confirmed))
       /\ IF confirmed THEN UNCHANGED faults ELSE Fault
  BY DEF Confirm
<1>1. at[b] = "confirm" /\ UNCHANGED <<table, worker, rows, sending>>
  BY DEF Confirm
<1>2. sending[b] \in Event /\ sending[b] \notin rows[b]
  BY <1>1 DEF OutboxInv, BatchInv
<1>3. /\ at' \in [Batches -> BatchPoints]
      /\ at'[b] = IF confirmed THEN "recordPublished" ELSE "recordFailed"
      /\ \A c \in Batches \ {b} : at'[c] = at[c]
  BY DEF OutboxInv, OutboxTypeOK, GoesOn, AfterConfirm, BatchPoints
<1>4. /\ deliveries' \in [Event -> Nat]
      /\ \A e \in Event : deliveries'[e] =
            IF received /\ e = sending[b] THEN deliveries[e] + 1 ELSE deliveries[e]
  BY <1>2 DEF OutboxInv, OutboxTypeOK
<1>5. OutboxTypeOK'
  <2>1. faults' \in 0..MaxFaults
    BY FaultType DEF OutboxInv, OutboxTypeOK
  <2>2. QED
    BY <1>1, <1>3, <1>4, <2>1 DEF OutboxInv, OutboxTypeOK, table, worker
<1>6. \A e \in Event : deliveries'[e] >= deliveries[e] /\ deliveries[e] \in Nat
  BY <1>4 DEF OutboxInv, OutboxTypeOK
<1>7. PublishedIsDelivered'
  BY <1>1, <1>4, <1>6 DEF OutboxInv, PublishedIsDelivered, table
<1>8. ASSUME NEW c \in Batches PROVE BatchInv(c)'
  <2>1. CASE c # b
    <3>1. at'[c] = at[c]
      BY <1>3, <2>1
    <3>2. sending[c] \in Event /\ deliveries[sending[c]] > 0 => deliveries'[sending[c]] > 0
      BY <1>4, <1>6
    <3>3. QED
      BY <1>1, <3>1, <3>2 DEF OutboxInv, BatchInv, worker
  <2>2. CASE c = b
    <3>1. confirmed => deliveries'[sending[b]] > 0
      BY <1>2, <1>4, <1>6
    <3>2. QED
      BY <1>1, <1>2, <1>3, <2>2, <3>1 DEF OutboxInv, BatchInv, worker
  <2>3. QED
    BY <2>1, <2>2
<1>9. AccountInv'
  <2> SUFFICES ASSUME NEW e \in Event
               PROVE  deliveries'[e] + Cardinality(Pending(e)') <= Credit(e)'
    BY DEF AccountInv, Credit
  <2> DEFINE got == IF received /\ e = sending[b] THEN {b} ELSE {}
  <2>1. Credit(e)' = Credit(e) /\ Credit(e) \in Nat
    BY <1>1, CreditIsNat DEF OutboxInv, Credit, Due, table
  <2>2. got \in SUBSET Pending(e)
    BY <1>1 DEF Pending
  <2>3. deliveries'[e] = deliveries[e] + Cardinality(got)
    <3>1. Cardinality({b}) = 1 /\ Cardinality({}) = 0
      BY FS_Singleton, FS_EmptySet
    <3>2. CASE received /\ e = sending[b]
      <4>1. Cardinality(got) = 1
        BY <3>1, <3>2
      <4>2. QED
        BY <1>4, <3>2, <4>1
    <3>3. CASE ~(received /\ e = sending[b])
      <4>1. Cardinality(got) = 0
        BY <3>1, <3>3
      <4>2. QED
        BY <1>4, <1>6, <3>3, <4>1
    <3>4. QED
      BY <3>2, <3>3
  <2>4. Pending(e)' \subseteq Pending(e) \ got
    BY <1>1, <1>2, <1>3 DEF Pending
  <2> HIDE DEF got
  <2>5. QED
    BY <1>5, <2>1, <2>2, <2>3, <2>4, DeliveredAccount
<1>10. QED
  BY <1>5, <1>7, <1>8, <1>9 DEF OutboxInv

\* What a batch's update does to its row, if it still may.
LEMMA MarkEffect ==
  ASSUME OutboxInv, NEW b \in Batches, sending[b] \in Event,
         NEW s \in {"PUBLISHED", "FAILED"}, Mark(b, s)
  PROVE  /\ status' \in [Event -> {"NONE", "PENDING", "PROCESSING", "PUBLISHED", "FAILED"}]
         /\ owner' \in [Event -> Workers \cup {NoWorker}]
         /\ expired' \in [Event -> BOOLEAN]
         /\ \A e \in Event : owner'[e] # NoWorker <=> status'[e] = "PROCESSING"
         /\ \A e \in Event : IF e = sending[b] /\ MayMark(b)
                             THEN status'[e] = s /\ status[e] = "PROCESSING"
                             ELSE status'[e] = status[e] /\ expired'[e] = expired[e]
<1>1. CASE MayMark(b)
  BY <1>1 DEF Mark, MayMark, OutboxInv, OutboxTypeOK
<1>2. CASE ~MayMark(b)
  BY <1>2 DEF Mark, OutboxInv, OutboxTypeOK
<1>3. QED
  BY <1>1, <1>2

LEMMA RecordPublishedStep == ASSUME OutboxInv, NEW b \in Batches, RecordPublished(b) PROVE OutboxInv'
<1>1. /\ at[b] = "recordPublished" /\ sending[b] \in Event /\ deliveries[sending[b]] > 0
      /\ UNCHANGED <<available, retries, lapses, deliveries, alive, channel>>
  BY DEF RecordPublished, OutboxInv, BatchInv
<1>2. CASE /\ Mark(b, "PUBLISHED") /\ UNCHANGED faults
           /\ \/ /\ GoesOn(b, "publish") /\ sending' = [sending EXCEPT ![b] = 0]
                 /\ UNCHANGED <<round, rows>>
              \/ rows[b] = {} /\ Resolve(b)
  <2>1. /\ at' \in [Batches -> BatchPoints] /\ rows' \in [Batches -> SUBSET Event]
        /\ sending' \in [Batches -> Event \cup {0}] /\ round' \in [Workers -> SUBSET Batches]
        /\ at'[b] \in {"publish", "idle"} /\ (at'[b] = "idle" => rows'[b] = {})
        /\ rows'[b] = rows[b] /\ sending'[b] = 0
        /\ \A c \in Batches \ {b} : at'[c] = at[c] /\ rows'[c] = rows[c] /\ sending'[c] = sending[c]
    <3>1. CASE rows[b] = {} /\ Resolve(b)
      BY <3>1, CloseType DEF OutboxInv
    <3>2. CASE /\ GoesOn(b, "publish") /\ sending' = [sending EXCEPT ![b] = 0]
               /\ UNCHANGED <<round, rows>>
      BY <3>2 DEF OutboxInv, OutboxTypeOK, GoesOn, BatchPoints
    <3>3. QED
      BY <1>2, <3>1, <3>2
  <2>2. /\ status' \in [Event -> {"NONE", "PENDING", "PROCESSING", "PUBLISHED", "FAILED"}]
        /\ owner' \in [Event -> Workers \cup {NoWorker}]
        /\ expired' \in [Event -> BOOLEAN]
        /\ \A e \in Event : owner'[e] # NoWorker <=> status'[e] = "PROCESSING"
        /\ \A e \in Event : IF e = sending[b] /\ MayMark(b)
                            THEN status'[e] = "PUBLISHED" /\ status[e] = "PROCESSING"
                            ELSE status'[e] = status[e] /\ expired'[e] = expired[e]
    BY <1>1, <1>2, MarkEffect
  <2>3. OutboxTypeOK'
    BY <1>1, <1>2, <2>1, <2>2 DEF OutboxInv, OutboxTypeOK
  <2>4. PublishedIsDelivered'
    BY <1>1, <2>2 DEF OutboxInv, PublishedIsDelivered
  <2>5. ASSUME NEW c \in Batches PROVE BatchInv(c)'
    BY <1>1, <2>1, EventsAre DEF OutboxInv, OutboxTypeOK, BatchInv
  <2>6. AccountInv'
    <3>1. ASSUME NEW f \in Event PROVE Pending(f)' \subseteq Pending(f) /\ Credit(f)' >= Credit(f)
      <4>1. Due(f)' >= Due(f)
        BY <2>2 DEF Due
      <4>2. Due(f)' \in Nat /\ Due(f) \in Nat /\ retries[f] \in Nat /\ lapses[f] \in Nat
        BY DEF Due, OutboxInv, OutboxTypeOK
      <4>3. Credit(f)' >= Credit(f)
        BY <1>1, <4>1, <4>2 DEF Credit
      <4>4. Pending(f)' \subseteq Pending(f)
        BY <2>1 DEF Pending
      <4>5. QED
        BY <4>3, <4>4
    <3>2. QED
      BY <1>1, <2>3, <3>1, KeptAccount
  <2>7. QED
    BY <2>3, <2>4, <2>5, <2>6 DEF OutboxInv
<1>3. CASE /\ Fault /\ GoesOn(b, "recordFailed")
           /\ UNCHANGED <<status, owner, expired, round, rows, sending>>
  <2>1. /\ at' \in [Batches -> BatchPoints] /\ at'[b] = "recordFailed"
        /\ \A c \in Batches \ {b} : at'[c] = at[c]
    BY <1>3 DEF OutboxInv, OutboxTypeOK, GoesOn, BatchPoints
  <2>2. OutboxTypeOK'
    BY <1>1, <1>3, <2>1, FaultType DEF OutboxInv, OutboxTypeOK
  <2>3. PublishedIsDelivered'
    BY <1>1, <1>3 DEF OutboxInv, PublishedIsDelivered
  <2>4. ASSUME NEW c \in Batches PROVE BatchInv(c)'
    BY <1>1, <1>3, <2>1 DEF OutboxInv, BatchInv
  <2>5. AccountInv'
    <3>1. ASSUME NEW f \in Event PROVE Pending(f)' \subseteq Pending(f) /\ Credit(f)' >= Credit(f)
      <4>1. Credit(f)' = Credit(f) /\ Credit(f) \in Nat
        BY <1>1, <1>3, CreditIsNat DEF OutboxInv, Credit, Due
      <4>2. Pending(f)' \subseteq Pending(f)
        BY <1>3, <2>1 DEF Pending
      <4>3. QED
        BY <4>1, <4>2
    <3>2. QED
      BY <1>1, <2>2, <3>1, KeptAccount
  <2>6. QED
    BY <2>2, <2>3, <2>4, <2>5 DEF OutboxInv
<1>4. QED
  BY <1>2, <1>3 DEF RecordPublished

LEMMA RecordFailedStep == ASSUME OutboxInv, NEW b \in Batches, RecordFailed(b) PROVE OutboxInv'
<1>1. at[b] = "recordFailed" /\ sending[b] \in Event /\ UNCHANGED <<deliveries, alive, channel>>
  BY DEF RecordFailed, OutboxInv, BatchInv
<1>2. /\ at' \in [Batches -> BatchPoints] /\ rows' \in [Batches -> SUBSET Event]
      /\ sending' \in [Batches -> Event \cup {0}] /\ round' \in [Workers -> SUBSET Batches]
      /\ at'[b] = "idle" /\ rows'[b] = {} /\ sending'[b] = 0
      /\ \A c \in Batches \ {b} : at'[c] = at[c] /\ rows'[c] = rows[c] /\ sending'[c] = sending[c]
  BY CloseType DEF RecordFailed, OutboxInv
<1>3. ASSUME NEW c \in Batches PROVE BatchInv(c)'
  BY <1>1, <1>2, EventsAre DEF OutboxInv, BatchInv
<1>4. ASSUME NEW f \in Event PROVE Pending(f)' \subseteq Pending(f)
  BY <1>2 DEF Pending
<1>5. CASE /\ Mark(b, "FAILED")
           /\ available' = [available EXCEPT ![sending[b]] = @ /\ ~MayMark(b)]
           /\ retries' = [retries EXCEPT ![sending[b]] = IF MayMark(b) THEN @ + 1 ELSE @]
           /\ UNCHANGED <<lapses, faults>>
  <2>1. /\ status' \in [Event -> {"NONE", "PENDING", "PROCESSING", "PUBLISHED", "FAILED"}]
        /\ owner' \in [Event -> Workers \cup {NoWorker}]
        /\ expired' \in [Event -> BOOLEAN]
        /\ \A e \in Event : owner'[e] # NoWorker <=> status'[e] = "PROCESSING"
        /\ \A e \in Event : IF e = sending[b] /\ MayMark(b)
                            THEN status'[e] = "FAILED" /\ status[e] = "PROCESSING"
                            ELSE status'[e] = status[e] /\ expired'[e] = expired[e]
    BY <1>1, <1>5, MarkEffect
  <2>2. /\ retries' \in [Event -> Nat]
        /\ \A e \in Event : retries'[e] = IF e = sending[b] /\ MayMark(b) THEN retries[e] + 1
                                                                          ELSE retries[e]
    BY <1>1, <1>5 DEF OutboxInv, OutboxTypeOK
  <2>3. available' \in [Event -> BOOLEAN]
    <3>1. (available[sending[b]] /\ ~MayMark(b)) \in BOOLEAN
      OBVIOUS
    <3>2. QED
      BY <1>5, <3>1 DEF OutboxInv, OutboxTypeOK
  <2>4. OutboxTypeOK'
    BY <1>1, <1>2, <1>5, <2>1, <2>2, <2>3 DEF OutboxInv, OutboxTypeOK
  <2>5. PublishedIsDelivered'
    BY <1>1, <2>1 DEF OutboxInv, PublishedIsDelivered
  <2>6. ASSUME NEW f \in Event PROVE Credit(f)' >= Credit(f)
    <3>1. Due(f)' \in {0, 1} /\ Due(f) \in {0, 1} /\ retries[f] \in Nat /\ lapses[f] \in Nat
      BY DEF Due, OutboxInv, OutboxTypeOK
    <3>2. f # sending[b] \/ ~MayMark(b) => Due(f)' = Due(f)
      BY <2>1 DEF Due
    <3>3. QED
      BY <1>5, <2>2, <3>1, <3>2 DEF Credit
  <2>7. AccountInv'
    BY <1>1, <1>4, <2>4, <2>6, KeptAccount
  <2>8. QED
    BY <1>3, <2>4, <2>5, <2>7 DEF OutboxInv
<1>6. CASE Fault /\ UNCHANGED table
  <2>1. OutboxTypeOK'
    BY <1>1, <1>2, <1>6, FaultType DEF OutboxInv, OutboxTypeOK, table
  <2>2. PublishedIsDelivered'
    BY <1>1, <1>6 DEF OutboxInv, PublishedIsDelivered, table
  <2>3. ASSUME NEW f \in Event PROVE Credit(f)' >= Credit(f)
    <3>1. Credit(f)' = Credit(f) /\ Credit(f) \in Nat
      BY <1>6, CreditIsNat DEF OutboxInv, Credit, Due, table
    <3>2. QED
      BY <3>1
  <2>4. AccountInv'
    BY <1>1, <1>4, <2>1, <2>3, KeptAccount
  <2>5. QED
    BY <1>3, <2>1, <2>2, <2>4 DEF OutboxInv
<1>7. QED
  BY <1>5, <1>6 DEF RecordFailed

-----------------------------------------------------------------------------
(* The steps that cut a worker off: each message it waits on may have got  *)
(* there, and none of its batches waits any longer.                        *)

LEMMA CutOff ==
  ASSUME OutboxInv, NEW w \in Workers, SomeReceived(w)
  PROVE  /\ deliveries' \in [Event -> Nat]
         /\ \A e \in Event : deliveries'[e] >= deliveries[e]
<1> PICK got \in SUBSET {b \in Batches : WorkerOf(b) = w /\ at[b] = "confirm"} :
       deliveries' = [e \in Event |-> deliveries[e] + Cardinality({b \in got : sending[b] = e})]
  BY DEF SomeReceived
<1>1. ASSUME NEW e \in Event PROVE Cardinality({b \in got : sending[b] = e}) \in Nat
  BY Counted
<1>2. ASSUME NEW e \in Event PROVE deliveries[e] \in Nat
  BY DEF OutboxInv, OutboxTypeOK
<1>3. QED
  BY <1>1, <1>2

LEMMA CutOffAccount ==
  ASSUME OutboxInv, OutboxTypeOK', NEW w \in Workers, SomeReceived(w), UNCHANGED table,
         \A b \in Batches : WorkerOf(b) = w /\ at[b] = "confirm" => at'[b] # "confirm",
         \A b \in Batches : at'[b] = "confirm" => at[b] = "confirm" /\ sending'[b] = sending[b],
         \A b \in Batches : rows'[b] \subseteq rows[b]
  PROVE  AccountInv'
<1> PICK got \in SUBSET {b \in Batches : WorkerOf(b) = w /\ at[b] = "confirm"} :
       deliveries' = [e \in Event |-> deliveries[e] + Cardinality({b \in got : sending[b] = e})]
  BY DEF SomeReceived
<1> SUFFICES ASSUME NEW e \in Event
             PROVE  deliveries'[e] + Cardinality(Pending(e)') <= Credit(e)'
  BY DEF AccountInv, Credit
<1> DEFINE mine == {b \in got : sending[b] = e}
<1>1. Credit(e)' = Credit(e) /\ Credit(e) \in Nat
  BY CreditIsNat DEF OutboxInv, Credit, Due, table
<1>2. mine \in SUBSET Pending(e)
  BY DEF Pending
<1>3. deliveries'[e] = deliveries[e] + Cardinality(mine)
  OBVIOUS
<1>4. Pending(e)' \subseteq Pending(e) \ mine
  <2>1. ASSUME NEW b \in Pending(e)' PROVE b \in Batches /\ (e \in rows'[b] \/ (at'[b] = "confirm" /\ sending'[b] = e))
    BY DEF Pending
  <2>2. ASSUME NEW b \in Pending(e)' PROVE b \in Pending(e)
    BY <2>1 DEF Pending
  <2>3. ASSUME NEW b \in Pending(e)' PROVE b \notin mine
    BY <2>1 DEF OutboxInv, BatchInv
  <2>4. QED
    BY <2>2, <2>3
<1> HIDE DEF mine
<1>5. QED
  BY <1>1, <1>2, <1>3, <1>4, DeliveredAccount

LEMMA ChannelBreaksStep == ASSUME OutboxInv, NEW w \in Workers, ChannelBreaks(w) PROVE OutboxInv'
<1>1. /\ SomeReceived(w) /\ Fault /\ channel' = channel \ {w}
      /\ UNCHANGED <<table, alive, round, rows, sending>>
  BY DEF ChannelBreaks
<1>2. /\ at' \in [Batches -> BatchPoints]
      /\ \A b \in Batches : at'[b] = IF WorkerOf(b) = w /\ at[b] = "confirm" THEN "recordFailed"
                                                                              ELSE at[b]
  <2>1. at' = [b \in Batches |-> IF WorkerOf(b) = w /\ at[b] = "confirm" THEN "recordFailed"
                                                                         ELSE at[b]]
    BY DEF ChannelBreaks, AfterConfirm
  <2>2. QED
    BY <2>1 DEF OutboxInv, OutboxTypeOK, BatchPoints
<1>3. OutboxTypeOK'
  BY <1>1, <1>2, CutOff, FaultType DEF OutboxInv, OutboxTypeOK, table
<1>4. PublishedIsDelivered'
  <2>1. \A e \in Event : deliveries'[e] >= deliveries[e] /\ deliveries'[e] \in Nat /\ deliveries[e] \in Nat
    BY <1>1, CutOff DEF OutboxInv, OutboxTypeOK
  <2>2. QED
    BY <1>1, <2>1 DEF OutboxInv, PublishedIsDelivered, table
<1>5. ASSUME NEW c \in Batches PROVE BatchInv(c)'
  <2>1. \A e \in Event : deliveries'[e] >= deliveries[e] /\ deliveries'[e] \in Nat /\ deliveries[e] \in Nat
    BY <1>1, CutOff DEF OutboxInv, OutboxTypeOK
  <2>2. sending[c] \in Event /\ deliveries[sending[c]] > 0 => deliveries'[sending[c]] > 0
    BY <2>1
  <2>3. QED
    BY <1>1, <1>2, <2>2 DEF OutboxInv, BatchInv
<1>6. AccountInv'
  BY <1>1, <1>2, <1>3, CutOffAccount
<1>7. QED
  BY <1>3, <1>4, <1>5, <1>6 DEF OutboxInv

LEMMA CrashStep == ASSUME OutboxInv, NEW w \in Workers, Crash(w) PROVE OutboxInv'
<1>1. /\ SomeReceived(w) /\ Fault /\ alive' = alive \ {w} /\ channel' = channel \ {w}
      /\ round' = [round EXCEPT ![w] = {}] /\ UNCHANGED table
  BY DEF Crash
<1>2. /\ at' \in [Batches -> BatchPoints] /\ rows' \in [Batches -> SUBSET Event]
      /\ sending' \in [Batches -> Event \cup {0}]
      /\ \A b \in Batches : IF WorkerOf(b) = w
                            THEN at'[b] = "idle" /\ rows'[b] = {} /\ sending'[b] = 0
                            ELSE at'[b] = at[b] /\ rows'[b] = rows[b] /\ sending'[b] = sending[b]
  BY DEF Crash, OutboxInv, OutboxTypeOK, BatchPoints
<1>3. OutboxTypeOK'
  BY <1>1, <1>2, CutOff, FaultType DEF OutboxInv, OutboxTypeOK, table
<1>4. \A e \in Event : deliveries'[e] >= deliveries[e] /\ deliveries'[e] \in Nat /\ deliveries[e] \in Nat
  BY <1>1, CutOff DEF OutboxInv, OutboxTypeOK
<1>5. PublishedIsDelivered'
  BY <1>1, <1>4 DEF OutboxInv, PublishedIsDelivered, table
<1>6. ASSUME NEW c \in Batches PROVE BatchInv(c)'
  <2>1. CASE WorkerOf(c) = w
    BY <1>2, <2>1, EventsAre DEF BatchInv
  <2>2. CASE WorkerOf(c) # w
    <3>1. sending[c] \in Event /\ deliveries[sending[c]] > 0 => deliveries'[sending[c]] > 0
      BY <1>4
    <3>2. QED
      BY <1>1, <1>2, <2>2, <3>1 DEF OutboxInv, BatchInv
  <2>3. QED
    BY <2>1, <2>2
<1>7. AccountInv'
  BY <1>1, <1>2, <1>3, CutOffAccount
<1>8. QED
  BY <1>3, <1>5, <1>6, <1>7 DEF OutboxInv

-----------------------------------------------------------------------------
\* Every step keeps the invariant.
LEMMA NextOutbox == OutboxInv /\ [OutboxNext]_outboxVars => OutboxInv'
<1> SUFFICES ASSUME OutboxInv, [OutboxNext]_outboxVars PROVE OutboxInv'
  OBVIOUS
<1>1. ASSUME NEW b \in Batches, BatchStep(b) PROVE OutboxInv'
  BY <1>1, ConnectStep, ClaimStep, PublishStep, ConfirmStep, RecordPublishedStep, RecordFailedStep
     DEF BatchStep
<1>2. ASSUME NEW w \in Workers, Poll(w) \/ ChannelBreaks(w) \/ Crash(w) PROVE OutboxInv'
  BY <1>2, PollStep, ChannelBreaksStep, CrashStep
<1>3. ASSUME NEW e \in Event, Write(e) \/ LeaseExpires(e) \/ BackoffEnds(e) PROVE OutboxInv'
  BY <1>3, WriteStep, LeaseExpiresStep, BackoffEndsStep
<1>4. CASE UNCHANGED outboxVars
  BY <1>4 DEF OutboxInv, OutboxTypeOK, PublishedIsDelivered, BatchInv, AccountInv, Pending, Due, outboxVars, table, worker
<1>5. QED
  BY <1>1, <1>2, <1>3, <1>4 DEF OutboxNext

\* The invariant holds in every reachable state.
LEMMA OutboxInvariant == OutboxSpec => []OutboxInv
  BY InitOutbox, NextOutbox, PTL DEF OutboxSpec

\* A row is leased exactly while it is PROCESSING, and PUBLISHED only after the
\* broker had the event.
THEOREM TableTrue == OutboxSpec => []TableIsTrue
<1>1. OutboxInv => TableIsTrue
  BY DEF OutboxInv, TableIsTrue
<1>2. QED
  BY <1>1, OutboxInvariant, PTL

\* However many processes and batches work side by side, an event is delivered more
\* than once only for a failed attempt or an expired lease.
THEOREM DuplicatesAccounted == OutboxSpec => []DuplicatesAreAccounted
<1>1. OutboxInv => DuplicatesAreAccounted
  <2> SUFFICES ASSUME OutboxInv, NEW e \in Event
               PROVE  deliveries[e] <= 1 + retries[e] + lapses[e]
    BY DEF DuplicatesAreAccounted
  <2>1. deliveries[e] + Cardinality(Pending(e)) <= retries[e] + lapses[e] + Due(e)
    BY DEF OutboxInv, AccountInv
  <2>2. Due(e) \in {0, 1} /\ deliveries[e] \in Nat /\ retries[e] \in Nat /\ lapses[e] \in Nat
    BY DEF Due, OutboxInv, OutboxTypeOK
  <2>3. QED
    BY <2>1, <2>2, PendingCounted
<1>2. QED
  BY <1>1, OutboxInvariant, PTL

\* No step, of a batch that lost its lease or of another, takes up a PUBLISHED row.
THEOREM PublishedFinal == OutboxSpec => PublishedIsFinal
<1> DEFINE Final == \A e \in Event : status[e] = "PUBLISHED" => status'[e] = "PUBLISHED"
<1>1. OutboxInv /\ [OutboxNext]_outboxVars => [Final]_status
  <2> SUFFICES ASSUME OutboxInv, [OutboxNext]_outboxVars, NEW e \in Event, status[e] = "PUBLISHED",
                      status' # status
               PROVE  status'[e] = "PUBLISHED"
    OBVIOUS
  <2>1. ASSUME NEW f \in Event, Write(f) PROVE status'[e] = "PUBLISHED"
    BY <2>1 DEF Write, OutboxInv, OutboxTypeOK
  <2>2. ASSUME NEW b \in Batches, Claim(b) PROVE status'[e] = "PUBLISHED"
    BY <2>2 DEF Claim, Oldest, Claimable, Lapsed
  <2>3. ASSUME NEW b \in Batches, RecordPublished(b) \/ RecordFailed(b) PROVE status'[e] = "PUBLISHED"
    <3>1. sending[b] \in Event
      BY <2>3 DEF RecordPublished, RecordFailed, OutboxInv, BatchInv
    <3>2. Mark(b, "PUBLISHED") \/ Mark(b, "FAILED") \/ UNCHANGED status
      BY <2>3 DEF RecordPublished, RecordFailed, table
    <3>3. QED
      BY <3>1, <3>2 DEF Mark, MayMark, OutboxInv, OutboxTypeOK
  <2>4. ASSUME UNCHANGED status PROVE status'[e] = "PUBLISHED"
    BY <2>4
  <2>5. QED
    BY <2>1, <2>2, <2>3, <2>4
       DEF OutboxNext, BatchStep, Connect, Publish, Confirm, Poll, ChannelBreaks, Crash, LeaseExpires,
           BackoffEnds, table, outboxVars
<1>2. QED
  BY <1>1, OutboxInvariant, PTL DEF OutboxSpec, PublishedIsFinal

================================================================================
