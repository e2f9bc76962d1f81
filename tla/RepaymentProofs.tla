--------------------------- MODULE RepaymentProofs ---------------------------
(***************************************************************************)
(* Proofs about Repayment and about Allocation, the loop whose lines a     *)
(* repayment records, for any schedule, payments and overlapping calls.    *)
(*                                                                         *)
(* Repayment, in two layers: IInv relates records, ledger and calls;       *)
(* MoneyInv the balances, the installments and the recorded lines, whose   *)
(* totals are compared with the lemmas of Sums.  Only three kinds of step  *)
(* matter to the money (WhatStepsDo): a payment is recorded, taken in or   *)
(* given back.                                                             *)
(*                                                                         *)
(* Allocation, at the end: PolicyPriority is not inductive: that the slot  *)
(* the loop works on may take something relies on every slot it has passed *)
(* being paid in full as long as something remains, and on no slot ahead   *)
(* of it having a line.  That the loop computes the rule follows from the  *)
(* policy: on the slots numbered by priority, only one way of spending the *)
(* amount keeps to it (GreedyOnly).                                        *)
(***************************************************************************)
EXTENDS Repayment, Allocation, Sums

RecordTypes ==
    /\ status \in [Repayments -> {"NONE", "LEDGER_POSTING", "SUCCESSFUL", "REVERSED"}]
    /\ reversal \in [Repayments -> {"NONE", "PENDING", "POSTED"}]
    /\ posted \subseteq Repayments /\ unposted \subseteq Repayments
    /\ call \in [Calls -> [at : Points, repayment : Repayments \cup {NoRepayment}]]

CallInv(c) ==
    LET r == call[c].repayment IN
    /\ call[c].at # "idle" => r \in Repayments
    /\ call[c].at \in {"post", "apply"} => status[r] # "NONE"
    /\ call[c].at = "apply" => r \in posted
    /\ call[c].at \in {"unpost", "unapply"} => reversal[r] # "NONE"
    /\ call[c].at = "unapply" => r \in unposted

RecordInv(r) ==
    /\ status[r] \in {"SUCCESSFUL", "REVERSED"} => r \in posted
    /\ status[r] = "REVERSED" <=> reversal[r] = "POSTED"
    /\ status[r] = "REVERSED" => r \in unposted
    /\ reversal[r] # "NONE" => status[r] \in {"SUCCESSFUL", "REVERSED"}
    /\ r \in unposted => reversal[r] # "NONE"

IInv ==
    /\ RecordTypes
    /\ \A c \in Calls : CallInv(c)
    /\ \A r \in Repayments : RecordInv(r)

\* What no step takes back.
Kept ==
    /\ posted \subseteq posted' /\ unposted \subseteq unposted'
    /\ \A r \in Repayments :
          /\ status[r] # "NONE" => status'[r] # "NONE"
          /\ reversal[r] # "NONE" => reversal'[r] # "NONE"

-----------------------------------------------------------------------------
\* The first state.
LEMMA InitIInv == Init => IInv
<1> SUFFICES ASSUME Init PROVE IInv
  OBVIOUS
<1>1. Idle \in [at : Points, repayment : Repayments \cup {NoRepayment}]
  BY DEF Idle, Points
<1>2. RecordTypes
  BY <1>1 DEF Init, RecordTypes
<1>3. \A c \in Calls : CallInv(c)
  BY DEF Init, CallInv, Idle
<1>4. \A r \in Repayments : RecordInv(r)
  BY DEF Init, RecordInv
<1> QED
  BY <1>2, <1>3, <1>4 DEF IInv

\* What a call may rely on stays true while others move, and an ended call relies
\* on nothing.
LEMMA CallKept ==
    ASSUME Kept, NEW c \in Calls, CallInv(c), call'[c] = call[c] PROVE CallInv(c)'
  BY DEF Kept, CallInv

LEMMA CallEnded ==
    ASSUME NEW c \in Calls, call'[c] = Idle PROVE CallInv(c)'
  BY DEF CallInv, Idle

\* The calls after a step by one of them.
LEMMA CallsKept ==
    ASSUME Kept, \A d \in Calls : CallInv(d), NEW c \in Calls, CallInv(c)',
           \A d \in Calls \ {c} : call'[d] = call[d]
    PROVE  \A d \in Calls : CallInv(d)'
<1> SUFFICES ASSUME NEW d \in Calls PROVE CallInv(d)'
  OBVIOUS
<1>1. CASE d = c
  BY <1>1
<1>2. CASE d # c
  BY <1>2, CallKept
<1> QED
  BY <1>1, <1>2

\* Records, ledger and calls after every step.
LEMMA NextIInv == IInv /\ [Next]_vars => IInv'
<1> SUFFICES ASSUME IInv, [Next]_vars PROVE IInv'
  OBVIOUS
<1>0. RecordTypes /\ (\A c \in Calls : CallInv(c)) /\ (\A r \in Repayments : RecordInv(r))
  BY DEF IInv
<1>a. ASSUME NEW c \in Calls, End(c)
      PROVE  /\ call' \in [Calls -> [at : Points, repayment : Repayments \cup {NoRepayment}]]
             /\ call'[c] = Idle
             /\ \A d \in Calls \ {c} : call'[d] = call[d]
  <2>1. Idle \in [at : Points, repayment : Repayments \cup {NoRepayment}]
    BY DEF Idle, Points
  <2> QED
    BY <2>1, <1>a, <1>0 DEF End, RecordTypes
<1>b. ASSUME NEW c \in Calls, NEW r \in Repayments, NEW p \in Points, Begin(c, p, r)
      PROVE  /\ call' \in [Calls -> [at : Points, repayment : Repayments \cup {NoRepayment}]]
             /\ call'[c].at = p /\ call'[c].repayment = r
             /\ \A d \in Calls \ {c} : call'[d] = call[d]
  BY <1>b, <1>0 DEF Begin, RecordTypes
<1>c. ASSUME NEW c \in Calls, NEW p \in Points, GoTo(c, p)
      PROVE  /\ call' \in [Calls -> [at : Points, repayment : Repayments \cup {NoRepayment}]]
             /\ call'[c].at = p /\ call'[c].repayment = call[c].repayment
             /\ \A d \in Calls \ {c} : call'[d] = call[d]
  BY <1>c, <1>0 DEF GoTo, RecordTypes
<1> USE DEF Points, At
<1>1. ASSUME NEW c \in Calls, NEW r \in Repayments, Prepare(c, r) PROVE IInv'
  <2>1. RecordTypes'
    BY <1>1, <1>0, <1>b DEF Prepare, RecordTypes, ledger
  <2>2. Kept
    BY <1>1, <1>0 DEF Prepare, Kept, RecordTypes, ledger
  <2>3. CallInv(c)'
    BY <1>1, <1>0, <1>b DEF Prepare, CallInv, RecordTypes
  <2>4. \A d \in Calls : CallInv(d)'
    BY <2>2, <2>3, <1>1, <1>0, <1>b, CallsKept DEF Prepare
  <2>5. \A q \in Repayments : RecordInv(q)'
    BY <1>1, <1>0 DEF Prepare, RecordInv, RecordTypes, ledger
  <2> QED
    BY <2>1, <2>4, <2>5 DEF IInv
<1>2. ASSUME NEW c \in Calls, NEW r \in Repayments,
             Replay(c, r) \/ ReplayReversal(c, r) PROVE IInv'
  <2>1. UNCHANGED <<rows, ledger>>
    BY <1>2 DEF Replay, ReplayReversal
  <2>2. PICK p \in {"post", "unpost"} : Begin(c, p, r)
                /\ (p = "post" => status[r] # "NONE") /\ (p = "unpost" => reversal[r] # "NONE")
    BY <1>2 DEF Replay, ReplayReversal
  <2>3. RecordTypes' /\ Kept
    BY <2>1, <2>2, <1>0, <1>b DEF RecordTypes, Kept, rows, ledger
  <2>4. CallInv(c)'
    BY <2>1, <2>2, <1>b DEF CallInv, rows, ledger
  <2>5. \A d \in Calls : CallInv(d)'
    BY <2>2, <2>3, <2>4, <1>0, <1>b, CallsKept
  <2>6. \A q \in Repayments : RecordInv(q)'
    BY <2>1, <1>0 DEF RecordInv, rows, ledger
  <2> QED
    BY <2>3, <2>5, <2>6 DEF IInv
<1>3. ASSUME NEW c \in Calls, PostLedger(c) PROVE IInv'
  <2>1. call[c].repayment \in Repayments
    BY <1>3, <1>0 DEF PostLedger, CallInv
  <2>2. RecordTypes' /\ Kept
    BY <2>1, <1>3, <1>0, <1>c DEF PostLedger, RecordTypes, Kept, rows
  <2>3. CallInv(c)'
    BY <2>1, <1>3, <1>0, <1>c DEF PostLedger, CallInv, rows
  <2>4. \A d \in Calls : CallInv(d)'
    BY <2>2, <2>3, <1>3, <1>0, <1>c, CallsKept DEF PostLedger
  <2>5. \A q \in Repayments : RecordInv(q)'
    BY <1>3, <1>0 DEF PostLedger, RecordInv, rows
  <2> QED
    BY <2>2, <2>4, <2>5 DEF IInv
<1>4. ASSUME NEW c \in Calls, Apply(c) PROVE IInv'
  <2> DEFINE r == call[c].repayment
  <2>1. r \in Repayments /\ r \in posted
    BY <1>4, <1>0 DEF Apply, CallInv
  <2>2. UNCHANGED <<reversal, posted, unposted>>
    BY <1>4 DEF Apply, ledger
  <2>3. \/ status' = status
        \/ status[r] = "LEDGER_POSTING" /\ status' = [status EXCEPT ![r] = "SUCCESSFUL"]
    BY <1>4 DEF Apply, CanApply
  <2>4. End(c)
    BY <1>4 DEF Apply
  <2> HIDE DEF r
  <2>5. RecordTypes' /\ Kept
    BY <2>1, <2>2, <2>3, <2>4, <1>0, <1>a DEF RecordTypes, Kept
  <2>6. \A d \in Calls : CallInv(d)'
    BY <2>4, <2>5, <1>0, <1>a, CallEnded, CallsKept
  <2>7. \A q \in Repayments : RecordInv(q)'
    BY <2>1, <2>2, <2>3, <1>0 DEF RecordInv, RecordTypes
  <2> QED
    BY <2>5, <2>6, <2>7 DEF IInv
<1>5. ASSUME NEW c \in Calls, NEW r \in Repayments, StartReversal(c, r) PROVE IInv'
  <2>1. RecordTypes' /\ Kept
    BY <1>5, <1>0, <1>b DEF StartReversal, RecordTypes, Kept, ledger
  <2>2. CallInv(c)'
    BY <1>5, <1>0, <1>b DEF StartReversal, CallInv, RecordTypes
  <2>3. \A d \in Calls : CallInv(d)'
    BY <2>1, <2>2, <1>5, <1>0, <1>b, CallsKept DEF StartReversal
  <2>4. \A q \in Repayments : RecordInv(q)'
    BY <1>5, <1>0 DEF StartReversal, RecordInv, RecordTypes, ledger
  <2> QED
    BY <2>1, <2>3, <2>4 DEF IInv
<1>6. ASSUME NEW c \in Calls, PostReversal(c) PROVE IInv'
  <2>1. call[c].repayment \in Repayments /\ reversal[call[c].repayment] # "NONE"
    BY <1>6, <1>0 DEF PostReversal, CallInv
  <2>2. RecordTypes' /\ Kept
    BY <2>1, <1>6, <1>0, <1>c DEF PostReversal, RecordTypes, Kept, rows
  <2>3. CallInv(c)'
    BY <2>1, <1>6, <1>0, <1>c DEF PostReversal, CallInv, rows
  <2>4. \A d \in Calls : CallInv(d)'
    BY <2>2, <2>3, <1>6, <1>0, <1>c, CallsKept DEF PostReversal
  <2>5. \A q \in Repayments : RecordInv(q)'
    BY <2>1, <1>6, <1>0 DEF PostReversal, RecordInv, rows
  <2> QED
    BY <2>2, <2>4, <2>5 DEF IInv
<1>7. ASSUME NEW c \in Calls, ApplyReversal(c) PROVE IInv'
  <2> DEFINE r == call[c].repayment
  <2>1. r \in Repayments /\ r \in unposted /\ reversal[r] # "NONE"
    BY <1>7, <1>0 DEF ApplyReversal, CallInv
  <2>2. UNCHANGED <<posted, unposted>>
    BY <1>7 DEF ApplyReversal, ledger
  <2>3. \/ status' = status /\ reversal' = reversal
        \/ /\ status' = [status EXCEPT ![r] = "REVERSED"]
           /\ reversal' = [reversal EXCEPT ![r] = "POSTED"]
    BY <1>7 DEF ApplyReversal
  <2>4. End(c)
    BY <1>7 DEF ApplyReversal
  <2> HIDE DEF r
  <2>5. RecordTypes' /\ Kept
    BY <2>1, <2>2, <2>3, <2>4, <1>0, <1>a DEF RecordTypes, Kept
  <2>6. \A d \in Calls : CallInv(d)'
    BY <2>4, <2>5, <1>0, <1>a, CallEnded, CallsKept
  <2>7. \A q \in Repayments : RecordInv(q)'
    BY <2>1, <2>2, <2>3, <1>0 DEF RecordInv, RecordTypes
  <2> QED
    BY <2>5, <2>6, <2>7 DEF IInv
<1>8. ASSUME NEW c \in Calls, Abort(c) PROVE IInv'
  <2>1. UNCHANGED <<rows, ledger>> /\ End(c)
    BY <1>8 DEF Abort
  <2>2. RecordTypes' /\ Kept
    BY <2>1, <1>0, <1>a DEF RecordTypes, Kept, rows, ledger
  <2>3. \A d \in Calls : CallInv(d)'
    BY <2>1, <2>2, <1>0, <1>a, CallEnded, CallsKept
  <2>4. \A q \in Repayments : RecordInv(q)'
    BY <2>1, <1>0 DEF RecordInv, rows, ledger
  <2> QED
    BY <2>2, <2>3, <2>4 DEF IInv
<1>9. CASE UNCHANGED vars
  BY <1>9, <1>0 DEF IInv, RecordTypes, CallInv, RecordInv, vars, rows, ledger
<1> QED
  BY <1>1, <1>2, <1>3, <1>4, <1>5, <1>6, <1>7, <1>8, <1>9 DEF Next, Step, Request

\* For any number of payments, overlapping and dying calls: what the records of
\* repayments and reversals say of the ledger is true.
THEOREM EvidenceTrue == Spec => []EvidenceMatchesLedger
<1>1. IInv => EvidenceMatchesLedger
  BY DEF IInv, RecordTypes, RecordInv, EvidenceMatchesLedger
<1> QED
  BY <1>1, InitIInv, NextIInv, PTL DEF Spec

-----------------------------------------------------------------------------
(* The money. *)

MoneyTypes ==
    /\ loanStatus \in Repayable \cup {"SETTLED"}
    /\ outstanding \in [Components -> Nat]
    /\ totalRepaid \in Nat
    /\ paid \in [Slot -> Nat]
    /\ line \in [Repayments -> [Slot -> Nat]]

RestTypes ==
    /\ pastDue \in BOOLEAN
    /\ credit \in [Repayments -> {"NONE", "AVAILABLE", "REFUNDED"}]
    /\ events \subseteq Repayments \X {"allocated", "reversed"}
    /\ aborts \in 0..MaxAborts

PaidWithinDue  == \A s \in Slot : paid[s] <= Due[s]
LinesWithinAmount ==
    \A r \in Repayments : status[r] # "NONE" => 0 < Allocated(r) /\ Allocated(r) <= Amount[r]

MoneyInv ==
    /\ MoneyTypes
    /\ BooksAgree
    /\ PaidByEvidence
    /\ SettledIffClear
    /\ PaidWithinDue
    /\ LinesWithinAmount

Owing == [s \in Slot |-> Open(s)]

\* The sets the money is summed over are finite.
LEMMA Parts ==
    /\ IsFiniteSet(Slot) /\ IsFiniteSet(Components)
    /\ Component \in [Slot -> Components]
    /\ \A c \in Components : SlotsOf(c) \subseteq Slot /\ IsFiniteSet(SlotsOf(c))
    /\ \A S \in SUBSET Repayments : IsFiniteSet(S)
<1>1. IsFiniteSet(Slot)
  BY SlotsAssumption, FS_Interval DEF Slot
<1>2. Component \in [Slot -> Components]
  BY SlotsAssumption DEF Components
<1>3. IsFiniteSet(Components)
  <2>1. IsFiniteSet({Component[s] : s \in Slot})
    <3>1. Component \in Surjection(Slot, Components)
      BY <1>2 DEF Surjection, Components
    <3>2. QED
      BY <1>1, <3>1, FS_Surjection DEF Components
  <2>2. QED
    BY <2>1 DEF Components
<1>4. ASSUME NEW c \in Components PROVE SlotsOf(c) \subseteq Slot /\ IsFiniteSet(SlotsOf(c))
  BY <1>1, FS_Subset DEF SlotsOf
<1>5. \A S \in SUBSET Repayments : IsFiniteSet(S)
  BY RepaymentsAssumption, FS_Subset
<1>6. QED
  BY <1>1, <1>2, <1>3, <1>4, <1>5

\* The sums over a line are numbers, and those by component add up to its total.
LEMMA LineTotals ==
  ASSUME MoneyTypes, NEW r \in Repayments
  PROVE  /\ Allocated(r) \in Nat
         /\ ComponentTotals(r) \in [Components -> Nat]
         /\ Total(ComponentTotals(r), Components) = Allocated(r)
         /\ \A s \in Slot : line[r][s] <= ComponentTotals(r)[Component[s]]
<1>1. \A s \in Slot : line[r][s] \in Nat
  BY DEF MoneyTypes
<1>2. Allocated(r) \in Nat
  BY <1>1, Parts, TotalOfNaturals DEF Allocated
<1>3. ASSUME NEW c \in Components
      PROVE  Total(line[r], SlotsOf(c)) \in Nat /\ \A s \in SlotsOf(c) : line[r][s] <= Total(line[r], SlotsOf(c))
  BY <1>1, Parts, TotalOfNaturals
<1>4. ComponentTotals(r) \in [Components -> Nat]
  BY <1>3 DEF ComponentTotals
<1>5. Total(ComponentTotals(r), Components) = Allocated(r)
  <2>1. ComponentTotals(r) = [c \in Components |-> Total(line[r], {s \in Slot : Component[s] = c})]
    BY DEF ComponentTotals, SlotsOf
  <2>2. QED
    <3> DEFINE f == line[r]
    <3>1. IsFiniteSet(Slot) /\ IsFiniteSet(Components) /\ Component \in [Slot -> Components]
      BY Parts
    <3>2. \A s \in Slot : f[s] \in Int
      BY <1>1
    <3> HIDE DEF f
    <3>3. Total([c \in Components |-> Total(f, {s \in Slot : Component[s] = c})], Components) = Total(f, Slot)
      BY <3>1, <3>2, TotalByKind
    <3>4. QED
      BY <2>1, <3>3 DEF f, Allocated
<1>6. ASSUME NEW s \in Slot PROVE line[r][s] <= ComponentTotals(r)[Component[s]]
  <2>1. Component[s] \in Components /\ s \in SlotsOf(Component[s])
    BY Parts DEF SlotsOf
  <2>2. QED
    BY <1>3, <2>1 DEF ComponentTotals
<1>7. QED
  BY <1>2, <1>4, <1>5, <1>6

\* Each balance is at least what the lines that fit the installments take of it, so that
\* the installments decide whether a repayment fits.
RoomDecides == \A r \in Repayments : (\A s \in Slot : paid[s] + line[r][s] <= Due[s]) => Fits(r)

LEMMA InstallmentsDecide == MoneyTypes /\ BooksAgree => RoomDecides
<1> SUFFICES ASSUME MoneyTypes, BooksAgree, NEW r \in Repayments,
                    \A s \in Slot : paid[s] + line[r][s] <= Due[s],
                    NEW c \in Components
             PROVE  outstanding[c] >= ComponentTotals(r)[c]
  BY DEF RoomDecides, Fits
<1>1. \A s \in SlotsOf(c) : line[r][s] \in Int /\ Owing[s] \in Int /\ line[r][s] <= Owing[s]
  BY SlotsAssumption DEF MoneyTypes, Owing, Open, SlotsOf
<1>2. Total(line[r], SlotsOf(c)) <= Total(Owing, SlotsOf(c))
  BY <1>1, Parts, TotalAtMost
<1>3. outstanding[c] = Total(Owing, SlotsOf(c)) /\ outstanding[c] \in Nat
  BY DEF BooksAgree, Owing, MoneyTypes
<1>4. ComponentTotals(r)[c] = Total(line[r], SlotsOf(c)) /\ ComponentTotals(r)[c] \in Nat
  BY LineTotals DEF ComponentTotals
<1>5. QED
  BY <1>2, <1>3, <1>4

\* What a new payment is allocated: something, within it and within what each slot owes.
LEMMA Allocation ==
  ASSUME MoneyInv, loanStatus # "SETTLED", NEW brought \in Nat \ {0}
  PROVE  /\ AllocationOf(brought) \in [Slot -> Nat]
         /\ \A s \in Slot : AllocationOf(brought)[s] <= Open(s)
         /\ 0 < Total(AllocationOf(brought), Slot) /\ Total(AllocationOf(brought), Slot) <= brought
<1>1. Owing \in [Slot -> Nat] /\ \A s \in Slot : Owing[s] = Open(s)
  BY SlotsAssumption DEF MoneyInv, MoneyTypes, PaidWithinDue, Owing, Open
<1>2. AllocationOf(brought) = Greedy(Owing, brought)
  BY DEF AllocationOf, Owing
<1>3. /\ Greedy(Owing, brought) \in [Slot -> Nat]
      /\ \A s \in Slot : Greedy(Owing, brought)[s] <= Owing[s]
  <2>1. Owing \in [1..Slots -> Int] /\ (\A s \in 1..Slots : Owing[s] >= 0) /\ Slots \in Nat /\ brought \in Nat
    BY <1>1, SlotsAssumption DEF Slot
  <2>2. QED
    BY <2>1, GreedyFits DEF Slot
<1>4. Total(Greedy(Owing, brought), Slot) = IF Total(Owing, Slot) <= brought THEN Total(Owing, Slot) ELSE brought
  BY <1>1, SlotsAssumption, GreedyTotal DEF Slot
<1>5. Total(Owing, Slot) \in Nat /\ Total(Owing, Slot) > 0
  <2>1. Total(Owing, Slot) \in Nat /\ \A s \in Slot : Owing[s] <= Total(Owing, Slot)
    BY <1>1, Parts, TotalOfNaturals
  <2>2. PICK c \in Components : outstanding[c] # 0
    BY DEF MoneyInv, SettledIffClear
  <2>3. Total(Owing, SlotsOf(c)) # 0
    BY <2>2 DEF MoneyInv, BooksAgree, Owing
  <2>4. PICK s \in SlotsOf(c) : Owing[s] # 0
    BY <2>3, Parts, TotalOfZeros
  <2>5. s \in Slot /\ Owing[s] \in Nat
    BY <1>1, Parts
  <2>6. QED
    BY <2>1, <2>4, <2>5
<1>6. QED
  BY <1>1, <1>2, <1>3, <1>4, <1>5

\* Nothing is paid yet, and something is owed.
LEMMA MoneyStarts == ASSUME Init PROVE MoneyInv /\ RestTypes
<1>1. ASSUME NEW c \in Components PROVE Total(Due, SlotsOf(c)) \in Nat
  BY Parts, SlotsAssumption, TotalOfNaturals
<1>2. MoneyTypes
  BY <1>1 DEF Init, MoneyTypes, NoLines
<1>3. RestTypes
  BY MaxAbortsAssumption DEF Init, RestTypes
<1>4. BooksAgree
  <2>1. ASSUME NEW c \in Components PROVE Total(Due, SlotsOf(c)) = Total(Owing, SlotsOf(c))
    <3>1. \A s \in SlotsOf(c) : Due[s] = Owing[s]
      BY Parts, SlotsAssumption DEF Init, Owing, Open, NoLines
    <3>2. QED
      BY <3>1, Parts, TotalSame
  <2>2. QED
    BY <2>1 DEF Init, BooksAgree, Owing
<1>5. PaidByEvidence
  <2>1. Applied = {}
    BY DEF Init, Applied
  <2>2. QED
    BY <2>1, TotalEmpty DEF Init, PaidByEvidence, NoLines
<1>6. SettledIffClear
  <2>1. PICK s \in Slot : Due[s] > 0
    BY SlotsAssumption
  <2>2. Component[s] \in Components /\ s \in SlotsOf(Component[s])
    BY Parts DEF SlotsOf
  <2>3. Due[s] <= Total(Due, SlotsOf(Component[s]))
    BY <2>2, Parts, SlotsAssumption, TotalOfNaturals
  <2>4. Total(Due, SlotsOf(Component[s])) # 0
    BY <1>1, <2>1, <2>2, <2>3, SlotsAssumption
  <2>5. QED
    BY <2>2, <2>4 DEF Init, SettledIffClear, Repayable
<1>7. PaidWithinDue /\ LinesWithinAmount
  BY SlotsAssumption DEF Init, PaidWithinDue, LinesWithinAmount, NoLines
<1>8. QED
  BY <1>2, <1>3, <1>4, <1>5, <1>6, <1>7 DEF MoneyInv

\* A payment is recorded: the money does not move yet.
LEMMA PrepareMoney ==
  ASSUME MoneyInv, RecordTypes, NEW c \in Calls, NEW r \in Repayments, Prepare(c, r)
  PROVE  MoneyInv' /\ Fits(r)'
<1> DEFINE new == AllocationOf(Amount[r])
<1>1. /\ new \in [Slot -> Nat]
      /\ \A s \in Slot : new[s] <= Open(s)
      /\ 0 < Total(new, Slot) /\ Total(new, Slot) <= Amount[r]
  <2>1. loanStatus # "SETTLED"
    BY DEF Prepare, Repayable
  <2>2. QED
    BY <2>1, Allocation, RepaymentsAssumption
<1>2. /\ status[r] = "NONE" /\ status' = [status EXCEPT ![r] = "LEDGER_POSTING"]
      /\ line' = [line EXCEPT ![r] = new] /\ UNCHANGED loan
  BY DEF Prepare
<1> HIDE DEF new
<1>3. Applied' = Applied /\ r \notin Applied /\ IsFiniteSet(Applied) /\ Applied \subseteq Repayments
  BY <1>2, Parts DEF Applied, RecordTypes
<1>4. MoneyTypes'
  BY <1>1, <1>2 DEF MoneyInv, MoneyTypes, loan
<1>5. line'[r] = new /\ \A q \in Repayments \ {r} : line'[q] = line[q] /\ status'[q] = status[q]
  BY <1>2 DEF MoneyInv, MoneyTypes, RecordTypes
<1>6. PaidByEvidence'
  <2>1. ASSUME NEW s \in Slot
        PROVE  Total([q \in Repayments |-> line[q][s]], Applied) = Total([q \in Repayments |-> line'[q][s]], Applied)
    <3> DEFINE f == [q \in Repayments |-> line[q][s]]
               g == [q \in Repayments |-> line'[q][s]]
    <3>1. \A q \in Applied : f[q] = g[q]
      BY <1>3, <1>5
    <3> HIDE DEF f, g
    <3>2. Total(f, Applied) = Total(g, Applied)
      BY <1>3, <3>1, TotalSame
    <3>3. QED
      BY <3>2 DEF f, g
  <2>2. Total([q \in Repayments |-> Allocated(q)], Applied) = Total([q \in Repayments |-> Allocated(q)'], Applied)
    <3> DEFINE f == [q \in Repayments |-> Allocated(q)]
               g == [q \in Repayments |-> Allocated(q)']
    <3>1. \A q \in Applied : f[q] = g[q]
      BY <1>3, <1>5 DEF Allocated
    <3> HIDE DEF f, g
    <3>2. Total(f, Applied) = Total(g, Applied)
      BY <1>3, <3>1, TotalSame
    <3>3. QED
      BY <3>2 DEF f, g
  <2>3. QED
    BY <1>2, <1>3, <2>1, <2>2 DEF MoneyInv, PaidByEvidence, loan
<1>7. BooksAgree' /\ SettledIffClear' /\ PaidWithinDue'
  BY <1>2 DEF MoneyInv, BooksAgree, SettledIffClear, PaidWithinDue, Open, loan
<1>8. LinesWithinAmount'
  BY <1>1, <1>5 DEF MoneyInv, LinesWithinAmount, Allocated
<1>9. Fits(r)'
  <2>1. \A s \in Slot : paid'[s] + line'[r][s] <= Due[s]
    BY <1>1, <1>2, <1>5, SlotsAssumption DEF Open, loan, MoneyInv, MoneyTypes
  <2>2. RoomDecides'
    BY <1>4, <1>7, InstallmentsDecide, PTL
  <2>3. QED
    BY <2>1, <2>2 DEF RoomDecides
<1>10. QED
  BY <1>4, <1>6, <1>7, <1>8, <1>9 DEF MoneyInv

\* A repayment is taken into the books, or (with -1) taken back out of them.
Moves(r, sign) ==
    /\ paid' = [s \in Slot |-> paid[s] + sign * line[r][s]]
    /\ outstanding' = [x \in Components |-> outstanding[x] - sign * ComponentTotals(r)[x]]
    /\ totalRepaid' = totalRepaid + sign * Allocated(r)
    /\ line' = line

\* Balances and installments move together.
LEMMA BooksMove ==
  ASSUME MoneyInv, NEW r \in Repayments, NEW sign \in {-1, 1}, Moves(r, sign),
         paid' \in [Slot -> Int]
  PROVE  BooksAgree'
<1> SUFFICES ASSUME NEW c \in Components PROVE outstanding'[c] = Total(Owing', SlotsOf(c))
  BY DEF BooksAgree, Owing, Open
<1> DEFINE moved == [s \in Slot |-> sign * line[r][s]]
<1>0. MoneyTypes /\ \A s \in Slot : line[r][s] \in Nat /\ paid[s] \in Nat /\ Due[s] \in Nat
  BY SlotsAssumption DEF MoneyInv, MoneyTypes
<1>1. \A s \in SlotsOf(c) : Owing'[s] \in Int /\ moved[s] \in Int /\ Owing[s] \in Int /\ Owing[s] = Owing'[s] + moved[s]
  BY <1>0, Parts DEF Owing, Open, Moves
<1>2. Total(Owing, SlotsOf(c)) = Total(Owing', SlotsOf(c)) + Total(moved, SlotsOf(c))
  <2> HIDE DEF moved
  <2> QED BY <1>1, Parts, TotalOfSums
<1>3. /\ Total(Owing', SlotsOf(c)) \in Int /\ Total(moved, SlotsOf(c)) \in Int
      /\ Total(line[r], SlotsOf(c)) \in Int
  <2>1. \A s \in SlotsOf(c) : line[r][s] \in Int
    BY <1>0, Parts
  <2> HIDE DEF moved
  <2>2. QED
    BY <1>1, <2>1, Parts, TotalType
<1>4. Total(moved, SlotsOf(c)) = sign * Total(line[r], SlotsOf(c))
  <2>1. CASE sign = 1
    <3>1. \A s \in SlotsOf(c) : moved[s] = line[r][s]
      BY <1>0, <2>1, Parts
    <3> HIDE DEF moved
    <3>2. Total(moved, SlotsOf(c)) = Total(line[r], SlotsOf(c))
      BY <3>1, Parts, TotalSame
    <3>3. QED
      BY <1>3, <2>1, <3>2
  <2>2. CASE sign = -1
    <3> DEFINE none == [s \in Slot |-> 0]
    <3>1. \A s \in SlotsOf(c) : moved[s] \in Int /\ line[r][s] \in Int /\ none[s] = moved[s] + line[r][s] /\ none[s] = 0
      BY <1>0, <2>2, Parts
    <3> HIDE DEF moved, none
    <3>2. Total(none, SlotsOf(c)) = Total(moved, SlotsOf(c)) + Total(line[r], SlotsOf(c))
      BY <3>1, Parts, TotalOfSums
    <3>3. Total(none, SlotsOf(c)) = 0
      BY <3>1, Parts, TotalOfZeros
    <3>4. QED
      BY <1>3, <2>2, <3>2, <3>3
  <2>3. QED
    BY <2>1, <2>2
<1>5. /\ outstanding[c] = Total(Owing, SlotsOf(c)) /\ outstanding[c] \in Nat
      /\ outstanding'[c] = outstanding[c] - sign * ComponentTotals(r)[c]
      /\ ComponentTotals(r)[c] = Total(line[r], SlotsOf(c))
  BY <1>0 DEF MoneyInv, BooksAgree, Owing, Moves, ComponentTotals, MoneyTypes
<1> HIDE DEF moved
<1>6. QED
  BY <1>2, <1>3, <1>4, <1>5

\* What is shown as paid moves with the set of repayments that count.
LEMMA EvidenceMoves ==
  ASSUME MoneyInv, NEW r \in Repayments, NEW sign \in {-1, 1}, Moves(r, sign),
         sign = 1 => r \notin Applied /\ Applied' = Applied \cup {r},
         sign = -1 => r \in Applied /\ Applied' = Applied \ {r}
  PROVE  PaidByEvidence'
<1>0. MoneyTypes /\ Applied \subseteq Repayments /\ IsFiniteSet(Applied)
  BY Parts DEF MoneyInv, Applied
<1>1. ASSUME NEW f, \A q \in Repayments : f[q] \in Nat
      PROVE  Total(f, Applied') = Total(f, Applied) + sign * f[r]
  <2>1. CASE sign = 1
    <3>1. \A q \in Applied \cup {r} : f[q] \in Int
      BY <1>0, <1>1
    <3>2. Total(f, Applied \cup {r}) = f[r] + Total(f, Applied)
      BY <1>0, <2>1, <3>1, TotalWith
    <3>3. Total(f, Applied) \in Int
      BY <1>0, <3>1, TotalType
    <3>4. QED
      <4>1. f[r] \in Nat /\ sign * f[r] = f[r]
        BY <1>1, <2>1
      <4>2. Applied' = Applied \cup {r}
        BY <2>1
      <4>3. QED
        BY <3>2, <3>3, <4>1, <4>2
  <2>2. CASE sign = -1
    <3>1. \A q \in Applied : f[q] \in Int
      BY <1>0, <1>1
    <3>2. Total(f, Applied) = f[r] + Total(f, Applied \ {r})
      BY <1>0, <2>2, <3>1, TotalWithout
    <3>3. Total(f, Applied \ {r}) \in Int
      <4>1. IsFiniteSet(Applied \ {r})
        BY <1>0, FS_Subset
      <4>2. QED
        BY <3>1, <4>1, TotalType
    <3>4. QED
      <4>1. f[r] \in Nat /\ sign * f[r] = -f[r]
        BY <1>1, <2>2
      <4>2. Applied' = Applied \ {r}
        BY <2>2
      <4>3. QED
        BY <3>2, <3>3, <4>1, <4>2
  <2>3. QED
    BY <2>1, <2>2
<1>2. ASSUME NEW s \in Slot
      PROVE  paid'[s] = Total([q \in Repayments |-> line'[q][s]], Applied')
  <2> DEFINE f == [q \in Repayments |-> line[q][s]]
  <2>1. (\A q \in Repayments : f[q] \in Nat) /\ f[r] = line[r][s]
    BY <1>0 DEF MoneyTypes
  <2>2. paid[s] = Total(f, Applied)
    BY DEF MoneyInv, PaidByEvidence
  <2>3. paid'[s] = paid[s] + sign * line[r][s] /\ line' = line
    BY DEF Moves
  <2> HIDE DEF f
  <2>4. paid'[s] = Total(f, Applied')
    BY <1>1, <2>1, <2>2, <2>3
  <2>5. QED
    BY <2>3, <2>4 DEF f
<1>3. totalRepaid' = Total([q \in Repayments |-> Allocated(q)'], Applied')
  <2> DEFINE f == [q \in Repayments |-> Allocated(q)]
  <2>1. (\A q \in Repayments : f[q] \in Nat) /\ f[r] = Allocated(r)
    BY <1>0, LineTotals
  <2>2. totalRepaid = Total(f, Applied)
    BY DEF MoneyInv, PaidByEvidence
  <2>3. totalRepaid' = totalRepaid + sign * Allocated(r) /\ [q \in Repayments |-> Allocated(q)'] = f
    BY DEF Moves, Allocated
  <2> HIDE DEF f
  <2>4. QED
    BY <1>1, <2>1, <2>2, <2>3
<1>4. QED
  BY <1>2, <1>3 DEF PaidByEvidence

\* What an application that changes something does.
Takes(r) ==
    /\ r \in Repayments /\ status[r] = "LEDGER_POSTING" /\ Fits(r)
    /\ status' = [status EXCEPT ![r] = "SUCCESSFUL"]
    /\ Moves(r, 1)
    /\ loanStatus' = StatusAfter(outstanding')

\* What a reversal that changes something does.
GivesBack(r) ==
    /\ r \in Applied
    /\ status' = [status EXCEPT ![r] = "REVERSED"]
    /\ Moves(r, -1)
    /\ loanStatus' \in {"ACTIVE", "OVERDUE"}

Same == UNCHANGED <<loanStatus, outstanding, totalRepaid, paid, line, status>>

\* A repayment is taken into the books.
LEMMA TakesMoney ==
  ASSUME MoneyInv, RecordTypes, NEW r, Takes(r)
  PROVE  MoneyInv'
<1>0. /\ MoneyTypes /\ r \in Repayments /\ Moves(r, 1) /\ Fits(r) /\ status[r] = "LEDGER_POSTING"
      /\ status' = [status EXCEPT ![r] = "SUCCESSFUL"]
  BY DEF MoneyInv, Takes
<1>1. /\ Allocated(r) \in Nat /\ ComponentTotals(r) \in [Components -> Nat]
      /\ \A s \in Slot : line[r][s] \in Nat /\ paid[s] \in Nat /\ Due[s] \in Nat
      /\ \A x \in Components : outstanding[x] \in Nat /\ ComponentTotals(r)[x] \in Nat
  BY <1>0, LineTotals, SlotsAssumption DEF MoneyTypes
<1>2. \A s \in Slot : paid'[s] = paid[s] + line[r][s] /\ paid'[s] <= Due[s]
  BY <1>0, <1>1 DEF Moves, Fits
<1>3. paid' \in [Slot -> Nat] /\ PaidWithinDue'
  <2>1. paid' = [s \in Slot |-> paid[s] + line[r][s]]
    BY <1>0, <1>1 DEF Moves
  <2>2. QED
    BY <1>1, <1>2, <2>1 DEF PaidWithinDue
<1>4. \A x \in Components : outstanding'[x] = outstanding[x] - ComponentTotals(r)[x] /\ outstanding'[x] \in Nat
  <2>1. \A x \in Components : outstanding'[x] = outstanding[x] - 1 * ComponentTotals(r)[x]
    BY <1>0 DEF Moves
  <2>2. \A x \in Components : outstanding[x] >= ComponentTotals(r)[x]
    BY <1>0 DEF Fits
  <2>3. QED
    BY <1>1, <2>1, <2>2
<1>5. outstanding' \in [Components -> Nat]
  <2>1. outstanding' = [x \in Components |-> outstanding'[x]]
    BY <1>0 DEF Moves
  <2>2. QED
    BY <1>4, <2>1
<1>6. totalRepaid' \in Nat
  BY <1>0, <1>1 DEF Moves, MoneyTypes
<1>7. SettledIffClear' /\ loanStatus' \in Repayable \cup {"SETTLED"}
  <2>1. CASE \A x \in Components : outstanding'[x] = 0
    BY <2>1 DEF Takes, StatusAfter, SettledIffClear
  <2>2. CASE \E x \in Components : outstanding'[x] # 0
    <3>1. PICK x \in Components : outstanding'[x] # 0
      BY <2>2
    <3>2. outstanding[x] # 0
      BY <1>1, <1>4, <3>1
    <3>3. loanStatus \in Repayable
      BY <1>0, <3>2 DEF MoneyInv, SettledIffClear, MoneyTypes
    <3>4. loanStatus' \in Repayable
      BY <2>2, <3>3 DEF Takes, StatusAfter, Repayable
    <3>5. QED
      BY <2>2, <3>4 DEF SettledIffClear, Repayable
  <2>3. QED
    BY <2>1, <2>2
<1>8. r \notin Applied /\ Applied' = Applied \cup {r}
  BY <1>0 DEF Applied, RecordTypes
<1>9. PaidByEvidence'
  BY <1>0, <1>8, EvidenceMoves
<1>10. BooksAgree'
  BY <1>0, <1>3, BooksMove
<1>11. LinesWithinAmount'
  BY <1>0 DEF MoneyInv, LinesWithinAmount, Allocated, Moves, RecordTypes
<1>12. MoneyTypes'
  BY <1>0, <1>3, <1>5, <1>6, <1>7 DEF MoneyTypes, Moves
<1>13. QED
  BY <1>3, <1>7, <1>9, <1>10, <1>11, <1>12 DEF MoneyInv

\* What a repayment that counts gave a slot is still there.
LEMMA StillThere ==
  ASSUME MoneyInv, NEW r \in Applied
  PROVE  Allocated(r) <= totalRepaid /\ \A s \in Slot : line[r][s] <= paid[s]
<1>0. MoneyTypes /\ Applied \subseteq Repayments /\ IsFiniteSet(Applied)
  BY Parts DEF MoneyInv, Applied
<1>1. ASSUME NEW s \in Slot PROVE line[r][s] <= paid[s]
  <2> DEFINE f == [q \in Repayments |-> line[q][s]]
  <2>1. (\A q \in Applied : f[q] \in Nat) /\ f[r] = line[r][s] /\ paid[s] = Total(f, Applied)
    BY <1>0 DEF MoneyTypes, MoneyInv, PaidByEvidence
  <2> HIDE DEF f
  <2>2. f[r] <= Total(f, Applied)
    BY <1>0, <2>1, TotalOfNaturals
  <2>3. QED
    BY <2>1, <2>2
<1>2. Allocated(r) <= totalRepaid
  <2> DEFINE f == [q \in Repayments |-> Allocated(q)]
  <2>1. (\A q \in Applied : f[q] \in Nat) /\ f[r] = Allocated(r) /\ totalRepaid = Total(f, Applied)
    BY <1>0, LineTotals DEF MoneyInv, PaidByEvidence
  <2> HIDE DEF f
  <2>2. f[r] <= Total(f, Applied)
    BY <1>0, <2>1, TotalOfNaturals
  <2>3. QED
    BY <2>1, <2>2
<1>3. QED
  BY <1>1, <1>2

\* A repayment is taken back out of the books; no installment is paid more after it.
LEMMA GivesBackMoney ==
  ASSUME MoneyInv, RecordTypes, NEW r, GivesBack(r)
  PROVE  MoneyInv' /\ \A s \in Slot : paid'[s] <= paid[s]
<1>0. /\ MoneyTypes /\ r \in Repayments /\ r \in Applied /\ Moves(r, -1) /\ status[r] = "SUCCESSFUL"
      /\ status' = [status EXCEPT ![r] = "REVERSED"]
  BY DEF MoneyInv, GivesBack, Applied
<1>1. /\ Allocated(r) \in Nat /\ ComponentTotals(r) \in [Components -> Nat]
      /\ \A s \in Slot : line[r][s] \in Nat /\ paid[s] \in Nat /\ Due[s] \in Nat
      /\ \A x \in Components : outstanding[x] \in Nat /\ ComponentTotals(r)[x] \in Nat
  BY <1>0, LineTotals, SlotsAssumption DEF MoneyTypes
<1>2. \A s \in Slot : paid'[s] = paid[s] - line[r][s] /\ paid'[s] \in Nat /\ paid'[s] <= paid[s]
  <2>1. \A s \in Slot : paid'[s] = paid[s] + (-1) * line[r][s]
    BY <1>0 DEF Moves
  <2>2. \A s \in Slot : line[r][s] <= paid[s]
    BY <1>0, StillThere
  <2>3. QED
    BY <1>1, <2>1, <2>2
<1>3. paid' \in [Slot -> Nat] /\ PaidWithinDue'
  <2>1. paid' = [s \in Slot |-> paid'[s]]
    BY <1>0 DEF Moves
  <2>2. \A s \in Slot : paid[s] <= Due[s]
    BY DEF MoneyInv, PaidWithinDue
  <2>3. \A s \in Slot : paid'[s] <= Due[s]
    BY <1>1, <1>2, <2>2
  <2>4. QED
    BY <1>2, <2>1, <2>3 DEF PaidWithinDue
<1>4. \A x \in Components : outstanding'[x] = outstanding[x] + ComponentTotals(r)[x] /\ outstanding'[x] \in Nat
  <2>1. \A x \in Components : outstanding'[x] = outstanding[x] - (-1) * ComponentTotals(r)[x]
    BY <1>0 DEF Moves
  <2>2. QED
    BY <1>1, <2>1
<1>5. outstanding' \in [Components -> Nat]
  <2>1. outstanding' = [x \in Components |-> outstanding'[x]]
    BY <1>0 DEF Moves
  <2>2. QED
    BY <1>4, <2>1
<1>6. totalRepaid' \in Nat
  <2>1. totalRepaid' = totalRepaid + (-1) * Allocated(r) /\ totalRepaid \in Nat
    BY <1>0 DEF Moves, MoneyTypes
  <2>2. Allocated(r) <= totalRepaid
    BY <1>0, StillThere
  <2>3. QED
    BY <1>1, <2>1, <2>2
<1>7. SettledIffClear' /\ loanStatus' \in Repayable
  <2>1. PICK s \in Slot : line[r][s] > 0
    <3>1. Allocated(r) # 0
      BY <1>0, <1>1 DEF MoneyInv, LinesWithinAmount
    <3>2. PICK s \in Slot : line[r][s] # 0
      BY <3>1, Parts, TotalOfZeros DEF Allocated
    <3>3. QED
      BY <1>1, <3>2
  <2>2. Component[s] \in Components /\ line[r][s] <= ComponentTotals(r)[Component[s]]
    BY <1>0, Parts, LineTotals
  <2>3. outstanding'[Component[s]] # 0
    BY <1>1, <1>4, <2>1, <2>2
  <2>4. QED
    BY <2>2, <2>3 DEF GivesBack, SettledIffClear, Repayable
<1>8. Applied' = Applied \ {r}
  BY <1>0 DEF Applied, RecordTypes
<1>9. PaidByEvidence'
  BY <1>0, <1>8, EvidenceMoves
<1>10. BooksAgree'
  BY <1>0, <1>3, BooksMove
<1>11. LinesWithinAmount'
  BY <1>0 DEF MoneyInv, LinesWithinAmount, Allocated, Moves, RecordTypes
<1>12. MoneyTypes'
  BY <1>0, <1>3, <1>5, <1>6, <1>7 DEF MoneyTypes, Moves
<1>13. QED
  BY <1>2, <1>3, <1>7, <1>9, <1>10, <1>11, <1>12 DEF MoneyInv

\* Every step either records a payment, moves the money of one, or leaves it alone.
LEMMA WhatStepsDo ==
  ASSUME IInv, MoneyInv, [Next]_vars
  PROVE  \/ \E c \in Calls, r \in Repayments : Prepare(c, r)
         \/ \E r \in Repayments : Takes(r) \/ GivesBack(r)
         \/ Same
<1>0. MoneyTypes /\ RecordTypes
  BY DEF MoneyInv, IInv
<1>1. ASSUME NEW c \in Calls, Apply(c) PROVE (\E r \in Repayments : Takes(r)) \/ Same
  <2> DEFINE r == call[c].repayment
  <2>1. r \in Repayments
    BY <1>1 DEF IInv, CallInv, Apply, At
  <2>2. CASE Same
    BY <2>2
  <2>3. CASE ~Same
    <3>1. /\ status[r] = "LEDGER_POSTING" /\ Fits(r)
          /\ paid' = [s \in Slot |-> paid[s] + line[r][s]]
          /\ outstanding' = [x \in Components |-> outstanding[x] - ComponentTotals(r)[x]]
          /\ totalRepaid' = totalRepaid + Allocated(r)
          /\ loanStatus' = StatusAfter([x \in Components |-> outstanding[x] - ComponentTotals(r)[x]])
          /\ status' = [status EXCEPT ![r] = "SUCCESSFUL"]
          /\ line' = line
      BY <1>1, <2>3 DEF Apply, CanApply, Same
    <3>2. /\ \A s \in Slot : 1 * line[r][s] = line[r][s]
          /\ \A x \in Components : 1 * ComponentTotals(r)[x] = ComponentTotals(r)[x]
          /\ 1 * Allocated(r) = Allocated(r)
      BY <1>0, <2>1, LineTotals DEF MoneyTypes
    <3> HIDE DEF r
    <3>3. Moves(r, 1)
      BY <3>1, <3>2 DEF Moves
    <3>4. QED
      BY <2>1, <3>1, <3>3 DEF Takes
  <2>4. QED
    BY <2>2, <2>3
<1>2. ASSUME NEW c \in Calls, ApplyReversal(c) PROVE (\E r \in Repayments : GivesBack(r)) \/ Same
  <2> DEFINE r == call[c].repayment
  <2>1. r \in Repayments /\ reversal[r] # "NONE"
    BY <1>2 DEF IInv, CallInv, ApplyReversal, At
  <2>2. CASE Same
    BY <2>2
  <2>3. CASE ~Same
    <3>1. /\ reversal[r] # "POSTED"
          /\ paid' = [s \in Slot |-> paid[s] - line[r][s]]
          /\ outstanding' = [x \in Components |-> outstanding[x] + ComponentTotals(r)[x]]
          /\ totalRepaid' = totalRepaid - Allocated(r)
          /\ loanStatus' \in {"ACTIVE", "OVERDUE"}
          /\ status' = [status EXCEPT ![r] = "REVERSED"]
          /\ line' = line
      BY <1>2, <2>3 DEF ApplyReversal, StillPending, Same
    <3>2. /\ \A s \in Slot : paid[s] + (-1) * line[r][s] = paid[s] - line[r][s]
          /\ \A x \in Components : outstanding[x] - (-1) * ComponentTotals(r)[x] = outstanding[x] + ComponentTotals(r)[x]
          /\ totalRepaid + (-1) * Allocated(r) = totalRepaid - Allocated(r)
      BY <1>0, <2>1, LineTotals DEF MoneyTypes
    <3>3. r \in Applied
      BY <2>1, <3>1 DEF IInv, RecordInv, Applied
    <3> HIDE DEF r
    <3>4. Moves(r, -1)
      BY <3>1, <3>2 DEF Moves
    <3>5. QED
      BY <2>1, <3>1, <3>3, <3>4 DEF GivesBack
  <2>4. QED
    BY <2>2, <2>3
<1>3. ASSUME NEW c \in Calls,
             \/ PostLedger(c) \/ PostReversal(c) \/ Abort(c)
             \/ \E r \in Repayments : Replay(c, r) \/ StartReversal(c, r) \/ ReplayReversal(c, r)
      PROVE  Same
  BY <1>3 DEF Same, PostLedger, PostReversal, Abort, Replay, StartReversal, ReplayReversal, loan, rows
<1>4. CASE UNCHANGED vars
  BY <1>4 DEF Same, vars, loan, rows
<1>5. QED
  BY <1>1, <1>2, <1>3, <1>4 DEF Next, Step, Request

\* The money after every step.
LEMMA MoneyKept == ASSUME IInv, MoneyInv, [Next]_vars PROVE MoneyInv'
<1>1. RecordTypes
  BY DEF IInv
<1>2. CASE Same
  <2>1. MoneyTypes' /\ BooksAgree' /\ PaidWithinDue' /\ SettledIffClear'
    BY <1>2 DEF MoneyInv, Same, MoneyTypes, BooksAgree, PaidWithinDue, SettledIffClear, Open
  <2>2. PaidByEvidence' /\ LinesWithinAmount'
    BY <1>2 DEF MoneyInv, Same, PaidByEvidence, LinesWithinAmount, Allocated, Applied
  <2>3. QED
    BY <2>1, <2>2 DEF MoneyInv
<1>3. QED
  BY <1>1, <1>2, WhatStepsDo, PrepareMoney, TakesMoney, GivesBackMoney

\* The variables neither layer speaks of.
LEMMA RestKept == ASSUME IInv, RestTypes, [Next]_vars PROVE RestTypes'
<1>1. ASSUME NEW c \in Calls, Apply(c) \/ ApplyReversal(c) PROVE RestTypes'
  <2> DEFINE r == call[c].repayment
  <2>1. r \in Repayments
    BY <1>1 DEF IInv, CallInv, Apply, ApplyReversal, At
  <2>2. UNCHANGED <<pastDue, aborts>>
    BY <1>1 DEF Apply, ApplyReversal
  <2>3. /\ \/ UNCHANGED credit
           \/ credit' = [credit EXCEPT ![r] = "AVAILABLE"]
           \/ credit' = [credit EXCEPT ![r] = "REFUNDED"]
        /\ events' \subseteq events \cup {<<r, "allocated">>, <<r, "reversed">>}
    BY <1>1 DEF Apply, ApplyReversal
  <2> HIDE DEF r
  <2>4. QED
    BY <2>1, <2>2, <2>3 DEF RestTypes
<1>2. ASSUME NEW c \in Calls, Abort(c) PROVE RestTypes'
  BY <1>2, MaxAbortsAssumption DEF RestTypes, Abort, loan, rows
<1>3. CASE UNCHANGED <<pastDue, credit, events, aborts>>
  BY <1>3 DEF RestTypes
<1>4. QED
  BY <1>1, <1>2, <1>3
    DEF Next, Step, Request, Prepare, Replay, StartReversal, ReplayReversal, PostLedger, PostReversal,
        vars, loan, rows

\* Both layers hold in every reachable state.
LEMMA Invariance == Spec => [](IInv /\ MoneyInv /\ RestTypes)
<1>1. Init => IInv /\ MoneyInv /\ RestTypes
  BY InitIInv, MoneyStarts
<1>2. IInv /\ MoneyInv /\ RestTypes /\ [Next]_vars => (IInv /\ MoneyInv /\ RestTypes)'
  BY NextIInv, MoneyKept, RestKept
<1>3. QED
  BY <1>1, <1>2, PTL DEF Spec

\* The loan's books are in order in every reachable state, for any schedule, payments and
\* overlapping calls: balances and installments agree, what is shown as paid is the sum of
\* what counts, the loan is SETTLED exactly when nothing is outstanding, and every repayment
\* that counts can still be taken back.
THEOREM Books == Spec => []BooksInOrder
<1>1. IInv /\ MoneyInv /\ RestTypes => BooksInOrder
  <2> SUFFICES ASSUME IInv, MoneyInv, RestTypes PROVE BooksInOrder
    OBVIOUS
  <2>1. TypeOK
    BY DEF IInv, RecordTypes, MoneyInv, MoneyTypes, RestTypes, TypeOK
  <2>2. ReversalNeverBlocked
    <3>1. ASSUME NEW r \in Applied, NEW s \in Slot PROVE paid[s] >= line[r][s]
      <4>1. line[r][s] <= paid[s] /\ line[r][s] \in Nat /\ paid[s] \in Nat
        BY StillThere DEF MoneyInv, MoneyTypes, Applied
      <4>2. QED
        BY <4>1
    <3>2. QED
      BY <3>1 DEF ReversalNeverBlocked, CanUnapply
  <2>3. QED
    BY <2>1, <2>2 DEF MoneyInv, BooksInOrder
<1>2. QED
  BY <1>1, Invariance, PTL

-----------------------------------------------------------------------------
(* Why a recorded payment may stop fitting. *)

\* A step that applies nothing to its slots leaves a fitting payment fitting.
LEMMA StopsFitting ==
  ASSUME IInv, MoneyInv, MoneyInv', [Next]_vars, NEW r \in Repayments,
         status'[r] = "LEDGER_POSTING", status[r] = "NONE" \/ Fits(r),
         \A q \in Applied' \ Applied, s \in Slot : ~(line[q][s] > 0 /\ line[r][s] > 0)
  PROVE  Fits(r)'
<1>0. MoneyTypes /\ MoneyTypes' /\ RecordTypes
  BY DEF MoneyInv, IInv
<1>r. RoomDecides'
  <2>1. MoneyTypes' /\ BooksAgree'
    BY DEF MoneyInv
  <2>2. QED
    BY <2>1, InstallmentsDecide, PTL
<1>1. CASE \E c \in Calls, q \in Repayments : Prepare(c, q)
  <2>1. PICK c \in Calls, q \in Repayments : Prepare(c, q)
    BY <1>1
  <2>2. CASE q = r
    BY <1>0, <2>1, <2>2, PrepareMoney
  <2>3. CASE q # r
    <3>1. status[r] # "NONE" /\ line'[r] = line[r] /\ UNCHANGED <<paid, outstanding>>
      BY <1>0, <2>1, <2>3 DEF Prepare, loan, RecordTypes, MoneyTypes
    <3>2. QED
      BY <3>1 DEF Fits, ComponentTotals
  <2>4. QED
    BY <2>2, <2>3
<1>2. ASSUME NEW q \in Repayments, Takes(q) PROVE Fits(r)'
  <2>1. /\ r # q /\ status[r] = "LEDGER_POSTING" /\ Fits(r) /\ Fits(q)
        /\ q \in Applied' \ Applied /\ line' = line
    BY <1>0, <1>2 DEF Takes, Moves, RecordTypes, Applied
  <2>2. ASSUME NEW s \in Slot PROVE paid'[s] + line'[r][s] <= Due[s]
    <3>1. paid'[s] = paid[s] + 1 * line[q][s]
      BY <1>2 DEF Takes, Moves
    <3>2. line[q][s] \in Nat /\ line[r][s] \in Nat /\ paid[s] \in Nat /\ Due[s] \in Nat
      BY <1>0, SlotsAssumption DEF MoneyTypes
    <3>3. line[q][s] = 0 \/ line[r][s] = 0
      BY <2>1, <3>2
    <3>4. paid[s] + line[r][s] <= Due[s] /\ paid[s] + line[q][s] <= Due[s]
      BY <2>1 DEF Fits
    <3>5. QED
      BY <2>1, <3>1, <3>2, <3>3, <3>4
  <2>3. QED
    BY <1>r, <2>2 DEF RoomDecides
<1>3. ASSUME NEW q \in Repayments, GivesBack(q) PROVE Fits(r)'
  <2>1. Fits(r) /\ line' = line
    BY <1>0, <1>3 DEF GivesBack, Moves, RecordTypes
  <2>2. ASSUME NEW s \in Slot PROVE paid'[s] + line'[r][s] <= Due[s]
    <3>1. paid'[s] <= paid[s]
      BY <1>0, <1>3, GivesBackMoney
    <3>2. paid[s] + line[r][s] <= Due[s]
      BY <2>1 DEF Fits
    <3>3. paid'[s] \in Nat /\ paid[s] \in Nat /\ line[r][s] \in Nat /\ Due[s] \in Nat
      BY <1>0, SlotsAssumption DEF MoneyTypes
    <3>4. QED
      BY <2>1, <3>1, <3>2, <3>3
  <2>3. QED
    BY <1>r, <2>2 DEF RoomDecides
<1>4. CASE Same
  BY <1>4 DEF Same, Fits, ComponentTotals
<1>5. QED
  BY <1>1, <1>2, <1>3, <1>4, WhatStepsDo

\* A payment is recorded with an allocation that fits, and only another one applied to a
\* slot it had been allocated to can make it stop fitting.
THEOREM BlockedByOvertaking == Spec => BlockedOnlyByOvertaking
<1>1. IInv /\ MoneyInv /\ MoneyInv' /\ [Next]_vars =>
        [\A r \in Repayments :
          /\ status'[r] = "LEDGER_POSTING" /\ ~Fits(r)'
          /\ status[r] = "NONE" \/ Fits(r)
          => \E q \in Applied' \ Applied, s \in Slot : line[q][s] > 0 /\ line[r][s] > 0]_vars
  BY StopsFitting
<1>2. QED
  BY <1>1, Invariance, PTL DEF Spec, BlockedOnlyByOvertaking

-----------------------------------------------------------------------------
(* The account. *)

Owed  == Total(outstanding, Components)
Taken == [r \in Repayments |-> IF r \in Applied THEN Allocated(r) ELSE 0]
Given == {r \in Repayments : status[r] = "REVERSED"}

\* Nothing is owed exactly when the loan is SETTLED.
ClosedInv == Owed \in Nat /\ (loanStatus = "SETTLED" <=> Owed = 0)

LEMMA ClosedWhenClear == MoneyInv => ClosedInv
<1> SUFFICES ASSUME MoneyInv PROVE ClosedInv
  OBVIOUS
<1>1. \A x \in Components : outstanding[x] \in Nat
  BY DEF MoneyInv, MoneyTypes
<1>2. Owed \in Nat /\ \A x \in Components : outstanding[x] <= Owed
  BY <1>1, Parts, TotalOfNaturals DEF Owed
<1>3. (\A x \in Components : outstanding[x] = 0) => Owed = 0
  BY Parts, TotalOfZeros DEF Owed
<1>4. Owed = 0 => \A x \in Components : outstanding[x] = 0
  BY <1>1, <1>2
<1>5. QED
  BY <1>2, <1>3, <1>4 DEF ClosedInv, MoneyInv, SettledIffClear

\* What is owed moves by the lines of the repayment that moves.
LEMMA OwedMoves ==
  ASSUME MoneyInv, MoneyInv', NEW r \in Repayments, NEW sign \in {-1, 1}, Moves(r, sign)
  PROVE  Owed = Owed' + sign * Allocated(r)
<1>0. MoneyTypes /\ MoneyTypes' /\ Owed \in Nat /\ Owed' \in Nat
  <2>1. ClosedInv
    BY ClosedWhenClear
  <2>2. ClosedInv'
    BY ClosedWhenClear, PTL
  <2>3. QED
    BY <2>1, <2>2 DEF ClosedInv, MoneyInv
<1> DEFINE share == ComponentTotals(r)
<1>1. share \in [Components -> Nat] /\ Total(share, Components) = Allocated(r) /\ Allocated(r) \in Nat
  BY <1>0, LineTotals
<1>2. \A x \in Components : /\ outstanding'[x] = outstanding[x] - sign * share[x]
                            /\ outstanding[x] \in Nat /\ outstanding'[x] \in Nat
  BY <1>0 DEF Moves, MoneyTypes
<1> HIDE DEF share
<1>3. CASE sign = 1
  <2>1. \A x \in Components : /\ outstanding'[x] \in Int /\ share[x] \in Int
                              /\ outstanding[x] = outstanding'[x] + share[x]
    BY <1>1, <1>2, <1>3
  <2>2. Total(outstanding, Components) = Total(outstanding', Components) + Total(share, Components)
    BY <2>1, Parts, TotalOfSums
  <2>3. QED
    BY <1>0, <1>1, <1>3, <2>2 DEF Owed
<1>4. CASE sign = -1
  <2>1. \A x \in Components : /\ outstanding[x] \in Int /\ share[x] \in Int
                              /\ outstanding'[x] = outstanding[x] + share[x]
    BY <1>1, <1>2, <1>4
  <2>2. Total(outstanding', Components) = Total(outstanding, Components) + Total(share, Components)
    BY <2>1, Parts, TotalOfSums
  <2>3. QED
    BY <1>0, <1>1, <1>4, <2>2 DEF Owed
<1>5. QED
  BY <1>3, <1>4

\* The first state, as the account sees it.
LEMMA AccountStarts == ASSUME Init PROVE Account!Init
<1>1. Total(outstanding, Components) = Total(Due, Slot)
  <2>1. outstanding = [c \in Components |-> Total(Due, {s \in Slot : Component[s] = c})]
    BY DEF Init, SlotsOf
  <2>2. /\ IsFiniteSet(Slot) /\ IsFiniteSet(Components) /\ Component \in [Slot -> Components]
        /\ \A s \in Slot : Due[s] \in Int
    BY Parts, SlotsAssumption
  <2>3. QED
    BY <2>1, <2>2, TotalByKind
<1>2. Applied = {} /\ {r \in Repayments : status[r] = "REVERSED"} = {} /\ ~(loanStatus = "SETTLED")
  BY DEF Init, Applied, Repayable
<1>3. QED
  BY <1>1, <1>2 DEF Account!Init

\* Every step is one of the account, or none.
LEMMA AccountMoves ==
  ASSUME IInv, MoneyInv, MoneyInv', [Next]_vars
  PROVE  Account!Next \/ UNCHANGED Account!vars
<1>0. MoneyTypes /\ RecordTypes /\ LinesWithinAmount
  BY DEF MoneyInv, IInv
<1>c. ClosedInv /\ ClosedInv'
  BY ClosedWhenClear, PTL
<1>a. UNCHANGED <<Owed, Taken, Given, loanStatus>> => UNCHANGED Account!vars
  BY DEF Account!vars, Owed, Taken, Given
<1>b. ASSUME NEW r \in Repayments, Taken[r] = 0, r \notin Given,
             NEW a \in 1..Amount[r], a <= Owed, Taken' = [Taken EXCEPT ![r] = a], Owed' = Owed - a,
             (loanStatus' = "SETTLED") = (Owed' = 0), UNCHANGED Given
      PROVE  Account!Next
  <2>1. Account!Pay(r)
    BY <1>b DEF Account!Pay, Account!Close, Owed, Taken, Given
  <2>2. QED
    BY <2>1 DEF Account!Next
<1>d. ASSUME NEW r \in Repayments, Taken[r] > 0, Owed' = Owed + Taken[r],
             Taken' = [Taken EXCEPT ![r] = 0], Given' = Given \cup {r},
             (loanStatus' = "SETTLED") = (Owed' = 0)
      PROVE  Account!Next
  <2>1. Account!GiveBack(r)
    BY <1>d DEF Account!GiveBack, Account!Close, Owed, Taken, Given
  <2>2. QED
    BY <2>1 DEF Account!Next
<1>1. CASE \E c \in Calls, r \in Repayments : Prepare(c, r)
  <2>1. PICK c \in Calls, r \in Repayments : Prepare(c, r)
    BY <1>1
  <2>2. /\ status[r] = "NONE" /\ status' = [status EXCEPT ![r] = "LEDGER_POSTING"]
        /\ \A q \in Repayments \ {r} : line'[q] = line[q]
        /\ UNCHANGED loan
    BY <1>0, <2>1 DEF Prepare, MoneyTypes
  <2>3. Applied' = Applied /\ Given' = Given /\ r \notin Applied
    BY <1>0, <2>2 DEF Applied, Given, RecordTypes
  <2>4. Taken' = Taken
    BY <2>2, <2>3 DEF Taken, Allocated
  <2>5. Owed' = Owed /\ loanStatus' = loanStatus
    BY <2>2 DEF Owed, loan
  <2>6. QED
    BY <1>a, <2>3, <2>4, <2>5
<1>2. ASSUME NEW r \in Repayments, Takes(r) PROVE Account!Next
  <2>1. /\ status[r] = "LEDGER_POSTING" /\ line' = line
        /\ Applied' = Applied \cup {r} /\ r \notin Applied /\ Given' = Given /\ r \notin Given
    BY <1>0, <1>2 DEF Takes, Moves, Applied, Given, RecordTypes
  <2>2. Allocated(r) \in 1..Amount[r] /\ Allocated(r)' = Allocated(r)
    <3>1. Allocated(r) \in Nat /\ 0 < Allocated(r) /\ Allocated(r) <= Amount[r] /\ Amount[r] \in Nat
      BY <1>0, <2>1, LineTotals, RepaymentsAssumption DEF LinesWithinAmount
    <3>2. QED
      BY <2>1, <3>1 DEF Allocated
  <2>3. Taken' = [Taken EXCEPT ![r] = Allocated(r)] /\ Taken[r] = 0
    BY <2>1 DEF Taken, Allocated
  <2>4. Owed = Owed' + 1 * Allocated(r)
    BY <1>2, OwedMoves DEF Takes
  <2>5. Owed' = Owed - Allocated(r) /\ Allocated(r) <= Owed
    BY <1>c, <2>2, <2>4, RepaymentsAssumption DEF ClosedInv
  <2>6. (loanStatus' = "SETTLED") = (Owed' = 0)
    BY <1>c DEF ClosedInv
  <2>7. QED
    BY <1>b, <2>1, <2>2, <2>3, <2>5, <2>6
<1>3. ASSUME NEW r \in Repayments, GivesBack(r) PROVE Account!Next
  <2>1. /\ r \in Applied /\ line' = line
        /\ Applied' = Applied \ {r} /\ Given' = Given \cup {r}
    BY <1>0, <1>3 DEF GivesBack, Moves, Applied, Given, RecordTypes
  <2>2. Taken[r] = Allocated(r) /\ Allocated(r) \in Nat /\ Allocated(r) > 0
    BY <1>0, <2>1, LineTotals DEF Taken, LinesWithinAmount, Applied
  <2>3. Taken' = [Taken EXCEPT ![r] = 0]
    BY <2>1 DEF Taken, Allocated
  <2>4. Owed = Owed' + (-1) * Allocated(r)
    BY <1>3, OwedMoves DEF GivesBack
  <2>5. Owed' = Owed + Taken[r]
    BY <1>c, <2>2, <2>4 DEF ClosedInv
  <2>6. (loanStatus' = "SETTLED") = (Owed' = 0)
    BY <1>c DEF ClosedInv
  <2>7. QED
    BY <1>d, <2>1, <2>2, <2>3, <2>5, <2>6
<1>4. CASE Same
  <2>1. Owed' = Owed /\ Taken' = Taken /\ Given' = Given /\ loanStatus' = loanStatus
    BY <1>4 DEF Same, Owed, Taken, Given, Applied, Allocated
  <2>2. QED
    BY <1>a, <2>1
<1>5. QED
  BY <1>1, <1>2, <1>3, <1>4, WhatStepsDo

\* Whatever calls overlap, die or are repeated, the loan's account takes each payment at most
\* once and within what is owed, and gets back exactly what a reversed one had settled.
THEOREM AccountIsKept == Spec => AccountKept
<1>1. Init => Account!Init
  BY AccountStarts
<1>2. IInv /\ MoneyInv /\ MoneyInv' /\ [Next]_vars => [Account!Next]_Account!vars
  BY AccountMoves
<1>3. QED
  BY <1>1, <1>2, Invariance, PTL DEF Spec, AccountKept, Account!Spec

-----------------------------------------------------------------------------
(* The allocation loop. *)

\* The loop has left the slot at place (k, j) behind.
Passed(k, j) == k < component \/ (k = component /\ j < installment)

\* What the slots at a place have, by where the loop is.
Progress ==
    \A k \in 1..4, j \in Installment :
        /\ taken[Visited(k, j)] <= owing[Visited(k, j)]
        /\ Passed(k, j) /\ remaining # 0 => taken[Visited(k, j)] = owing[Visited(k, j)]
        /\ ~Passed(k, j) => taken[Visited(k, j)] = 0

\* PolicyPriority, on places.
PlacePriority ==
    \A k, m \in 1..4, j, n \in Installment :
        (k < m \/ (k = m /\ j < n)) /\ taken[Visited(m, n)] > 0 =>
            taken[Visited(k, j)] = owing[Visited(k, j)]

LoopInv == LoopTypeOK /\ Progress /\ PlacePriority

-----------------------------------------------------------------------------
\* An allocation order names each component at one place only.
LEMMA OrderInjective ==
    ASSUME NEW o \in Orders, NEW k \in 1..4, NEW m \in 1..4, o[k] = o[m]
    PROVE  k = m
<1>1. PICK p, f, n, r \in 1..4 : o[p] = "PENALTY" /\ o[f] = "FEES" /\ o[n] = "INTEREST" /\ o[r] = "PRINCIPAL"
  BY DEF Orders, AllocationComponents
<1>2. p # f /\ p # n /\ p # r /\ f # n /\ f # r /\ n # r
  BY <1>1
<1>3. \A q \in 1..4 : q = p \/ q = f \/ q = n \/ q = r
  BY <1>2
<1> QED
  BY <1>1, <1>3

\* Different places are different slots.
LEMMA PlacesDiffer ==
    ASSUME LoopTypeOK, NEW k \in 1..4, NEW m \in 1..4, NEW j \in Installment, NEW n \in Installment
    PROVE  /\ Visited(k, j) \in ScheduleSlots
           /\ Visited(k, j) = Visited(m, n) => k = m /\ j = n
<1>1. order \in Orders /\ order \in [1..4 -> AllocationComponents]
  BY DEF LoopTypeOK, Orders
<1>2. Visited(k, j) \in ScheduleSlots
  BY <1>1 DEF Visited, ScheduleSlots
<1>3. ASSUME Visited(k, j) = Visited(m, n) PROVE k = m /\ j = n
  <2>1. order[k] = order[m] /\ j = n
    BY <1>3 DEF Visited
  <2> QED
    BY <2>1, <1>1, OrderInjective
<1> QED
  BY <1>2, <1>3

\* What a slot is given in one round: no more than it owes or than remains, and
\* all it owes if something remains afterwards.
LEMMA AppliedBounds ==
    ASSUME NEW o \in Nat, remaining \in Nat
    PROVE  /\ AppliedTo(o) \in Nat /\ AppliedTo(o) <= o
           /\ remaining - AppliedTo(o) \in Nat
           /\ remaining - AppliedTo(o) # 0 => AppliedTo(o) = o
  BY DEF AppliedTo

LEMMA InitLoop == LoopInit => LoopInv
<1> SUFFICES ASSUME LoopInit PROVE LoopInv
  OBVIOUS
<1>1. LoopTypeOK
  <2>1. owing \in [ScheduleSlots -> Nat]
    BY OwingsAssumption DEF LoopInit
  <2>2. amount \in Nat \ {0} /\ remaining \in Nat
    BY AmountsAssumption DEF LoopInit
  <2>3. taken \in [ScheduleSlots -> Nat]
    BY DEF LoopInit
  <2>4. installment \in 1..(Installments + 1) /\ component \in 1..5 /\ order \in Orders
    BY InstallmentsAssumption DEF LoopInit
  <2> QED
    BY <2>1, <2>2, <2>3, <2>4 DEF LoopTypeOK
<1>2. \A k \in 1..4, j \in Installment : Visited(k, j) \in ScheduleSlots
  BY <1>1, PlacesDiffer
<1>3. Progress
  BY <1>1, <1>2 DEF Progress, Passed, LoopInit, LoopTypeOK, Installment
<1>4. PlacePriority
  BY <1>2 DEF PlacePriority, LoopInit
<1> QED
  BY <1>1, <1>3, <1>4 DEF LoopInv

LEMMA NextLoop == LoopInv /\ [LoopNext]_loopVars => LoopInv'
<1> SUFFICES ASSUME LoopInv, [LoopNext]_loopVars PROVE LoopInv'
  OBVIOUS
<1> USE InstallmentsAssumption
<1>0. LoopTypeOK /\ Progress /\ PlacePriority
  BY DEF LoopInv
<1>1. CASE Take
  <2> DEFINE here == Visited(component, installment)
  <2>1. component \in 1..4 /\ installment \in Installment /\ remaining # 0
    BY <1>0, <1>1 DEF Take, LoopTypeOK, Installment
  <2>2. here \in ScheduleSlots
    BY <2>1, <1>0, PlacesDiffer
  <2>3. owing[here] \in Nat /\ remaining \in Nat
    BY <2>2, <1>0 DEF LoopTypeOK
  <2>4. AppliedTo(owing[here]) \in Nat
    BY <2>3, AppliedBounds
  <2>5. AppliedTo(owing[here]) <= owing[here]
    BY <2>3, AppliedBounds
  <2>6. remaining' \in Nat
    BY <2>3, <1>1, AppliedBounds DEF Take
  <2>7. remaining' # 0 => AppliedTo(owing[here]) = owing[here]
    BY <2>3, <1>1, AppliedBounds DEF Take
  <2>8. /\ taken' = [taken EXCEPT ![here] = AppliedTo(owing[here])]
        /\ order' = order /\ owing' = owing /\ amount' = amount
        /\ component' = component /\ installment' = installment + 1
    BY <1>1 DEF Take, inputs
  <2>9. LoopTypeOK'
    BY <1>0, <2>1, <2>2, <2>4, <2>6, <2>8 DEF LoopTypeOK, Installment
  <2>10. \A k \in 1..4, j \in Installment :
            /\ Visited(k, j)' = Visited(k, j) /\ Visited(k, j) \in ScheduleSlots
            /\ (k = component /\ j = installment) => taken'[Visited(k, j)] = AppliedTo(owing[here])
            /\ ~(k = component /\ j = installment) => taken'[Visited(k, j)] = taken[Visited(k, j)]
    <3> SUFFICES ASSUME NEW k \in 1..4, NEW j \in Installment
                 PROVE  /\ Visited(k, j)' = Visited(k, j) /\ Visited(k, j) \in ScheduleSlots
                        /\ (k = component /\ j = installment) => taken'[Visited(k, j)] = AppliedTo(owing[here])
                        /\ ~(k = component /\ j = installment) => taken'[Visited(k, j)] = taken[Visited(k, j)]
      OBVIOUS
    <3>1. Visited(k, j)' = Visited(k, j)
      BY <2>8 DEF Visited
    <3>2. Visited(k, j) \in ScheduleSlots /\ (Visited(k, j) = here => k = component /\ j = installment)
      BY <1>0, <2>1, PlacesDiffer
    <3>3. taken \in [ScheduleSlots -> Nat]
      BY <1>0 DEF LoopTypeOK
    <3> HIDE DEF here
    <3>4. ~(k = component /\ j = installment) => taken'[Visited(k, j)] = taken[Visited(k, j)]
      BY <3>2, <3>3, <2>8
    <3>5. (k = component /\ j = installment) => taken'[Visited(k, j)] = AppliedTo(owing[here])
      BY <3>3, <2>2, <2>8 DEF here
    <3> QED
      BY <3>1, <3>2, <3>4, <3>5
  <2>11. \A k \in 1..4, j \in Installment :
            Passed(k, j)' <=> (Passed(k, j) \/ (k = component /\ j = installment))
    BY <2>1, <2>8 DEF Passed, Installment
  <2> HIDE DEF here
  <2>12. Progress'
    <3> SUFFICES ASSUME NEW k \in 1..4, NEW j \in Installment
                 PROVE  /\ taken'[Visited(k, j)'] <= owing'[Visited(k, j)']
                        /\ Passed(k, j)' /\ remaining' # 0 => taken'[Visited(k, j)'] = owing'[Visited(k, j)']
                        /\ ~Passed(k, j)' => taken'[Visited(k, j)'] = 0
      BY DEF Progress
    <3>1. CASE k = component /\ j = installment
      BY <3>1, <2>5, <2>7, <2>8, <2>10, <2>11 DEF here
    <3>2. CASE ~(k = component /\ j = installment)
      BY <3>2, <1>0, <2>1, <2>8, <2>10, <2>11 DEF Progress
    <3> QED
      BY <3>1, <3>2
  <2>13. PlacePriority'
    <3> SUFFICES ASSUME NEW k \in 1..4, NEW m \in 1..4, NEW j \in Installment, NEW n \in Installment,
                        k < m \/ (k = m /\ j < n), taken'[Visited(m, n)'] > 0
                 PROVE  taken'[Visited(k, j)'] = owing'[Visited(k, j)']
      BY DEF PlacePriority
    <3>1. ~(k = component /\ j = installment)
      <4>1. SUFFICES ASSUME k = component, j = installment PROVE FALSE
        OBVIOUS
      <4>2. ~Passed(m, n) /\ ~(m = component /\ n = installment)
        BY <4>1 DEF Passed, Installment
      <4>3. taken[Visited(m, n)] = 0
        BY <4>2, <1>0 DEF Progress
      <4> QED
        BY <4>2, <4>3, <2>10
    <3>2. taken'[Visited(k, j)'] = taken[Visited(k, j)] /\ owing'[Visited(k, j)'] = owing[Visited(k, j)]
      BY <3>1, <2>8, <2>10
    <3>3. CASE m = component /\ n = installment
      <4>1. Passed(k, j)
        BY <3>3 DEF Passed
      <4> QED
        BY <4>1, <3>2, <2>1, <1>0 DEF Progress
    <3>4. CASE ~(m = component /\ n = installment)
      <4>1. taken[Visited(m, n)] > 0
        BY <3>4, <2>10
      <4> QED
        BY <4>1, <3>2, <1>0 DEF PlacePriority
    <3> QED
      BY <3>3, <3>4
  <2> QED
    BY <2>9, <2>12, <2>13 DEF LoopInv
<1>2. CASE NextComponent
  <2>1. /\ order' = order /\ owing' = owing /\ amount' = amount /\ taken' = taken
        /\ remaining' = remaining /\ component' = component + 1 /\ installment' = 1
        /\ component \in 1..4 /\ installment > Installments
    BY <1>0, <1>2 DEF NextComponent, inputs, LoopTypeOK
  <2>2. LoopTypeOK'
    BY <1>0, <2>1 DEF LoopTypeOK
  <2>3. \A k \in 1..4, j \in Installment : Passed(k, j)' <=> Passed(k, j)
    BY <1>0, <2>1 DEF Passed, Installment, LoopTypeOK
  <2>4. \A k \in 1..4, j \in Installment : Visited(k, j)' = Visited(k, j)
    BY <2>1 DEF Visited
  <2>5. Progress' /\ PlacePriority'
    BY <1>0, <2>1, <2>3, <2>4 DEF Progress, PlacePriority
  <2> QED
    BY <2>2, <2>5 DEF LoopInv
<1>3. CASE UNCHANGED loopVars
  BY <1>0, <1>3 DEF LoopInv, LoopTypeOK, Progress, PlacePriority, Passed, Visited, loopVars, inputs
<1> QED
  BY <1>1, <1>2, <1>3 DEF LoopNext

\* The loop keeps its types: what remains of a repayment is never negative.
THEOREM LoopTypeCorrect == LoopSpec => []LoopTypeOK
<1>1. LoopInv => LoopTypeOK
  BY DEF LoopInv
<1> QED
  BY <1>1, InitLoop, NextLoop, PTL DEF LoopSpec

\* Every slot is at one of the places the loop visits.
LEMMA SlotsVisited ==
    ASSUME LoopTypeOK, NEW s \in ScheduleSlots, NEW k \in 1..4, order[k] = s[1]
    PROVE  s[2] \in Installment /\ Visited(k, s[2]) = s
  BY DEF ScheduleSlots, Visited

\* For schedules of any length: no slot is paid before those the policy puts first.
THEOREM PriorityHolds == LoopSpec => []PolicyPriority
<1>1. LoopInv => PolicyPriority
  <2> SUFFICES ASSUME LoopInv, NEW s \in ScheduleSlots, NEW t \in ScheduleSlots, Before(s, t), taken[t] > 0
               PROVE  taken[s] = owing[s]
    BY DEF PolicyPriority
  <2>1. PICK k, m \in 1..4 : order[k] = s[1] /\ order[m] = t[1] /\ (k < m \/ (k = m /\ s[2] < t[2]))
    BY DEF Before
  <2>2. /\ s[2] \in Installment /\ Visited(k, s[2]) = s
        /\ t[2] \in Installment /\ Visited(m, t[2]) = t
    BY <2>1, SlotsVisited DEF LoopInv
  <2> QED
    BY <2>1, <2>2 DEF LoopInv, PlacePriority
<1> QED
  BY <1>1, InitLoop, NextLoop, PTL DEF LoopSpec

\* For schedules of any length: no slot is overpaid, and an amount is left over
\* only when everything owed has been paid.
THEOREM NothingIsWithheld == LoopSpec => []NothingWithheld
<1>1. LoopInv => NothingWithheld
  <2> SUFFICES ASSUME LoopInv, NEW s \in ScheduleSlots
               PROVE  taken[s] <= owing[s] /\ (Done /\ remaining > 0 => taken[s] = owing[s])
    BY DEF NothingWithheld
  <2>1. PICK k \in 1..4 : order[k] = s[1]
    BY DEF LoopInv, LoopTypeOK, Orders, ScheduleSlots
  <2>2. s[2] \in Installment /\ Visited(k, s[2]) = s
    BY <2>1, SlotsVisited DEF LoopInv
  <2>3. taken[s] <= owing[s] /\ (Passed(k, s[2]) /\ remaining # 0 => taken[s] = owing[s])
    BY <2>2 DEF LoopInv, Progress
  <2>4. Done /\ remaining > 0 => Passed(k, s[2]) /\ remaining # 0
    BY DEF Done, Passed, LoopInv, LoopTypeOK
  <2> QED
    BY <2>3, <2>4
<1> QED
  BY <1>1, InitLoop, NextLoop, PTL DEF LoopSpec

\* For every schedule, order and amount: the loop does what the policy promises.
THEOREM PolicyHolds == LoopSpec => []AllocatedByPolicy
  BY PriorityHolds, NothingIsWithheld, PTL DEF AllocatedByPolicy

-----------------------------------------------------------------------------
(* The slots numbered by priority. *)

SlotAt(n)    == Visited((n - 1) \div Installments + 1, ((n - 1) % Installments) + 1)
Number(k, j) == (k - 1) * Installments + j
Numbers      == 1..(4 * Installments)

\* What they owe and are given.
OwedAt  == [n \in Numbers |-> owing[SlotAt(n)]]
GivenAt == [n \in Numbers |-> taken[SlotAt(n)]]

\* Every place has a number,
LEMMA NumberOfPlace ==
    ASSUME NEW k \in 1..4, NEW j \in Installment
    PROVE  Number(k, j) \in Numbers /\ SlotAt(Number(k, j)) = Visited(k, j)
<1>1. Installments \in Nat \ {0} /\ j \in 1..Installments
  BY InstallmentsAssumption DEF Installment
<1>2. /\ Number(k, j) \in Numbers
      /\ (Number(k, j) - 1) \div Installments = k - 1
      /\ (Number(k, j) - 1) % Installments = j - 1
  <2>1. CASE k = 1
    BY <1>1, <2>1 DEF Number, Numbers
  <2>2. CASE k = 2
    BY <1>1, <2>2 DEF Number, Numbers
  <2>3. CASE k = 3
    BY <1>1, <2>3 DEF Number, Numbers
  <2>4. CASE k = 4
    BY <1>1, <2>4 DEF Number, Numbers
  <2> QED
    BY <2>1, <2>2, <2>3, <2>4
<1>3. k - 1 + 1 = k /\ j - 1 + 1 = j
  BY <1>1
<1> QED
  BY <1>2, <1>3 DEF SlotAt

\* and every number a place.
LEMMA PlaceOfNumber ==
    ASSUME NEW n \in Numbers
    PROVE  \E k \in 1..4, j \in Installment : n = Number(k, j) /\ SlotAt(n) = Visited(k, j)
<1> DEFINE q == (n - 1) \div Installments
           r == (n - 1) % Installments
<1>1. Installments \in Nat \ {0} /\ n - 1 \in Nat /\ n - 1 < 4 * Installments
  BY InstallmentsAssumption DEF Numbers
<1>2. n - 1 = Installments * q + r /\ r \in 0..(Installments - 1) /\ q \in Int
  BY <1>1
<1> HIDE DEF q, r
<1>3. q \in 0..3
  <2>1. q >= 0
    BY <1>1, <1>2
  <2>2. q < 4
    BY <1>1, <1>2
  <2> QED
    BY <1>2, <2>1, <2>2
<1>4. q + 1 \in 1..4 /\ r + 1 \in Installment
  BY <1>1, <1>2, <1>3 DEF Installment
<1>5. n = Number(q + 1, r + 1)
  BY <1>1, <1>2, <1>3 DEF Number, Numbers
<1> QED
  BY <1>4, <1>5 DEF SlotAt, q, r

\* Numbers are in the order of the places.
LEMMA NumbersInOrder ==
    ASSUME NEW k \in 1..4, NEW m \in 1..4, NEW j \in Installment, NEW n \in Installment,
           Number(k, j) < Number(m, n)
    PROVE  k < m \/ (k = m /\ j < n)
<1>1. Installments \in Nat /\ j \in 1..Installments /\ n \in 1..Installments
  BY InstallmentsAssumption DEF Installment
<1>2. ASSUME m < k PROVE FALSE
  <2>1. k - m \in 1..3
    BY <1>2
  <2>2. CASE k - m = 1
    BY <1>1, <2>2, k = m + 1 DEF Number
  <2>3. CASE k - m = 2
    BY <1>1, <2>3, k = m + 2 DEF Number
  <2>4. CASE k - m = 3
    BY <1>1, <2>4, k = m + 3 DEF Number
  <2> QED
    BY <2>1, <2>2, <2>3, <2>4
<1>3. ASSUME m = k PROVE j < n
  BY <1>1, <1>3 DEF Number
<1> QED
  BY <1>2, <1>3

-----------------------------------------------------------------------------
(* The amount is what has been given and what remains. *)

Accounted == amount = remaining + Total(taken, ScheduleSlots) /\ amount = remaining + Total(GivenAt, Numbers)

LEMMA FiniteSlots == IsFiniteSet(ScheduleSlots) /\ IsFiniteSet(Numbers)
<1>1. IsFiniteSet(AllocationComponents)
  <2>1. IsFiniteSet({"PENALTY"}) /\ IsFiniteSet({"FEES"}) /\ IsFiniteSet({"INTEREST"}) /\ IsFiniteSet({"PRINCIPAL"})
    BY FS_Singleton
  <2>2. IsFiniteSet({"PENALTY"} \cup {"FEES"}) /\ IsFiniteSet({"INTEREST"} \cup {"PRINCIPAL"})
    BY <2>1, FS_Union
  <2>3. AllocationComponents = ({"PENALTY"} \cup {"FEES"}) \cup ({"INTEREST"} \cup {"PRINCIPAL"})
    BY DEF AllocationComponents
  <2> QED
    BY <2>2, <2>3, FS_Union
<1>2. IsFiniteSet(Installment) /\ IsFiniteSet(Numbers)
  BY InstallmentsAssumption, FS_Interval, 4 * Installments \in Int DEF Installment, Numbers
<1> QED
  BY <1>1, <1>2, FS_Product DEF ScheduleSlots

\* What a number's slot owes and is given, by its place.
LEMMA SlotsNumbered ==
    ASSUME LoopTypeOK
    PROVE  /\ OwedAt \in [Numbers -> Nat] /\ GivenAt \in [Numbers -> Nat]
           /\ \A k \in 1..4, j \in Installment :
                 /\ OwedAt[Number(k, j)] = owing[Visited(k, j)]
                 /\ GivenAt[Number(k, j)] = taken[Visited(k, j)]
<1>1. \A n \in Numbers : SlotAt(n) \in ScheduleSlots
  BY PlaceOfNumber, PlacesDiffer
<1>2. OwedAt \in [Numbers -> Nat] /\ GivenAt \in [Numbers -> Nat]
  BY <1>1 DEF LoopTypeOK, OwedAt, GivenAt
<1> QED
  BY <1>2, NumberOfPlace DEF OwedAt, GivenAt

LEMMA InitAccounted == LoopInit => Accounted
<1> SUFFICES ASSUME LoopInit PROVE Accounted
  OBVIOUS
<1>1. LoopTypeOK
  BY InitLoop DEF LoopInv
<1>2. \A s \in ScheduleSlots : taken[s] = 0
  BY DEF LoopInit
<1>3. \A n \in Numbers : GivenAt[n] = 0
  BY <1>1, <1>2, PlaceOfNumber, PlacesDiffer DEF GivenAt
<1>4. Total(taken, ScheduleSlots) = 0 /\ Total(GivenAt, Numbers) = 0
  BY <1>2, <1>3, FiniteSlots, TotalOfZeros
<1>5. remaining = amount /\ remaining \in Nat
  BY <1>1 DEF LoopInit, LoopTypeOK
<1> QED
  BY <1>4, <1>5 DEF Accounted

\* What a slot is given is taken from what remains, and it had nothing before.
LEMMA NextAccounted == LoopInv /\ Accounted /\ [LoopNext]_loopVars => Accounted'
<1> SUFFICES ASSUME LoopInv, Accounted, [LoopNext]_loopVars PROVE Accounted'
  OBVIOUS
<1>0. LoopTypeOK /\ LoopTypeOK' /\ Progress
  BY NextLoop DEF LoopInv
<1>1. CASE Take
  <2> DEFINE here  == Visited(component, installment)
             there == Number(component, installment)
             given == AppliedTo(owing[here])
  <2>1. /\ component \in 1..4 /\ installment \in Installment
        /\ order' = order /\ owing' = owing /\ amount' = amount
        /\ taken' = [taken EXCEPT ![here] = given] /\ remaining' = remaining - given
    BY <1>0, <1>1 DEF Take, LoopTypeOK, Installment, inputs
  <2>2. here \in ScheduleSlots /\ there \in Numbers
    BY <1>0, <2>1, PlacesDiffer, NumberOfPlace
  <2>3. taken[here] = 0
    BY <1>0, <2>1 DEF Progress, Passed, Installment
  <2>4. /\ taken \in [ScheduleSlots -> Nat] /\ taken' \in [ScheduleSlots -> Nat]
        /\ remaining \in Nat /\ remaining' \in Nat
    BY <1>0 DEF LoopTypeOK
  <2>5. GivenAt \in [Numbers -> Nat] /\ GivenAt' \in [Numbers -> Nat]
    <3>1. GivenAt' = [n \in Numbers |-> taken'[SlotAt(n)]]
      BY <2>1 DEF GivenAt, SlotAt, Visited
    <3>2. \A n \in Numbers : SlotAt(n) \in ScheduleSlots
      BY <1>0, PlaceOfNumber, PlacesDiffer
    <3> QED
      BY <1>0, <2>4, <3>1, <3>2, SlotsNumbered
  <2>6. GivenAt[there] = 0 /\ GivenAt'[there] = taken'[here] /\ \A n \in Numbers \ {there} : GivenAt'[n] = GivenAt[n]
    <3>1. GivenAt' = [n \in Numbers |-> taken'[SlotAt(n)]]
      BY <2>1 DEF GivenAt, SlotAt, Visited
    <3>2. SlotAt(there) = here
      BY <2>1, NumberOfPlace
    <3>3. ASSUME NEW n \in Numbers \ {there} PROVE SlotAt(n) \in ScheduleSlots /\ SlotAt(n) # here
      BY <1>0, <2>1, PlaceOfNumber, PlacesDiffer
    <3> HIDE DEF here, there, given
    <3>4. \A n \in Numbers \ {there} : GivenAt'[n] = GivenAt[n]
      BY <2>1, <2>4, <3>1, <3>3 DEF GivenAt
    <3> QED
      BY <2>2, <2>3, <3>1, <3>2, <3>4 DEF GivenAt
  <2>7. given \in Nat /\ taken'[here] = given
    <3>1. owing[here] \in Nat
      BY <1>0, <2>2 DEF LoopTypeOK
    <3>2. given \in Nat
      BY <2>4, <3>1, AppliedBounds
    <3> HIDE DEF given, here
    <3> QED
      BY <2>1, <2>2, <2>4, <3>2
  <2> HIDE DEF here, there, given
  <2>8. Total(taken', ScheduleSlots) = Total(taken, ScheduleSlots) + given
    <3>1. \A s \in ScheduleSlots : taken[s] \in Int /\ taken'[s] \in Int
      BY <2>4
    <3>2. \A s \in ScheduleSlots \ {here} : taken'[s] = taken[s]
      BY <2>1, <2>4
    <3>3. Total(taken', ScheduleSlots) = Total(taken, ScheduleSlots) + (taken'[here] - taken[here])
      BY <2>2, <3>1, <3>2, FiniteSlots, TotalChanged
    <3> QED
      BY <2>3, <2>7, <3>3
  <2>9. Total(GivenAt', Numbers) = Total(GivenAt, Numbers) + given
    <3>1. \A n \in Numbers : GivenAt[n] \in Int /\ GivenAt'[n] \in Int
      BY <2>5
    <3>2. there \in Numbers /\ IsFiniteSet(Numbers) /\ \A n \in Numbers \ {there} : GivenAt'[n] = GivenAt[n]
      BY <2>2, <2>6, FiniteSlots
    <3>3. Total(GivenAt', Numbers) = Total(GivenAt, Numbers) + (GivenAt'[there] - GivenAt[there])
      BY <3>1, <3>2, TotalChanged
    <3> QED
      BY <2>6, <2>7, <3>3
  <2>10. Total(taken, ScheduleSlots) \in Nat /\ Total(GivenAt, Numbers) \in Nat
    BY <2>4, <2>5, FiniteSlots, TotalOfNaturals
  <2>11. amount' = remaining' + Total(taken', ScheduleSlots) /\ amount' = remaining' + Total(GivenAt', Numbers)
    BY <2>1, <2>4, <2>7, <2>8, <2>9, <2>10 DEF Accounted
  <2> QED
    BY <2>11 DEF Accounted
<1>2. CASE NextComponent \/ UNCHANGED loopVars
  BY <1>2 DEF NextComponent, loopVars, inputs, Accounted, GivenAt, SlotAt, Visited
<1> QED
  BY <1>1, <1>2 DEF LoopNext

\* For every schedule, order and amount, the loop ends with what the rule gives, and
\* lines and rest make up the repayment.
THEOREM RuleComputed == LoopSpec => []ByTheRule
<1>1. LoopInv /\ AllocatedByPolicy /\ Accounted => ByTheRule
  <2> SUFFICES ASSUME LoopInv, AllocatedByPolicy, Accounted, Done PROVE
                 /\ \A n \in DOMAIN OwedAt : taken[SlotAt(n)] = Greedy(OwedAt, amount)[n]
                 /\ amount = remaining + Total(taken, ScheduleSlots)
    BY DEF ByTheRule, OwedAt, SlotAt, Numbers
  <2>1. LoopTypeOK /\ PlacePriority /\ remaining \in Nat /\ 4 * Installments \in Nat
    BY InstallmentsAssumption DEF LoopInv, LoopTypeOK
  <2>2. OwedAt \in [Numbers -> Nat] /\ GivenAt \in [Numbers -> Nat]
    BY <2>1, SlotsNumbered
  <2>3. \A n \in Numbers : SlotAt(n) \in ScheduleSlots
    BY <2>1, PlaceOfNumber, PlacesDiffer
  <2>4. \A n \in Numbers : GivenAt[n] <= OwedAt[n] /\ (remaining > 0 => GivenAt[n] = OwedAt[n])
    BY <2>3 DEF AllocatedByPolicy, NothingWithheld, GivenAt, OwedAt
  <2>5. ASSUME NEW m \in Numbers, NEW n \in Numbers, m < n, GivenAt[n] > 0
        PROVE  GivenAt[m] = OwedAt[m]
    <3>1. PICK k \in 1..4, j \in Installment : m = Number(k, j) /\ SlotAt(m) = Visited(k, j)
      BY PlaceOfNumber
    <3>2. PICK l \in 1..4, h \in Installment : n = Number(l, h) /\ SlotAt(n) = Visited(l, h)
      BY PlaceOfNumber
    <3>3. k < l \/ (k = l /\ j < h)
      BY <2>5, <3>1, <3>2, NumbersInOrder
    <3>4. taken[Visited(l, h)] > 0
      BY <2>5, <3>2 DEF GivenAt
    <3>5. taken[Visited(k, j)] = owing[Visited(k, j)]
      BY <2>1, <3>3, <3>4 DEF PlacePriority
    <3> QED
      BY <3>1, <3>5 DEF GivenAt, OwedAt
  <2>6. amount = remaining + Total(GivenAt, Numbers)
    BY DEF Accounted
  <2>7. \A n \in Numbers : GivenAt[n] = Greedy(OwedAt, amount)[n]
    <3> DEFINE last == 4 * Installments
    <3>1. Numbers = 1..last /\ last \in Nat
      BY <2>1 DEF Numbers
    <3> HIDE DEF last
    <3>2. /\ OwedAt \in [1..last -> Nat] /\ GivenAt \in [1..last -> Nat]
          /\ amount = remaining + Total(GivenAt, 1..last)
          /\ \A n \in 1..last : GivenAt[n] <= OwedAt[n]
          /\ \A m, n \in 1..last : m < n /\ GivenAt[n] > 0 => GivenAt[m] = OwedAt[m]
          /\ remaining > 0 => \A n \in 1..last : GivenAt[n] = OwedAt[n]
      BY <3>1, <2>2, <2>4, <2>5, <2>6
    <3>3. last \in Nat /\ remaining \in Nat
      BY <2>1, <3>1
    <3>4. \A n \in 1..last : GivenAt[n] = Greedy(OwedAt, amount)[n]
      BY <3>2, <3>3, GreedyOnly, ZenonT(60)
    <3> QED
      BY <3>1, <3>4
  <2> QED
    BY <2>2, <2>7 DEF GivenAt, Accounted
<1>2. LoopSpec => [](LoopInv /\ Accounted)
  BY InitLoop, NextLoop, InitAccounted, NextAccounted, PTL DEF LoopSpec
<1> QED
  BY <1>1, <1>2, PolicyHolds, PTL
================================================================================
