---------------------------- MODULE ServicingProofs ----------------------------
(***************************************************************************)
(* Proofs about Servicing, for any schedule, policy, postings and          *)
(* overlapping calls, any number of which die.                             *)
(*                                                                         *)
(* IInv ties records, ledger, loan and installments together, with what a  *)
(* call may rely on at the point it has reached.  The promises that end    *)
(* once calls cross each other rest on what the calls in progress have     *)
(* read, which HInv states: the bucket in force, and what the penalties    *)
(* posted so far leave of the cap.                                         *)
(***************************************************************************)
EXTENDS ServicingHistory, Sums

\* What a call may rely on at the point it has reached.
CallInv(c) ==
    LET k == call[c].posting  t == call[c].target IN
    /\ call[c].at \in {"installment", "sum", "insert"} =>
          k \in Postings /\ t.kind \in {"accrual", "penalty"} /\ t.installment \in Installment
    /\ call[c].at \in {"post", "complete"} => k \in Postings /\ row[k].status # "NONE"
    /\ At(c, "complete") => k \in posted
    /\ call[c].at \in {"oldest", "assess"} => t.date \in Dates

CallsInv == \A c \in Calls : CallInv(c)

RowsInv ==
    \A k \in Postings : row[k].status # "NONE" =>
        row[k].target.kind \in {"accrual", "penalty"} /\ row[k].target.installment \in Installment

\* TypeOK, but for the balances that are natural numbers because they are totals.
CallType == [at : Points, posting : Postings \cup {NoPosting}, target : Targets, bucket : Nat]
RowType  == [status : {"NONE", "POSTING", "POSTED"}, target : Targets]

Types ==
    /\ loanStatus \in Serviceable \cup {"SETTLED"}
    /\ daysPastDue \in Nat /\ bucket \in Nat /\ accruedThrough \in Nat
    /\ paid \subseteq Installment
    /\ penaltyDue \in [Installment -> Nat] /\ penaltyPaid \in [Installment -> Nat]
    /\ row \in [Postings -> RowType]
    /\ assessed \subseteq Dates /\ announced \in Nat
    /\ posted \subseteq Postings
    /\ call \in [Calls -> CallType]
    /\ aborts \in 0..MaxAborts

IInv ==
    /\ Types /\ CallsInv /\ RowsInv
    /\ PostedByTheBook /\ OwedIsScheduleAndPenalties /\ OverdueIffPastDue

\* Until assessments cross, the only one in progress has read the bucket in force.
CrossedInv ==
    ~crossed =>
        /\ ~Several(Assessing)
        /\ \A c \in Assessing : call[c].bucket = bucket
        /\ announced = bucket

\* The penalty t still fits under the cap.
FitsCap(t) == t.kind = "penalty" => t.amount + CumulativeBefore(t.installment) <= Cap

\* Until two are on their way at the same time, the penalty that is on its way fits.
PendingInv ==
    ~pending =>
        /\ \A i \in Installment : ~Several(OnItsWay(i)) /\ CumulativeBefore(i) <= Cap
        /\ \A k \in Postings : row[k].status = "POSTING" => FitsCap(row[k].target)
        /\ \A c \in Calls : At(c, "insert") /\ row[call[c].posting].status = "NONE" => FitsCap(call[c].target)

HInv == SettledUnlessLate /\ CrossedInv /\ PendingInv

LEMMA TypeParts == TypeOK <=> Types /\ scheduled \in Nat /\ penalties \in Nat
  BY DEF TypeOK, Types, CallType, RowType

-----------------------------------------------------------------------------
(* The calls. *)

LEMMA NoTargetType == NoTarget \in Targets
<1>1. 0 \in 0..Installments
  BY ScheduleAssumption
<1> QED
  BY <1>1 DEF NoTarget, Targets

LEMMA Ended ==
  ASSUME call \in [Calls -> CallType], NEW c \in Calls, End(c)
  PROVE  /\ call' \in [Calls -> CallType]
         /\ call'[c] = Idle
         /\ \A d \in Calls \ {c} : call'[d] = call[d]
<1>1. Idle \in CallType
  BY NoTargetType DEF Idle, CallType, Points
<1> QED
  BY <1>1 DEF End

LEMMA Gone ==
  ASSUME call \in [Calls -> CallType], NEW c \in Calls, NEW point \in Points, GoTo(c, point)
  PROVE  /\ call' \in [Calls -> CallType]
         /\ call'[c].at = point /\ call'[c].posting = call[c].posting
         /\ call'[c].target = call[c].target /\ call'[c].bucket = call[c].bucket
         /\ \A d \in Calls \ {c} : call'[d] = call[d]
  BY DEF GoTo, CallType

LEMMA Begun ==
  ASSUME call \in [Calls -> CallType], NEW c \in Calls, NEW point \in Points,
         NEW k \in Postings \cup {NoPosting}, NEW target \in Targets, NEW b \in Nat,
         Begin(c, point, k, target, b)
  PROVE  /\ call' \in [Calls -> CallType]
         /\ call'[c].at = point /\ call'[c].posting = k
         /\ call'[c].target = target /\ call'[c].bucket = b
         /\ \A d \in Calls \ {c} : call'[d] = call[d]
  BY DEF Begin, CallType

LEMMA Finds ==
  ASSUME call \in [Calls -> CallType], NEW c \in Calls, NEW point \in Points, NEW found \in Nat,
         Found(c, point, found)
  PROVE  /\ call' \in [Calls -> CallType]
         /\ call'[c].at = point /\ call'[c].posting = call[c].posting
         /\ call'[c].target = [call[c].target EXCEPT !.amount = found]
         /\ call'[c].bucket = call[c].bucket
         /\ \A d \in Calls \ {c} : call'[d] = call[d]
<1>1. call[c].target \in Targets
  BY DEF CallType
<1>2. [call[c].target EXCEPT !.amount = found] \in Targets
  BY <1>1 DEF Targets
<1>3. call[c].posting \in Postings \cup {NoPosting} /\ call[c].bucket \in Nat
  BY DEF CallType
<1>4. Begin(c, point, call[c].posting, [call[c].target EXCEPT !.amount = found], call[c].bucket)
  BY DEF Found
<1> QED
  BY <1>2, <1>3, <1>4, Begun

LEMMA TargetType ==
  ASSUME NEW kind \in {"accrual", "penalty", "delinquency"}, NEW i \in 0..Installments, NEW date \in Nat
  PROVE  Target(kind, i, date) \in Targets
  BY DEF Target, Targets

\* The oldest of some installments.
LEMMA OldestExists ==
  ASSUME NEW S \in SUBSET Installment, S # {}
  PROVE  \E i \in S : \A j \in S : DueDate[i] <= DueDate[j]
<1> DEFINE days == {DueDate[i] : i \in S}
<1>1. days \subseteq Nat
  BY ScheduleAssumption
<1>2. PICK n \in Nat : n \in days
  BY <1>1
<1> DEFINE Bad == {0..m : m \in {m \in days : m <= n}}
<1>3. IsFiniteSet(0..n) /\ Bad \subseteq SUBSET (0..n) /\ Bad # {}
  <2>1. IsFiniteSet(0..n)
    BY FS_Interval
  <2>2. \A m \in days : m <= n => 0..m \subseteq 0..n
    BY <1>1
  <2>3. 0..n \in Bad
    BY <1>2
  <2> QED
    BY <2>1, <2>2, <2>3
<1>4. PICK T \in Bad : \A U \in Bad : U \subseteq T => U = T
  <2> DEFINE S0 == 0..n
  <2>1. IsFiniteSet(S0) /\ Bad \in SUBSET (SUBSET S0) /\ Bad # {}
    BY <1>3
  <2> HIDE DEF Bad, S0
  <2> QED
    BY <2>1, MinimalSet
<1>5. PICK m \in Nat : m \in days /\ m <= n /\ T = 0..m
  BY <1>1, <1>4
<1>6. ASSUME NEW d \in days PROVE m <= d
  <2>1. d \in Nat
    BY <1>1
  <2>2. CASE d < m
    <3>1. 0..d \in Bad /\ 0..d \subseteq T
      BY <2>1, <2>2, <1>5
    <3>2. 0..d = 0..m
      BY <3>1, <1>4, <1>5
    <3>3. m \in 0..d
      <4>1. m \in 0..m
        BY <1>5
      <4> QED
        BY <4>1, <3>2
    <3> QED
      BY <3>3, <2>1, <2>2
  <2> QED
    BY <2>1, <2>2, <1>5
<1> QED
  BY <1>5, <1>6

LEMMA OldestType == ASSUME NEW date \in Nat PROVE Oldest(date) \in Nat
<1>1. CASE Unpaid = {}
  BY <1>1 DEF Oldest
<1>2. CASE Unpaid # {}
  <2> DEFINE i == CHOOSE i \in Unpaid : \A j \in Unpaid : DueDate[i] <= DueDate[j]
  <2>1. Unpaid \subseteq Installment
    BY DEF Unpaid
  <2>2. i \in Installment
    BY <2>1, <1>2, OldestExists
  <2>3. DueDate[i] \in Nat /\ Grace \in Nat
    BY <2>2, ScheduleAssumption, PolicyAssumption
  <2>4. DaysPastDue(date, DueDate[i]) \in Nat
    <3> HIDE DEF i
    <3> QED
      BY <2>3 DEF DaysPastDue
  <2> QED
    BY <2>4, <1>2 DEF Oldest
<1> QED
  BY <1>1, <1>2

LEMMA BucketType == ASSUME NEW days \in Nat PROVE Bucket(days) \in Nat
<1>1. IsFiniteSet({m \in Buckets : m <= days})
  BY PolicyAssumption, FS_Subset
<1> QED
  BY <1>1, FS_CardinalityType DEF Bucket

-----------------------------------------------------------------------------
(* Penalties and their totals. *)

LEMMA FinitePenalties ==
  ASSUME NEW i, NEW statuses
  PROVE  /\ PenaltiesOf(i, statuses) \subseteq Postings /\ IsFiniteSet(PenaltiesOf(i, statuses))
         /\ PenaltiesOf(i, statuses)' \subseteq Postings /\ IsFiniteSet(PenaltiesOf(i, statuses)')
<1>1. PenaltiesOf(i, statuses) \subseteq Postings /\ PenaltiesOf(i, statuses)' \subseteq Postings
  BY DEF PenaltiesOf
<1> QED
  BY <1>1, PostingsAssumption, FS_Subset

LEMMA AmountsType ==
  ASSUME row \in [Postings -> RowType]
  PROVE  \A k \in Postings : Amounts[k] = row[k].target.amount /\ Amounts[k] \in Nat
  BY DEF Amounts, RowType, Targets

LEMMA BeforeType ==
  ASSUME row \in [Postings -> RowType], NEW i
  PROVE  CumulativeBefore(i) \in Nat
<1>1. \A k \in PenaltiesOf(i, {"POSTED"}) : Amounts[k] \in Nat
  BY FinitePenalties, AmountsType
<1>2. Total(Amounts, PenaltiesOf(i, {"POSTED"})) \in Nat
  BY <1>1, FinitePenalties, TotalOfNaturals
<1> QED
  BY <1>2 DEF CumulativeBefore

\* The sum stays while the POSTED rows do.
LEMMA BeforeKept ==
  ASSUME row \in [Postings -> RowType], NEW i,
         \A k \in Postings :
             /\ row'[k].status = "POSTED" <=> row[k].status = "POSTED"
             /\ row[k].status = "POSTED" => row'[k].target = row[k].target
  PROVE  CumulativeBefore(i)' = CumulativeBefore(i)
<1> DEFINE S == PenaltiesOf(i, {"POSTED"})
<1>1. PenaltiesOf(i, {"POSTED"})' = S
  BY DEF PenaltiesOf
<1>2. ASSUME NEW k \in S PROVE Amounts'[k] = Amounts[k]
  <2>1. k \in Postings /\ row[k].status = "POSTED"
    BY DEF PenaltiesOf
  <2> QED
    BY <2>1 DEF Amounts
<1>3. IsFiniteSet(S)
  BY FinitePenalties
<1>4. CumulativeBefore(i) = Total(Amounts, S) /\ CumulativeBefore(i)' = Total(Amounts', S)
  BY <1>1 DEF CumulativeBefore
<1> HIDE DEF S
<1>5. \A k \in S : Amounts'[k] = Amounts[k]
  BY <1>2
<1>6. Total(Amounts', S) = Total(Amounts, S)
  BY <1>3, <1>5, TotalSame
<1> QED
  BY <1>4, <1>6

\* It grows by the penalty that becomes POSTED.
LEMMA BeforeGrows ==
  ASSUME row \in [Postings -> RowType], NEW i, NEW k \in Postings, row[k].status # "POSTED",
         row' = [row EXCEPT ![k].status = "POSTED"]
  PROVE  CumulativeBefore(i)' = CumulativeBefore(i) +
             IF row[k].target.kind = "penalty" /\ row[k].target.installment = i
                 THEN row[k].target.amount ELSE 0
<1> DEFINE S == PenaltiesOf(i, {"POSTED"})
<1>1. /\ row'[k].status = "POSTED" /\ row'[k].target = row[k].target
      /\ \A j \in Postings \ {k} : row'[j] = row[j]
  BY DEF RowType
<1>2. Amounts' = Amounts
  BY <1>1 DEF Amounts
<1>3. IsFiniteSet(S) /\ S \subseteq Postings /\ k \notin S
  BY FinitePenalties DEF PenaltiesOf
<1>4. \A j \in Postings : Amounts[j] \in Int
  BY AmountsType
<1>5. CASE row[k].target.kind = "penalty" /\ row[k].target.installment = i
  <2>1. PenaltiesOf(i, {"POSTED"})' = S \cup {k}
    BY <1>1, <1>5 DEF PenaltiesOf
  <2>2. CumulativeBefore(i)' = Total(Amounts, S \cup {k}) /\ CumulativeBefore(i) = Total(Amounts, S)
    BY <1>2, <2>1 DEF CumulativeBefore
  <2>3. \A j \in S \cup {k} : Amounts[j] \in Int
    BY <1>3, <1>4
  <2>4. Amounts[k] = row[k].target.amount
    BY AmountsType
  <2> HIDE DEF S
  <2>5. Total(Amounts, S \cup {k}) = Amounts[k] + Total(Amounts, S)
    BY <1>3, <2>3, TotalWith
  <2>6. Total(Amounts, S) \in Int /\ Amounts[k] \in Int
    BY <1>3, <1>4, TotalType
  <2> QED
    BY <1>5, <2>2, <2>4, <2>5, <2>6
<1>6. CASE ~(row[k].target.kind = "penalty" /\ row[k].target.installment = i)
  <2>1. PenaltiesOf(i, {"POSTED"})' = S
    BY <1>1, <1>6 DEF PenaltiesOf
  <2>2. CumulativeBefore(i)' = CumulativeBefore(i)
    BY <1>2, <2>1 DEF CumulativeBefore
  <2>3. CumulativeBefore(i) \in Nat
    BY BeforeType
  <2> QED
    BY <1>6, <2>2, <2>3
<1> QED
  BY <1>5, <1>6

LEMMA FiniteInstallments == \A S \in SUBSET Installment : IsFiniteSet(S)
<1>1. IsFiniteSet(Installment)
  BY ScheduleAssumption, FS_Interval DEF Installment
<1> QED
  BY <1>1, FS_Subset

\* The balances are natural numbers because they are totals.
LEMMA BalancesType ==
  ASSUME Types, OwedIsScheduleAndPenalties
  PROVE  scheduled \in Nat /\ penalties \in Nat
<1> DEFINE open == [i \in Installment |-> penaltyDue[i] - penaltyPaid[i]]
<1>1. IsFiniteSet(Installment) /\ IsFiniteSet(Installment \ paid)
  BY FiniteInstallments
<1>2. \A i \in Installment \ paid : Scheduled[i] \in Nat
  BY ScheduleAssumption
<1>3. \A i \in Installment : open[i] \in Nat
  BY DEF Types, OwedIsScheduleAndPenalties
<1>4. scheduled = Total(Scheduled, Installment \ paid) /\ penalties = Total(open, Installment)
  BY DEF OwedIsScheduleAndPenalties
<1> HIDE DEF open
<1> QED
  BY <1>1, <1>2, <1>3, <1>4, TotalOfNaturals

LEMMA TypeCorrect == IInv => OwedByTheBook
  BY BalancesType, TypeParts DEF IInv, OwedByTheBook

-----------------------------------------------------------------------------
(* Types. *)

LEMMA InitIInv == Init => IInv
<1> SUFFICES ASSUME Init PROVE IInv
  OBVIOUS
<1>1. NoRow \in RowType /\ Idle \in CallType
  BY NoTargetType DEF NoRow, RowType, Idle, CallType, Points
<1>2. Types
  <2>1. row \in [Postings -> RowType] /\ call \in [Calls -> CallType]
    BY <1>1 DEF Init
  <2>2. aborts \in 0..MaxAborts
    BY MaxAbortsAssumption DEF Init
  <2>3. penaltyDue \in [Installment -> Nat] /\ penaltyPaid \in [Installment -> Nat]
    BY DEF Init
  <2>4. /\ loanStatus = "DISBURSED" /\ daysPastDue = 0 /\ bucket = 0 /\ accruedThrough = 0
        /\ paid = {} /\ assessed = {} /\ announced = 0 /\ posted = {}
    BY DEF Init
  <2> QED
    BY <2>1, <2>2, <2>3, <2>4 DEF Types, Serviceable
<1>3. \A k \in Postings : row[k].status = "NONE"
  BY DEF Init, NoRow
<1>4. \A c \in Calls : call[c].at = "idle"
  BY DEF Init, Idle
<1>5. CallsInv /\ RowsInv /\ PostedByTheBook /\ OverdueIffPastDue
  BY <1>3, <1>4 DEF CallsInv, CallInv, At, RowsInv, PostedByTheBook, OverdueIffPastDue, Init
<1>6. \A i \in Installment : CumulativeBefore(i) = 0
  <2> SUFFICES ASSUME NEW i \in Installment PROVE CumulativeBefore(i) = 0
    OBVIOUS
  <2>1. PenaltiesOf(i, {"POSTED"}) = {}
    BY <1>3 DEF PenaltiesOf
  <2> QED
    BY <2>1, TotalEmpty DEF CumulativeBefore
<1>7. Total([i \in Installment |-> penaltyDue[i] - penaltyPaid[i]], Installment) = 0
  <2>1. \A i \in Installment : [j \in Installment |-> penaltyDue[j] - penaltyPaid[j]][i] = 0
    BY DEF Init
  <2> QED
    BY <2>1, FiniteInstallments, TotalOfZeros
<1>8. Installment \ paid = Installment
  BY DEF Init
<1>9. OwedIsScheduleAndPenalties
  BY <1>6, <1>7, <1>8 DEF OwedIsScheduleAndPenalties, Init
<1> QED
  BY <1>2, <1>5, <1>9 DEF IInv

LEMMA PenaltyType ==
  ASSUME NEW before \in Nat
  PROVE  /\ CalculatePenalty(before) \in Nat
         /\ CalculatePenalty(before) > 0 => CalculatePenalty(before) + before <= Cap
  BY PolicyAssumption DEF CalculatePenalty

\* A call that moves, and all it moves of it.
LEMMA CallMoves ==
  ASSUME IInv, NEW c \in Calls,
         \/ Step(c) \/ Abort(c)
         \/ \E k \in Postings : Resend(c, k)
         \/ \E k \in Postings, kind \in {"accrual", "penalty"}, i \in Installment, date \in Periods :
                Start(c, k, kind, i, date)
         \/ \E date \in Dates : Assess(c, date)
  PROVE  call' \in [Calls -> CallType] /\ \A d \in Calls \ {c} : call'[d] = call[d]
<1> DEFINE Moved == call' \in [Calls -> CallType] /\ \A d \in Calls \ {c} : call'[d] = call[d]
<1> SUFFICES Moved
  OBVIOUS
<1>0. call \in [Calls -> CallType] /\ row \in [Postings -> RowType] /\ bucket \in Nat
  BY DEF IInv, Types
<1>1. \A point \in Points : GoTo(c, point) => Moved
  BY <1>0, Gone
<1>2. End(c) => Moved
  BY <1>0, Ended
<1>3. ASSUME NEW point \in Points, NEW k \in Postings \cup {NoPosting}, NEW target \in Targets,
             NEW b \in Nat, Begin(c, point, k, target, b)
      PROVE  Moved
  BY <1>0, <1>3, Begun
<1>4. ASSUME NEW point \in Points, NEW found \in Nat, Found(c, point, found) PROVE Moved
  BY <1>0, <1>4, Finds
<1> HIDE DEF Moved
<1>5. \A point \in {"sum", "insert", "post", "complete", "assess", "oldest", "installment"} : point \in Points
  BY DEF Points
<1>6. CASE ReadInstallment(c)
  BY <1>1, <1>2, <1>5, <1>6 DEF ReadInstallment
<1>7. CASE ReadCumulative(c)
  <2>1. CalculatePenalty(CumulativeBefore(call[c].target.installment)) \in Nat
    BY <1>0, BeforeType, PenaltyType
  <2> QED
    BY <1>2, <1>4, <1>5, <1>7, <2>1 DEF ReadCumulative
<1>8. CASE Insert(c)
  BY <1>1, <1>2, <1>5, <1>8 DEF Insert
<1>9. CASE PostLedger(c)
  BY <1>1, <1>5, <1>9 DEF PostLedger
<1>10. CASE Complete(c)
  BY <1>2, <1>10 DEF Complete
<1>11. CASE ReadOldest(c)
  <2>1. call[c].target.date \in Nat
    BY <1>0 DEF CallType, Targets
  <2>2. Oldest(call[c].target.date) \in Nat
    BY <2>1, OldestType
  <2> QED
    BY <1>4, <1>5, <1>11, <2>2 DEF ReadOldest
<1>12. CASE WriteAssessment(c)
  BY <1>2, <1>12 DEF WriteAssessment
<1>13. CASE Abort(c)
  BY <1>2, <1>13 DEF Abort
<1>14. ASSUME NEW k \in Postings, Resend(c, k) PROVE Moved
  <2>1. row[k].target \in Targets
    BY <1>0 DEF RowType
  <2> QED
    BY <1>3, <1>5, <1>14, <2>1 DEF Resend
<1>15. ASSUME NEW k \in Postings, NEW kind \in {"accrual", "penalty"}, NEW i \in Installment,
              NEW date \in Periods, Start(c, k, kind, i, date)
       PROVE  Moved
  <2>1. Target(kind, i, date) \in Targets
    BY ScheduleAssumption, TargetType DEF Installment
  <2>2. FirstPoint(kind) \in Points
    BY <1>5 DEF FirstPoint
  <2> QED
    BY <1>3, <1>15, <2>1, <2>2 DEF Start
<1>16. ASSUME NEW date \in Dates, Assess(c, date) PROVE Moved
  <2>1. Target("delinquency", 0, date) \in Targets
    <3>1. 0 \in 0..Installments /\ date \in Nat
      BY ScheduleAssumption
    <3> QED
      BY <3>1, TargetType
  <2> QED
    BY <1>0, <1>3, <1>5, <1>16, <2>1 DEF Assess
<1>17. CASE Step(c)
  BY <1>6, <1>7, <1>8, <1>9, <1>10, <1>11, <1>12, <1>17 DEF Step
<1> QED
  BY <1>13, <1>14, <1>15, <1>16, <1>17

-----------------------------------------------------------------------------
(* The steps. *)

\* What a step that only moves a call leaves alone.
Quiet == UNCHANGED <<loan, schedule, row, assessed, announced, posted>>

LEMMA Cases ==
  ASSUME [Next]_vars
  PROVE  \/ Quiet
         \/ \E c \in Calls : Insert(c) \/ PostLedger(c) \/ Complete(c) \/ WriteAssessment(c)
         \/ \E i \in Installment : Repay(i) \/ Reverse(i)
<1> DEFINE Goal == \/ Quiet
                   \/ \E c \in Calls : Insert(c) \/ PostLedger(c) \/ Complete(c) \/ WriteAssessment(c)
                   \/ \E i \in Installment : Repay(i) \/ Reverse(i)
<1> SUFFICES Goal
  OBVIOUS
<1>1. CASE UNCHANGED vars
  BY <1>1 DEF vars, Quiet
<1>2. ASSUME NEW c \in Calls, Step(c) PROVE Goal
  BY <1>2 DEF Step, ReadInstallment, ReadCumulative, ReadOldest, Quiet
<1>3. ASSUME NEW c \in Calls, Request(c) PROVE Goal
  BY <1>3 DEF Request, Resend, Start, Assess, Quiet
<1>4. ASSUME NEW c \in Calls, Abort(c) PROVE Goal
  BY <1>4 DEF Abort, Quiet
<1> HIDE DEF Goal
<1>5. ASSUME NEW i \in Installment, Repay(i) \/ Reverse(i) PROVE Goal
  BY <1>5 DEF Goal
<1> QED
  BY <1>1, <1>2, <1>3, <1>4, <1>5 DEF Next

\* The posting of a call that reaches the record or the ledger.
LEMMA CallKnows ==
  ASSUME IInv, NEW c \in Calls
  PROVE  /\ At(c, "insert") => /\ call[c].posting \in Postings /\ call[c].target \in Targets
                               /\ call[c].target.kind \in {"accrual", "penalty"}
                               /\ call[c].target.installment \in Installment
         /\ At(c, "post") => call[c].posting \in Postings /\ row[call[c].posting].status # "NONE"
         /\ At(c, "complete") => call[c].posting \in posted /\ call[c].posting \in Postings
         /\ At(c, "assess") => call[c].target.date \in Dates /\ call[c].target.amount \in Nat
<1>1. CallInv(c) /\ call[c] \in CallType
  BY DEF IInv, Types, CallsInv
<1>2. call[c].target \in Targets
  BY <1>1 DEF CallType
<1> QED
  BY <1>1, <1>2 DEF CallInv, At, Targets

\* The penalty or accrual that is completed.
LEMMA Completed ==
  ASSUME IInv, NEW c \in Calls, Complete(c), Completes(call[c].posting)
  PROVE  LET k == call[c].posting  t == row[k].target IN
         /\ k \in Postings /\ k \in posted /\ row[k].status = "POSTING"
         /\ row' = [row EXCEPT ![k].status = "POSTED"]
         /\ row'[k].status = "POSTED" /\ row'[k].target = t
         /\ \A j \in Postings \ {k} : row'[j] = row[j]
         /\ t \in Targets /\ t.kind \in {"accrual", "penalty"} /\ t.installment \in Installment
         /\ \/ t.kind = "accrual" /\ accruedThrough' = t.date /\ UNCHANGED <<penalties, penaltyDue>>
            \/ /\ t.kind = "penalty" /\ penalties' = penalties + t.amount
               /\ penaltyDue' = [penaltyDue EXCEPT ![t.installment] = @ + t.amount]
               /\ UNCHANGED accruedThrough
<1> DEFINE k == call[c].posting
           t == row[k].target
<1>1. k \in Postings /\ k \in posted /\ row[k].status = "POSTING"
  BY CallKnows DEF Complete, Completes
<1>2. row \in [Postings -> RowType]
  BY DEF IInv, Types
<1>3. row' = [row EXCEPT ![k].status = "POSTED"]
  BY DEF Complete
<1>4. t \in Targets /\ t.kind \in {"accrual", "penalty"} /\ t.installment \in Installment
  BY <1>1, <1>2 DEF IInv, RowsInv, RowType
<1>5. /\ row'[k].status = "POSTED" /\ row'[k].target = t
      /\ \A j \in Postings \ {k} : row'[j] = row[j]
  BY <1>1, <1>2, <1>3 DEF RowType
<1>6. \/ t.kind = "accrual" /\ accruedThrough' = t.date /\ UNCHANGED <<penalties, penaltyDue>>
      \/ /\ t.kind = "penalty" /\ penalties' = penalties + t.amount
         /\ penaltyDue' = [penaltyDue EXCEPT ![t.installment] = @ + t.amount]
         /\ UNCHANGED accruedThrough
  BY DEF Complete
<1> QED
  BY <1>1, <1>3, <1>4, <1>5, <1>6

\* The record that is inserted.
LEMMA Inserted ==
  ASSUME IInv, NEW c \in Calls, Insert(c)
  PROVE  LET k == call[c].posting  t == call[c].target IN
         \/ /\ k \in Postings /\ row[k].status = "NONE"
            /\ row' \in [Postings -> RowType]
            /\ row'[k].status = "POSTING" /\ row'[k].target = t
            /\ \A j \in Postings \ {k} : row'[j] = row[j]
            /\ t.kind \in {"accrual", "penalty"} /\ t.installment \in Installment
            /\ At(c, "insert") /\ GoTo(c, "post")
         \/ row' = row /\ End(c)
<1>1. /\ call[c].posting \in Postings /\ call[c].target \in Targets
      /\ call[c].target.kind \in {"accrual", "penalty"}
      /\ call[c].target.installment \in Installment
  BY CallKnows DEF Insert
<1>2. row \in [Postings -> RowType]
  BY DEF IInv, Types
<1>3. [status |-> "POSTING", target |-> call[c].target] \in RowType
  BY <1>1 DEF RowType
<1> QED
  BY <1>1, <1>2, <1>3 DEF Insert

\* Records stay and are never changed but from POSTING to POSTED.
LEMMA Records ==
  ASSUME IInv, [Next]_vars
  PROVE  /\ \A k \in Postings : row[k].status # "NONE" =>
               row'[k].status # "NONE" /\ row'[k].target = row[k].target
         /\ \A k \in Postings : row[k].status = "POSTED" => row'[k].status = "POSTED"
         /\ posted \subseteq posted'
<1> DEFINE Goal == /\ \A k \in Postings : row[k].status # "NONE" =>
                         row'[k].status # "NONE" /\ row'[k].target = row[k].target
                   /\ \A k \in Postings : row[k].status = "POSTED" => row'[k].status = "POSTED"
                   /\ posted \subseteq posted'
<1> SUFFICES Goal
  OBVIOUS
<1>1. CASE UNCHANGED <<row, posted>>
  BY <1>1
<1>2. ASSUME NEW c \in Calls, Insert(c) PROVE Goal
  BY <1>2, Inserted DEF Insert
<1>3. ASSUME NEW c \in Calls, PostLedger(c) PROVE Goal
  BY <1>3 DEF PostLedger
<1>4. ASSUME NEW c \in Calls, Complete(c) PROVE Goal
  <2>1. CASE Completes(call[c].posting)
    BY <1>4, <2>1, Completed DEF Complete
  <2>2. CASE ~Completes(call[c].posting)
    BY <1>4, <2>2 DEF Complete
  <2> QED
    BY <2>1, <2>2
<1>5. CASE Quiet
  BY <1>5 DEF Quiet
<1>6. ASSUME NEW c \in Calls, WriteAssessment(c) PROVE Goal
  BY <1>6 DEF WriteAssessment
<1>7. ASSUME NEW i \in Installment, Repay(i) \/ Reverse(i) PROVE Goal
  BY <1>7 DEF Repay, Reverse
<1> QED
  BY <1>2, <1>3, <1>4, <1>5, <1>6, <1>7, Cases

LEMMA NextCallTypes == ASSUME IInv, [Next]_vars PROVE call' \in [Calls -> CallType]
<1>1. CASE UNCHANGED call
  BY <1>1 DEF IInv, Types
<1>2. ASSUME NEW c \in Calls, Step(c) \/ Request(c) \/ Abort(c) PROVE call' \in [Calls -> CallType]
  BY <1>2, CallMoves DEF Request
<1>3. ASSUME NEW i \in Installment, Repay(i) \/ Reverse(i) PROVE UNCHANGED call
  BY <1>3 DEF Repay, Reverse
<1> QED
  BY <1>1, <1>2, <1>3 DEF Next, vars

LEMMA NextAborts == ASSUME IInv, [Next]_vars PROVE aborts' \in 0..MaxAborts
<1>1. aborts \in 0..MaxAborts
  BY DEF IInv, Types
<1>2. CASE UNCHANGED aborts
  BY <1>1, <1>2
<1>3. ASSUME NEW c \in Calls, Abort(c) PROVE aborts' \in 0..MaxAborts
  BY <1>1, <1>3, MaxAbortsAssumption DEF Abort
<1>4. ASSUME NEW c \in Calls, Step(c) \/ Request(c) PROVE UNCHANGED aborts
  BY <1>4 DEF Step, ReadInstallment, ReadCumulative, Insert, PostLedger, Complete, ReadOldest,
              WriteAssessment, Request, Resend, Start, Assess
<1>5. ASSUME NEW i \in Installment, Repay(i) \/ Reverse(i) PROVE UNCHANGED aborts
  BY <1>5 DEF Repay, Reverse
<1> QED
  BY <1>2, <1>3, <1>4, <1>5 DEF Next, vars

LEMMA NextTypes == ASSUME IInv, [Next]_vars PROVE Types'
<1>0. /\ Types /\ call' \in [Calls -> CallType] /\ aborts' \in 0..MaxAborts
  BY NextCallTypes, NextAborts DEF IInv
<1>1. CASE Quiet
  BY <1>0, <1>1 DEF Quiet, Types, loan, schedule
<1>2. ASSUME NEW c \in Calls, Insert(c) PROVE Types'
  <2>1. row' \in [Postings -> RowType]
    BY <1>0, <1>2, Inserted DEF Types
  <2> QED
    BY <1>0, <1>2, <2>1 DEF Insert, Types, loan, schedule
<1>3. ASSUME NEW c \in Calls, PostLedger(c) PROVE Types'
  <2>1. call[c].posting \in Postings
    BY <1>3, CallKnows DEF PostLedger
  <2> QED
    BY <1>0, <1>3, <2>1 DEF PostLedger, Types, loan, schedule
<1>4. ASSUME NEW c \in Calls, Complete(c) PROVE Types'
  <2> DEFINE t == row[call[c].posting].target
  <2>1. CASE Completes(call[c].posting)
    <3>1. row' \in [Postings -> RowType]
      <4>1. row' = [row EXCEPT ![call[c].posting].status = "POSTED"]
        BY <1>4, <2>1, Completed
      <4>2. row \in [Postings -> RowType]
        BY <1>0 DEF Types
      <4> QED
        BY <4>1, <4>2 DEF RowType
    <3>2. t \in Targets /\ t.installment \in Installment
      BY <1>4, <2>1, Completed
    <3>3. t.amount \in Nat /\ t.date \in Nat
      BY <3>2 DEF Targets
    <3>4. \/ accruedThrough' = t.date /\ UNCHANGED penaltyDue
          \/ penaltyDue' = [penaltyDue EXCEPT ![t.installment] = @ + t.amount] /\ UNCHANGED accruedThrough
      BY <1>4, <2>1, Completed
    <3> HIDE DEF t
    <3>5. accruedThrough' \in Nat /\ penaltyDue' \in [Installment -> Nat]
      BY <1>0, <3>2, <3>3, <3>4 DEF Types
    <3> QED
      BY <1>0, <1>4, <3>1, <3>5 DEF Complete, Types
  <2>2. CASE ~Completes(call[c].posting)
    BY <1>0, <1>4, <2>2 DEF Complete, Types
  <2> QED
    BY <2>1, <2>2
<1>5. ASSUME NEW c \in Calls, WriteAssessment(c) PROVE Types'
  <2>1. call[c].target.date \in Dates /\ call[c].target.amount \in Nat
    BY <1>5, CallKnows DEF WriteAssessment
  <2>2. Bucket(call[c].target.amount) \in Nat
    BY <2>1, BucketType
  <2>3. StatusOf(call[c].target.amount) \in Serviceable \cup {"SETTLED"}
    BY <1>0, <2>1 DEF StatusOf, Types, Serviceable
  <2> QED
    BY <1>0, <1>5, <2>1, <2>2, <2>3 DEF WriteAssessment, Types, schedule
<1>6. ASSUME NEW i \in Installment, Repay(i) PROVE Types'
  <2>1. /\ loanStatus' \in Serviceable \cup {"SETTLED"}
        /\ penaltyPaid' \in [Installment -> Nat] /\ paid' \subseteq Installment
    BY <1>0, <1>6 DEF Repay, Types, Serviceable
  <2> QED
    BY <1>0, <1>6, <2>1 DEF Repay, Types
<1>7. ASSUME NEW i \in Installment, Reverse(i) PROVE Types'
  <2>1. /\ loanStatus' \in Serviceable \cup {"SETTLED"}
        /\ penaltyPaid' \in [Installment -> Nat] /\ paid' \subseteq Installment
    BY <1>0, <1>7 DEF Reverse, Types, Serviceable
  <2> QED
    BY <1>0, <1>7, <2>1 DEF Reverse, Types
<1> QED
  BY <1>1, <1>2, <1>3, <1>4, <1>5, <1>6, <1>7, Cases

LEMMA NextRows == ASSUME IInv, [Next]_vars PROVE RowsInv'
<1>0. RowsInv
  BY DEF IInv
<1>1. ASSUME NEW c \in Calls, Insert(c) PROVE RowsInv'
  BY <1>0, <1>1, Inserted DEF RowsInv
<1>2. ASSUME NEW c \in Calls, Complete(c) PROVE RowsInv'
  <2>1. CASE Completes(call[c].posting)
    BY <1>0, <1>2, <2>1, Completed DEF RowsInv
  <2>2. CASE ~Completes(call[c].posting)
    BY <1>0, <1>2, <2>2 DEF Complete, RowsInv
  <2> QED
    BY <2>1, <2>2
<1>3. CASE UNCHANGED row
  BY <1>0, <1>3 DEF RowsInv
<1>4. ASSUME NEW c \in Calls, PostLedger(c) \/ WriteAssessment(c) PROVE UNCHANGED row
  BY <1>4 DEF PostLedger, WriteAssessment
<1>5. ASSUME NEW i \in Installment, Repay(i) \/ Reverse(i) PROVE UNCHANGED row
  BY <1>5 DEF Repay, Reverse
<1>6. CASE Quiet
  BY <1>3, <1>6 DEF Quiet
<1> QED
  BY <1>1, <1>2, <1>3, <1>4, <1>5, <1>6, Cases

\* A call's knowledge lasts: records and postings only grow.
LEMMA OthersKnow ==
  ASSUME IInv, [Next]_vars, NEW d \in Calls, call'[d] = call[d]
  PROVE  CallInv(d)'
<1>1. CallInv(d)
  BY DEF IInv, CallsInv
<1>2. /\ \A k \in Postings : row[k].status # "NONE" => row'[k].status # "NONE"
      /\ posted \subseteq posted'
  BY Records
<1> QED
  BY <1>1, <1>2 DEF CallInv, At

LEMMA NextCalls == ASSUME IInv, [Next]_vars PROVE CallsInv'
<1>0. /\ call \in [Calls -> CallType] /\ bucket \in Nat /\ row \in [Postings -> RowType]
      /\ \A k \in Postings : row[k].status # "NONE" => row'[k].status # "NONE"
      /\ posted \subseteq posted'
  BY Records DEF IInv, Types
<1>1. ASSUME NEW c \in Calls, CallInv(c)', \A d \in Calls \ {c} : call'[d] = call[d] PROVE CallsInv'
  BY <1>1, OthersKnow DEF CallsInv
<1>2. ASSUME NEW c \in Calls, call'[c].at = "idle" PROVE CallInv(c)'
  BY <1>2 DEF CallInv, At
<1>3. ASSUME NEW c \in Calls, End(c) PROVE CallsInv'
  <2>1. call'[c].at = "idle" /\ \A d \in Calls \ {c} : call'[d] = call[d]
    BY <1>0, <1>3, Ended DEF Idle
  <2> QED
    BY <1>1, <1>2, <2>1
<1>4. ASSUME NEW c \in Calls, Step(c) PROVE CallsInv'
  <2>0. CallInv(c) /\ call[c] \in CallType
    BY <1>0 DEF IInv, CallsInv
  <2>1. CASE End(c)
    BY <2>1, <1>3
  <2>2. CASE ReadInstallment(c) /\ GoTo(c, "sum")
    <3>1. /\ call'[c].at = "sum" /\ call'[c].posting = call[c].posting /\ call'[c].target = call[c].target
          /\ \A d \in Calls \ {c} : call'[d] = call[d]
      BY <1>0, <2>2, Gone DEF Points
    <3>2. CallInv(c)'
      BY <2>0, <2>2, <3>1 DEF CallInv, At, ReadInstallment
    <3> QED
      BY <1>1, <3>1, <3>2
  <2>3. CASE ReadCumulative(c) /\ ~End(c)
    <3> DEFINE found == CalculatePenalty(CumulativeBefore(call[c].target.installment))
    <3>1. found \in Nat
      BY <1>0, BeforeType, PenaltyType
    <3>2. Found(c, "insert", found) /\ At(c, "sum")
      BY <2>3 DEF ReadCumulative
    <3> HIDE DEF found
    <3>3. /\ call'[c].at = "insert" /\ call'[c].posting = call[c].posting
          /\ call'[c].target = [call[c].target EXCEPT !.amount = found]
          /\ \A d \in Calls \ {c} : call'[d] = call[d]
      <4>1. "insert" \in Points
        BY DEF Points
      <4> QED
        BY <1>0, <3>1, <3>2, <4>1, Finds
    <3>4. /\ call'[c].target.kind = call[c].target.kind
          /\ call'[c].target.installment = call[c].target.installment
      <4>1. call[c].target \in Targets
        BY <2>0 DEF CallType
      <4> QED
        BY <3>3, <4>1 DEF Targets
    <3>5. CallInv(c)'
      BY <2>0, <3>2, <3>3, <3>4 DEF CallInv, At
    <3> QED
      BY <1>1, <3>3, <3>5
  <2>4. CASE Insert(c) /\ ~End(c)
    <3>1. /\ call[c].posting \in Postings /\ row'[call[c].posting].status = "POSTING" /\ GoTo(c, "post")
      BY <2>4, Inserted
    <3>2. /\ call'[c].at = "post" /\ call'[c].posting = call[c].posting
          /\ \A d \in Calls \ {c} : call'[d] = call[d]
      BY <1>0, <3>1, Gone DEF Points
    <3>3. CallInv(c)'
      BY <3>1, <3>2 DEF CallInv, At
    <3> QED
      BY <1>1, <3>2, <3>3
  <2>5. CASE PostLedger(c)
    <3>1. /\ call[c].posting \in posted' /\ row' = row /\ GoTo(c, "complete") /\ At(c, "post")
      BY <2>5 DEF PostLedger
    <3>2. /\ call'[c].at = "complete" /\ call'[c].posting = call[c].posting
          /\ \A d \in Calls \ {c} : call'[d] = call[d]
      BY <1>0, <3>1, Gone DEF Points
    <3>3. CallInv(c)'
      BY <2>0, <3>1, <3>2 DEF CallInv, At
    <3> QED
      BY <1>1, <3>2, <3>3
  <2>6. CASE ReadOldest(c)
    <3> DEFINE found == Oldest(call[c].target.date)
    <3>1. found \in Nat
      <4>1. call[c].target.date \in Nat
        BY <2>0 DEF CallType, Targets
      <4> QED
        BY <4>1, OldestType
    <3>2. Found(c, "assess", found) /\ At(c, "oldest")
      BY <2>6 DEF ReadOldest
    <3> HIDE DEF found
    <3>3. /\ call'[c].at = "assess"
          /\ call'[c].target = [call[c].target EXCEPT !.amount = found]
          /\ \A d \in Calls \ {c} : call'[d] = call[d]
      <4>1. "assess" \in Points
        BY DEF Points
      <4> QED
        BY <1>0, <3>1, <3>2, <4>1, Finds
    <3>4. call'[c].target.date = call[c].target.date
      <4>1. call[c].target \in Targets
        BY <2>0 DEF CallType
      <4> QED
        BY <3>3, <4>1 DEF Targets
    <3>5. CallInv(c)'
      BY <2>0, <3>2, <3>3, <3>4 DEF CallInv, At
    <3> QED
      BY <1>1, <3>3, <3>5
  <2>7. Complete(c) \/ WriteAssessment(c) => End(c)
    BY DEF Complete, WriteAssessment
  <2>8. ReadInstallment(c) => GoTo(c, "sum") \/ End(c)
    BY DEF ReadInstallment
  <2> QED
    BY <1>4, <2>1, <2>2, <2>3, <2>4, <2>5, <2>6, <2>7, <2>8 DEF Step
<1>5. ASSUME NEW c \in Calls, NEW k \in Postings, Resend(c, k) PROVE CallsInv'
  <2>1. Begin(c, "post", k, row[k].target, 0) /\ row[k].status # "NONE" /\ row' = row
    BY <1>5 DEF Resend, Retryable
  <2>2. row[k].target \in Targets /\ "post" \in Points /\ k \in Postings \cup {NoPosting} /\ 0 \in Nat
    BY <1>0 DEF RowType, Points
  <2>3. call'[c].at = "post" /\ call'[c].posting = k /\ \A d \in Calls \ {c} : call'[d] = call[d]
    BY <1>0, <2>1, <2>2, Begun
  <2>4. CallInv(c)'
    BY <2>1, <2>3 DEF CallInv, At
  <2> QED
    BY <1>1, <2>3, <2>4
<1>6. ASSUME NEW c \in Calls, NEW k \in Postings, NEW kind \in {"accrual", "penalty"},
             NEW i \in Installment, NEW date \in Periods, Start(c, k, kind, i, date)
      PROVE  CallsInv'
  <2>1. Begin(c, FirstPoint(kind), k, Target(kind, i, date), 0)
    BY <1>6 DEF Start
  <2>2. /\ Target(kind, i, date) \in Targets /\ FirstPoint(kind) \in Points
        /\ FirstPoint(kind) \in {"insert", "installment"}
        /\ k \in Postings \cup {NoPosting} /\ 0 \in Nat
    BY ScheduleAssumption, TargetType DEF Installment, FirstPoint, Points
  <2>3. /\ call'[c].at = FirstPoint(kind) /\ call'[c].posting = k /\ call'[c].target = Target(kind, i, date)
        /\ \A d \in Calls \ {c} : call'[d] = call[d]
    BY <1>0, <2>1, <2>2, Begun
  <2>4. CallInv(c)'
    BY <2>2, <2>3 DEF CallInv, At, Target
  <2> QED
    BY <1>1, <2>3, <2>4
<1>7. ASSUME NEW c \in Calls, NEW date \in Dates, Assess(c, date) PROVE CallsInv'
  <2>1. Begin(c, "oldest", NoPosting, Target("delinquency", 0, date), bucket)
    BY <1>7 DEF Assess
  <2>2. /\ Target("delinquency", 0, date) \in Targets /\ "oldest" \in Points
        /\ NoPosting \in Postings \cup {NoPosting}
    <3>1. 0 \in 0..Installments /\ date \in Nat
      BY ScheduleAssumption
    <3>2. Target("delinquency", 0, date) \in Targets
      BY <3>1, TargetType
    <3> QED
      BY <3>2 DEF Points
  <2>3. /\ call'[c].at = "oldest" /\ call'[c].target = Target("delinquency", 0, date)
        /\ \A d \in Calls \ {c} : call'[d] = call[d]
    BY <1>0, <2>1 DEF Begin
  <2>4. CallInv(c)'
    BY <2>3 DEF CallInv, At, Target
  <2> QED
    BY <1>1, <2>3, <2>4
<1>8. CASE UNCHANGED call
  BY <1>8, OthersKnow DEF CallsInv
<1>9. ASSUME NEW i \in Installment, Repay(i) \/ Reverse(i) PROVE UNCHANGED call
  BY <1>9 DEF Repay, Reverse
<1>10. ASSUME NEW c \in Calls, Abort(c) PROVE End(c)
  BY <1>10 DEF Abort
<1> QED
  BY <1>3, <1>4, <1>5, <1>6, <1>7, <1>8, <1>9, <1>10 DEF Next, Request, vars

LEMMA NextPosted == ASSUME IInv, [Next]_vars PROVE PostedByTheBook'
<1>0. /\ PostedByTheBook /\ posted \subseteq Postings
      /\ \A k \in Postings : row[k].status = "POSTED" => row'[k].status = "POSTED"
  BY Records DEF IInv, Types
<1>1. CASE UNCHANGED <<row, posted, accruedThrough>>
  BY <1>0, <1>1 DEF PostedByTheBook
<1>2. ASSUME NEW c \in Calls, Insert(c) PROVE PostedByTheBook'
  <2>1. UNCHANGED <<posted, accruedThrough>>
    BY <1>2 DEF Insert, loan
  <2>2. CASE row' = row
    BY <1>1, <2>1, <2>2
  <2>3. CASE row' # row
    <3> DEFINE k == call[c].posting
    <3>1. /\ k \in Postings /\ row'[k].status = "POSTING" /\ row[k].status = "NONE"
          /\ \A j \in Postings \ {k} : row'[j] = row[j]
      BY <1>2, <2>3, Inserted
    <3> HIDE DEF k
    <3> QED
      BY <1>0, <2>1, <3>1 DEF PostedByTheBook
  <2> QED
    BY <2>2, <2>3
<1>3. ASSUME NEW c \in Calls, PostLedger(c) PROVE PostedByTheBook'
  <2>1. UNCHANGED <<row, accruedThrough>> /\ posted' = posted \cup {call[c].posting}
    BY <1>3 DEF PostLedger, loan
  <2>2. row[call[c].posting].status # "NONE"
    BY <1>3, CallKnows DEF PostLedger
  <2> QED
    BY <1>0, <2>1, <2>2 DEF PostedByTheBook
<1>4. ASSUME NEW c \in Calls, Complete(c) PROVE PostedByTheBook'
  <2> DEFINE k == call[c].posting
             t == row[k].target
  <2>1. CASE Completes(k)
    <3>1. /\ k \in Postings /\ k \in posted /\ row'[k].status = "POSTED" /\ row'[k].target = t
          /\ \A j \in Postings \ {k} : row'[j] = row[j]
      BY <1>4, <2>1, Completed
    <3>2. \/ t.kind = "accrual" /\ accruedThrough' = t.date
          \/ UNCHANGED accruedThrough
      BY <1>4, <2>1, Completed
    <3>3. posted' = posted
      BY <1>4 DEF Complete
    <3> HIDE DEF k
    <3>4. \A j \in Postings : row[j].status = "POSTED" => row'[j].target = row[j].target
      BY <3>1
    <3>5. /\ \A j \in Postings : row'[j].status = "POSTED" => j \in posted'
          /\ \A j \in posted' : row'[j].status # "NONE"
      BY <1>0, <3>1, <3>3 DEF PostedByTheBook
    <3>6. accruedThrough' # 0 => \E j \in Postings :
             row'[j].status = "POSTED" /\ row'[j].target.kind = "accrual" /\ row'[j].target.date = accruedThrough'
      <4>1. CASE t.kind = "accrual" /\ accruedThrough' = t.date
        BY <3>1, <4>1
      <4>2. CASE UNCHANGED accruedThrough
        BY <1>0, <3>4, <4>2 DEF PostedByTheBook
      <4> QED
        BY <3>2, <4>1, <4>2
    <3> QED
      BY <3>5, <3>6 DEF PostedByTheBook
  <2>2. CASE ~Completes(k)
    BY <1>1, <1>4, <2>2 DEF Complete
  <2> QED
    BY <2>1, <2>2
<1>5. CASE Quiet
  BY <1>1, <1>5 DEF Quiet, loan
<1>6. ASSUME NEW c \in Calls, WriteAssessment(c) PROVE PostedByTheBook'
  BY <1>1, <1>6 DEF WriteAssessment
<1>7. ASSUME NEW i \in Installment, Repay(i) \/ Reverse(i) PROVE PostedByTheBook'
  BY <1>1, <1>7 DEF Repay, Reverse
<1> QED
  BY <1>2, <1>3, <1>4, <1>5, <1>6, <1>7, Cases

LEMMA NextOverdue == ASSUME IInv, [Next]_vars PROVE OverdueIffPastDue'
<1>0. OverdueIffPastDue /\ daysPastDue \in Nat /\ loanStatus \in Serviceable \cup {"SETTLED"}
  BY DEF IInv, Types
<1>1. CASE UNCHANGED <<loanStatus, daysPastDue>>
  BY <1>0, <1>1 DEF OverdueIffPastDue
<1>2. ASSUME NEW c \in Calls, WriteAssessment(c) PROVE OverdueIffPastDue'
  <2>1. call[c].target.amount \in Nat
    BY <1>2, CallKnows DEF WriteAssessment
  <2>2. CASE UNCHANGED <<loanStatus, daysPastDue>>
    BY <1>1, <2>2
  <2>3. CASE daysPastDue' = call[c].target.amount /\ loanStatus' = StatusOf(call[c].target.amount)
    BY <2>1, <2>3 DEF StatusOf, OverdueIffPastDue
  <2> QED
    BY <1>2, <2>2, <2>3 DEF WriteAssessment
<1>3. ASSUME NEW i \in Installment, Repay(i) PROVE OverdueIffPastDue'
  BY <1>0, <1>3 DEF Repay, OverdueIffPastDue, Serviceable
<1>4. ASSUME NEW i \in Installment, Reverse(i) PROVE OverdueIffPastDue'
  BY <1>0, <1>4 DEF Reverse, OverdueIffPastDue
<1>5. CASE Quiet
  BY <1>1, <1>5 DEF Quiet, loan
<1>6. ASSUME NEW c \in Calls, Insert(c) \/ PostLedger(c) \/ Complete(c)
      PROVE  UNCHANGED <<loanStatus, daysPastDue>>
  BY <1>6 DEF Insert, PostLedger, Complete, loan
<1> QED
  BY <1>1, <1>2, <1>3, <1>4, <1>5, <1>6, Cases

\* What each installment owes of its penalties.
Open == [i \in Installment |-> penaltyDue[i] - penaltyPaid[i]]

LEMMA OwedIs ==
  /\ OwedIsScheduleAndPenalties <=>
       /\ scheduled = Total(Scheduled, Installment \ paid)
       /\ \A i \in Installment : penaltyDue[i] = CumulativeBefore(i) /\ penaltyPaid[i] <= penaltyDue[i]
       /\ penalties = Total(Open, Installment)
  /\ OwedIsScheduleAndPenalties' <=>
       /\ scheduled' = Total(Scheduled, Installment \ paid')
       /\ \A i \in Installment : penaltyDue'[i] = CumulativeBefore(i)' /\ penaltyPaid'[i] <= penaltyDue'[i]
       /\ penalties' = Total(Open', Installment)
  BY DEF OwedIsScheduleAndPenalties, Open

\* One installment's share of the penalties changes.
LEMMA OpenChanges ==
  ASSUME IInv, Types', NEW i \in Installment,
         \A j \in Installment \ {i} : penaltyDue'[j] = penaltyDue[j] /\ penaltyPaid'[j] = penaltyPaid[j]
  PROVE  Total(Open', Installment) =
           Total(Open, Installment) + ((penaltyDue'[i] - penaltyPaid'[i]) - (penaltyDue[i] - penaltyPaid[i]))
<1>1. /\ penaltyDue \in [Installment -> Nat] /\ penaltyPaid \in [Installment -> Nat]
      /\ penaltyDue' \in [Installment -> Nat] /\ penaltyPaid' \in [Installment -> Nat]
  BY DEF IInv, Types
<1>2. \A j \in Installment : Open[j] \in Int /\ Open'[j] \in Int
  BY <1>1 DEF Open
<1>3. \A j \in Installment \ {i} : Open'[j] = Open[j]
  BY DEF Open
<1>4. Open'[i] = penaltyDue'[i] - penaltyPaid'[i] /\ Open[i] = penaltyDue[i] - penaltyPaid[i]
  BY DEF Open
<1>5. Total(Open', Installment) = Total(Open, Installment) + (Open'[i] - Open[i])
  <2>1. IsFiniteSet(Installment)
    BY FiniteInstallments
  <2> QED
    BY <1>2, <1>3, <2>1, TotalChanged
<1> QED
  BY <1>4, <1>5

LEMMA NextOwed == ASSUME IInv, [Next]_vars PROVE OwedIsScheduleAndPenalties'
<1>0. /\ Types /\ OwedIsScheduleAndPenalties /\ Types' /\ row \in [Postings -> RowType]
      /\ scheduled \in Nat /\ penalties \in Nat
  BY NextTypes, BalancesType DEF IInv, Types
<1>01. /\ penaltyDue \in [Installment -> Nat] /\ penaltyPaid \in [Installment -> Nat]
       /\ penaltyDue' \in [Installment -> Nat] /\ penaltyPaid' \in [Installment -> Nat]
  BY <1>0 DEF Types
<1>02. /\ scheduled = Total(Scheduled, Installment \ paid)
       /\ \A i \in Installment : penaltyDue[i] = CumulativeBefore(i) /\ penaltyPaid[i] <= penaltyDue[i]
       /\ penalties = Total(Open, Installment)
  BY <1>0, OwedIs
<1>1. ASSUME UNCHANGED <<schedule, scheduled, penalties>>,
             \A k \in Postings :
               /\ row'[k].status = "POSTED" <=> row[k].status = "POSTED"
               /\ row[k].status = "POSTED" => row'[k].target = row[k].target
      PROVE  OwedIsScheduleAndPenalties'
  <2>1. \A i \in Installment : CumulativeBefore(i)' = CumulativeBefore(i)
    BY <1>0, <1>1, BeforeKept
  <2>2. UNCHANGED <<paid, penaltyDue, penaltyPaid, scheduled, penalties>> /\ Open' = Open
    BY <1>1 DEF schedule, Open
  <2> QED
    BY <1>02, <2>1, <2>2, OwedIs
<1>2. CASE UNCHANGED <<schedule, scheduled, penalties, row>>
  BY <1>1, <1>2
<1>3. ASSUME NEW c \in Calls, Insert(c) PROVE OwedIsScheduleAndPenalties'
  <2>1. \A k \in Postings :
               /\ row'[k].status = "POSTED" <=> row[k].status = "POSTED"
               /\ row[k].status = "POSTED" => row'[k].target = row[k].target
    BY <1>3, Inserted
  <2> QED
    BY <1>1, <1>3, <2>1 DEF Insert, loan
<1>4. ASSUME NEW c \in Calls, Complete(c) PROVE OwedIsScheduleAndPenalties'
  <2> DEFINE k == call[c].posting
             t == row[k].target
  <2>0. UNCHANGED <<scheduled, paid, penaltyPaid>>
    BY <1>4 DEF Complete
  <2>1. CASE Completes(k)
    <3>1. /\ k \in Postings /\ row[k].status # "POSTED" /\ row' = [row EXCEPT ![k].status = "POSTED"]
          /\ t \in Targets /\ t.installment \in Installment
      BY <1>4, <2>1, Completed
    <3>2. t.amount \in Nat
      BY <3>1 DEF Targets
    <3>3. ASSUME NEW i \in Installment
          PROVE  CumulativeBefore(i)' =
                   CumulativeBefore(i) + IF t.kind = "penalty" /\ t.installment = i THEN t.amount ELSE 0
      <4> HIDE DEF k
      <4> QED
        BY <1>0, <3>1, BeforeGrows
    <3>4. CASE t.kind = "accrual"
      <4>1. UNCHANGED <<penalties, penaltyDue>>
        BY <1>4, <2>1, <3>4, Completed
      <4>2. \A i \in Installment : CumulativeBefore(i)' = CumulativeBefore(i)
        <5>1. \A i \in Installment : CumulativeBefore(i) \in Nat
          BY <1>0, BeforeType
        <5> QED
          BY <3>3, <3>4, <5>1
      <4>3. Open' = Open
        BY <2>0, <4>1 DEF Open
      <4> QED
        BY <1>02, <2>0, <4>1, <4>2, <4>3, OwedIs
    <3>5. CASE t.kind = "penalty"
      <4>1. /\ penalties' = penalties + t.amount
            /\ penaltyDue' = [penaltyDue EXCEPT ![t.installment] = @ + t.amount]
        BY <1>4, <2>1, <3>5, Completed
      <4> HIDE DEF t
      <4>2. /\ penaltyDue'[t.installment] = penaltyDue[t.installment] + t.amount
            /\ \A j \in Installment \ {t.installment} : penaltyDue'[j] = penaltyDue[j]
        BY <1>01, <3>1, <4>1
      <4>3. \A i \in Installment : penaltyDue'[i] = CumulativeBefore(i)' /\ penaltyPaid'[i] <= penaltyDue'[i]
        <5> SUFFICES ASSUME NEW i \in Installment
                     PROVE  penaltyDue'[i] = CumulativeBefore(i)' /\ penaltyPaid'[i] <= penaltyDue'[i]
          OBVIOUS
        <5>1. /\ penaltyDue[i] = CumulativeBefore(i) /\ penaltyPaid[i] <= penaltyDue[i]
              /\ penaltyDue[i] \in Nat /\ penaltyPaid[i] \in Nat
          BY <1>01, <1>02
        <5>2. penaltyPaid'[i] = penaltyPaid[i]
          BY <2>0
        <5>3. CASE i = t.installment
          BY <3>2, <3>3, <3>5, <4>2, <5>1, <5>2, <5>3
        <5>4. CASE i # t.installment
          BY <3>3, <4>2, <5>1, <5>2, <5>4
        <5> QED
          BY <5>3, <5>4
      <4>4. Total(Open', Installment) = Total(Open, Installment) +
              ((penaltyDue'[t.installment] - penaltyPaid'[t.installment])
                 - (penaltyDue[t.installment] - penaltyPaid[t.installment]))
        BY <1>0, <2>0, <3>1, <4>2, OpenChanges
      <4>5. penaltyDue[t.installment] \in Nat /\ penaltyPaid[t.installment] \in Nat
        BY <1>01, <3>1
      <4>6. penalties' = Total(Open', Installment)
        BY <1>0, <1>02, <2>0, <3>2, <4>1, <4>2, <4>4, <4>5
      <4> QED
        BY <1>02, <2>0, <4>3, <4>6, OwedIs
    <3>6. t.kind \in {"accrual", "penalty"}
      BY <1>4, <2>1, Completed
    <3> QED
      BY <3>4, <3>5, <3>6
  <2>2. CASE ~Completes(k)
    BY <1>2, <1>4, <2>2 DEF Complete, schedule
  <2> QED
    BY <2>1, <2>2
<1>5. ASSUME NEW i \in Installment, Repay(i) PROVE OwedIsScheduleAndPenalties'
  <2>1. /\ paid' = paid \cup {i} /\ penaltyPaid' = [penaltyPaid EXCEPT ![i] = penaltyDue[i]]
        /\ scheduled' = IF i \in paid THEN scheduled ELSE scheduled - Scheduled[i]
        /\ penalties' = penalties - (penaltyDue[i] - penaltyPaid[i])
        /\ UNCHANGED <<penaltyDue, row>>
    BY <1>5 DEF Repay
  <2>2. \A j \in Installment : CumulativeBefore(j)' = CumulativeBefore(j)
    BY <1>0, <2>1, BeforeKept
  <2>3. /\ penaltyPaid'[i] = penaltyDue[i] /\ penaltyDue[i] \in Nat /\ penaltyPaid[i] \in Nat
        /\ \A j \in Installment \ {i} : penaltyPaid'[j] = penaltyPaid[j]
    BY <1>01, <2>1
  <2>4. \A j \in Installment : penaltyDue'[j] = CumulativeBefore(j)' /\ penaltyPaid'[j] <= penaltyDue'[j]
    BY <1>01, <1>02, <2>1, <2>2, <2>3
  <2>5. Total(Open', Installment) = Total(Open, Installment) +
          ((penaltyDue'[i] - penaltyPaid'[i]) - (penaltyDue[i] - penaltyPaid[i]))
    BY <1>0, <2>1, <2>3, OpenChanges
  <2>6. penalties' = Total(Open', Installment)
    BY <1>0, <1>02, <2>1, <2>3, <2>5
  <2>7. scheduled' = Total(Scheduled, Installment \ paid')
    <3>1. CASE i \in paid
      <4>1. Installment \ paid' = Installment \ paid
        BY <2>1, <3>1
      <4> QED
        BY <1>02, <2>1, <3>1, <4>1
    <3>2. CASE i \notin paid
      <4> DEFINE S == Installment \ paid
      <4>1. Installment \ paid' = S \ {i} /\ i \in S
        BY <2>1, <3>2
      <4>2. IsFiniteSet(S) /\ IsFiniteSet(S \ {i}) /\ \A j \in S : Scheduled[j] \in Int
        BY FiniteInstallments, ScheduleAssumption
      <4> HIDE DEF S
      <4>3. Total(Scheduled, S) = Scheduled[i] + Total(Scheduled, S \ {i})
        BY <4>1, <4>2, TotalWithout
      <4>4. Total(Scheduled, S \ {i}) \in Int /\ Scheduled[i] \in Int
        BY <4>1, <4>2, TotalType
      <4>5. scheduled = Total(Scheduled, S)
        BY <1>02 DEF S
      <4>6. scheduled' = scheduled - Scheduled[i]
        BY <2>1, <3>2
      <4>7. scheduled' = Total(Scheduled, S \ {i})
        BY <4>3, <4>4, <4>5, <4>6
      <4> QED
        BY <4>1, <4>7
    <3> QED
      BY <3>1, <3>2
  <2> QED
    BY <2>4, <2>6, <2>7, OwedIs
<1>6. ASSUME NEW i \in Installment, Reverse(i) PROVE OwedIsScheduleAndPenalties'
  <2>1. /\ paid' = paid \ {i} /\ penaltyPaid' = [penaltyPaid EXCEPT ![i] = 0] /\ i \in paid
        /\ scheduled' = scheduled + Scheduled[i] /\ penalties' = penalties + penaltyPaid[i]
        /\ UNCHANGED <<penaltyDue, row>>
    BY <1>6 DEF Reverse
  <2>2. \A j \in Installment : CumulativeBefore(j)' = CumulativeBefore(j)
    BY <1>0, <2>1, BeforeKept
  <2>3. /\ penaltyPaid'[i] = 0 /\ penaltyDue[i] \in Nat /\ penaltyPaid[i] \in Nat
        /\ \A j \in Installment \ {i} : penaltyPaid'[j] = penaltyPaid[j]
    BY <1>01, <2>1
  <2>4. \A j \in Installment : penaltyDue'[j] = CumulativeBefore(j)' /\ penaltyPaid'[j] <= penaltyDue'[j]
    BY <1>01, <1>02, <2>1, <2>2, <2>3
  <2>5. Total(Open', Installment) = Total(Open, Installment) +
          ((penaltyDue'[i] - penaltyPaid'[i]) - (penaltyDue[i] - penaltyPaid[i]))
    BY <1>0, <2>1, <2>3, OpenChanges
  <2>6. penalties' = Total(Open', Installment)
    BY <1>0, <1>02, <2>1, <2>3, <2>5
  <2>7. scheduled' = Total(Scheduled, Installment \ paid')
    <3> DEFINE S == Installment \ paid
    <3>1. Installment \ paid' = S \cup {i} /\ i \notin S
      BY <2>1
    <3>2. IsFiniteSet(S) /\ \A j \in S \cup {i} : Scheduled[j] \in Int
      BY FiniteInstallments, ScheduleAssumption
    <3>3. scheduled = Total(Scheduled, S)
      BY <1>02
    <3> HIDE DEF S
    <3>4. Total(Scheduled, S \cup {i}) = Scheduled[i] + Total(Scheduled, S)
      BY <3>1, <3>2, TotalWith
    <3>5. Scheduled[i] \in Int
      BY <3>2
    <3>6. scheduled' = Total(Scheduled, S \cup {i})
      BY <1>0, <2>1, <3>3, <3>4, <3>5
    <3> QED
      BY <3>1, <3>6
  <2> QED
    BY <2>4, <2>6, <2>7, OwedIs
<1>7. CASE Quiet
  BY <1>2, <1>7 DEF Quiet, loan
<1>8. ASSUME NEW c \in Calls, PostLedger(c) \/ WriteAssessment(c) PROVE OwedIsScheduleAndPenalties'
  BY <1>2, <1>8 DEF PostLedger, WriteAssessment, loan
<1> QED
  BY <1>3, <1>4, <1>5, <1>6, <1>7, <1>8, Cases

LEMMA NextIInv == IInv /\ [Next]_vars => IInv'
<1> SUFFICES ASSUME IInv, [Next]_vars PROVE IInv'
  OBVIOUS
<1> QED
  BY NextTypes, NextCalls, NextRows, NextPosted, NextOwed, NextOverdue DEF IInv

\* Ledger, records, loan and installments tell one story of what is owed, whatever calls
\* overlap, are sent again or die, and whenever repayments and reversals come between
\* (loan-servicing-service.ts: accrueInterest to completePenalty).
THEOREM OwedByTheBookHolds == Spec => []OwedByTheBook
<1>1. Init => IInv
  BY InitIInv
<1>2. IInv /\ [Next]_vars => IInv'
  BY NextIInv
<1>3. IInv => OwedByTheBook
  BY TypeCorrect
<1> QED
  BY <1>1, <1>2, <1>3, PTL DEF Spec

-----------------------------------------------------------------------------
(* Until something crosses. *)

LEMMA SomethingLeft ==
  ASSUME NEW m \in Nat, NEW n \in Nat, m > 0 \/ n > 0
  PROVE  m + n # 0
  OBVIOUS

LEMMA NextSettled == ASSUME IInv, SettledUnlessLate, HistoryNext PROVE SettledUnlessLate'
<1>0. /\ scheduled \in Nat /\ penalties \in Nat /\ [Next]_vars
      /\ loanStatus \in Serviceable \cup {"SETTLED"}
      /\ late' = (late \/ (loanStatus = "SETTLED" /\ (assessed' # assessed \/ penaltyDue' # penaltyDue)))
  BY BalancesType DEF IInv, Types, HistoryNext
<1>1. CASE UNCHANGED <<loanStatus, scheduled, penalties>>
  BY <1>0, <1>1 DEF SettledUnlessLate
<1>2. CASE Quiet
  BY <1>1, <1>2 DEF Quiet, loan
<1>3. ASSUME NEW c \in Calls, Complete(c) PROVE SettledUnlessLate'
  <2> DEFINE t == row[call[c].posting].target
  <2>1. CASE Completes(call[c].posting) /\ t.kind = "penalty" /\ t.amount # 0
    <3>1. /\ penalties' = penalties + t.amount
          /\ penaltyDue' = [penaltyDue EXCEPT ![t.installment] = @ + t.amount]
          /\ t \in Targets /\ t.installment \in Installment
      BY <1>3, <2>1, Completed
    <3>2. t.amount \in Nat
      BY <3>1 DEF Targets
    <3> HIDE DEF t
    <3>3. penaltyDue' # penaltyDue
      <4>1. penaltyDue \in [Installment -> Nat]
        BY DEF IInv, Types
      <4>2. penaltyDue'[t.installment] = penaltyDue[t.installment] + t.amount
        BY <3>1, <4>1
      <4>3. penaltyDue[t.installment] \in Nat
        BY <3>1, <4>1
      <4> QED
        BY <2>1, <3>2, <4>2, <4>3
    <3>4. UNCHANGED <<loanStatus, scheduled>>
      BY <1>3 DEF Complete
    <3>5. scheduled' \in Nat /\ penalties' \in Nat /\ penalties' > 0
      BY <1>0, <2>1, <3>1, <3>2, <3>4
    <3>6. loanStatus = "SETTLED" => late'
      BY <1>0, <3>3
    <3>7. loanStatus # "SETTLED" => loanStatus' # "SETTLED"
      BY <3>4
    <3>8. scheduled' + penalties' # 0
      BY <3>5, SomethingLeft
    <3> QED
      BY <3>6, <3>7, <3>8 DEF SettledUnlessLate
  <2>2. CASE Completes(call[c].posting) /\ t.kind = "penalty" /\ t.amount = 0
    <3>1. penalties' = penalties + t.amount
      BY <1>3, <2>2, Completed
    <3> QED
      BY <1>0, <1>1, <1>3, <2>2, <3>1 DEF Complete
  <2>3. CASE Completes(call[c].posting) /\ t.kind # "penalty"
    <3>1. UNCHANGED penalties
      BY <1>3, <2>3, Completed
    <3> QED
      BY <1>1, <1>3, <3>1 DEF Complete
  <2>4. CASE ~Completes(call[c].posting)
    BY <1>1, <1>3, <2>4 DEF Complete
  <2> QED
    BY <2>1, <2>2, <2>3, <2>4
<1>4. ASSUME NEW c \in Calls, WriteAssessment(c) PROVE SettledUnlessLate'
  <2>1. CASE UNCHANGED loanStatus
    BY <1>1, <1>4, <2>1 DEF WriteAssessment
  <2>2. CASE assessed' # assessed /\ loanStatus' = StatusOf(call[c].target.amount)
    <3>1. call[c].target.amount \in Nat
      BY <1>4, CallKnows DEF WriteAssessment
    <3>2. loanStatus # "SETTLED" => loanStatus' # "SETTLED"
      BY <2>2, <3>1 DEF StatusOf
    <3>3. UNCHANGED <<scheduled, penalties>>
      BY <1>4 DEF WriteAssessment
    <3> QED
      BY <1>0, <2>2, <3>2, <3>3 DEF SettledUnlessLate
  <2>3. call[c].target.date \notin assessed => assessed' # assessed /\ loanStatus' = StatusOf(call[c].target.amount)
    BY <1>4 DEF WriteAssessment
  <2>4. call[c].target.date \in assessed => UNCHANGED loanStatus
    BY <1>4 DEF WriteAssessment
  <2> QED
    BY <2>1, <2>2, <2>3, <2>4
<1>5. ASSUME NEW i \in Installment, Repay(i) PROVE SettledUnlessLate'
  BY <1>0, <1>5 DEF Repay, Cleared, SettledUnlessLate, Serviceable
<1>6. ASSUME NEW i \in Installment, Reverse(i) PROVE SettledUnlessLate'
  <2>1. /\ loanStatus' # "SETTLED" /\ scheduled' = scheduled + Scheduled[i]
        /\ penalties' = penalties + penaltyPaid[i]
    BY <1>6 DEF Reverse
  <2>2. Scheduled[i] \in Nat /\ Scheduled[i] # 0 /\ penaltyPaid[i] \in Nat
    BY ScheduleAssumption DEF IInv, Types
  <2>3. scheduled' \in Nat /\ penalties' \in Nat /\ scheduled' > 0
    BY <1>0, <2>1, <2>2
  <2>4. scheduled' + penalties' # 0
    BY <2>3, SomethingLeft
  <2> QED
    BY <2>1, <2>4 DEF SettledUnlessLate
<1>7. ASSUME NEW c \in Calls, Insert(c) \/ PostLedger(c) PROVE SettledUnlessLate'
  BY <1>1, <1>7 DEF Insert, PostLedger, loan
<1> QED
  BY <1>0, <1>2, <1>3, <1>4, <1>5, <1>6, <1>7, Cases

\* Whoever assesses alone has read the bucket in force.
LEMMA NextCrossed == ASSUME IInv, CrossedInv, HistoryNext PROVE CrossedInv'
<1> SUFFICES ASSUME ~crossed'
             PROVE  /\ ~Several(Assessing)'
                    /\ \A d \in Calls : At(d, "oldest")' \/ At(d, "assess")' => call'[d].bucket = bucket'
                    /\ announced' = bucket'
  BY DEF CrossedInv, Assessing
<1>1. /\ ~crossed /\ ~Several(Assessing)' /\ [Next]_vars /\ Next
      /\ call \in [Calls -> CallType] /\ bucket \in Nat /\ row \in [Postings -> RowType]
  BY DEF HistoryNext, IInv, Types
<1>2. /\ ~Several(Assessing) /\ announced = bucket
      /\ \A d \in Calls : At(d, "oldest") \/ At(d, "assess") => call[d].bucket = bucket
  BY <1>1 DEF CrossedInv, Assessing
<1> DEFINE Reads(d) == At(d, "oldest")' \/ At(d, "assess")' => call'[d].bucket = bucket'
<1>3. ASSUME NEW c \in Calls, UNCHANGED bucket, \A d \in Calls \ {c} : call'[d] = call[d], Reads(c)
      PROVE  \A d \in Calls : Reads(d)
  BY <1>2, <1>3 DEF At
<1>4. ASSUME NEW c \in Calls, Step(c), ~WriteAssessment(c)
      PROVE  announced' = bucket' /\ \A d \in Calls : Reads(d)
  <2>1. UNCHANGED <<bucket, announced>>
    BY <1>4 DEF Step, ReadInstallment, ReadCumulative, Insert, PostLedger, Complete, ReadOldest, loan
  <2>2. \A d \in Calls \ {c} : call'[d] = call[d]
    BY <1>4, CallMoves
  <2>3. Reads(c)
    <3>1. CASE ReadOldest(c)
      <4>1. call[c].target.date \in Nat
        BY <1>1 DEF CallType, Targets
      <4>2. Oldest(call[c].target.date) \in Nat /\ "assess" \in Points
        BY <4>1, OldestType DEF Points
      <4>3. call'[c].bucket = call[c].bucket
        BY <1>1, <3>1, <4>2, Finds DEF ReadOldest
      <4> QED
        BY <1>2, <2>1, <3>1, <4>3 DEF ReadOldest
    <3>2. CASE call'[c].at \notin {"oldest", "assess"}
      BY <3>2 DEF At
    <3>3. CASE End(c)
      <4>1. call'[c].at = "idle"
        BY <1>1, <3>3, Ended DEF Idle
      <4> QED
        BY <3>2, <4>1
    <3>4. CASE \E point \in {"sum", "post", "complete"} : GoTo(c, point)
      BY <1>1, <3>2, <3>4, Gone DEF Points
    <3>5. CASE ReadCumulative(c)
      <4> DEFINE found == CalculatePenalty(CumulativeBefore(call[c].target.installment))
      <4>1. found \in Nat /\ "insert" \in Points
        BY <1>1, BeforeType, PenaltyType DEF Points
      <4>2. Found(c, "insert", found) \/ End(c)
        BY <3>5 DEF ReadCumulative
      <4> HIDE DEF found
      <4>3. CASE Found(c, "insert", found)
        <5>1. call'[c].at = "insert"
          BY <1>1, <4>1, <4>3, Finds
        <5> QED
          BY <3>2, <5>1
      <4> QED
        BY <3>3, <4>2, <4>3
    <3> QED
      BY <1>4, <3>1, <3>3, <3>4, <3>5 DEF Step, ReadInstallment, Insert, PostLedger, Complete
  <2> QED
    BY <1>2, <1>3, <2>1, <2>2, <2>3
<1>5. ASSUME NEW c \in Calls, WriteAssessment(c)
      PROVE  announced' = bucket' /\ \A d \in Calls : Reads(d)
  <2>1. call'[c].at = "idle" /\ \A d \in Calls \ {c} : call'[d] = call[d]
    BY <1>1, <1>5, Ended DEF WriteAssessment, Idle
  <2>2. \A d \in Calls : ~(At(d, "oldest")' \/ At(d, "assess")')
    <3>1. c \in Assessing
      BY <1>5 DEF WriteAssessment, Assessing
    <3>2. \A d \in Calls \ {c} : d \notin Assessing
      BY <1>2, <3>1 DEF Several
    <3> QED
      BY <2>1, <3>2 DEF Assessing, At
  <2>3. call[c].bucket = bucket
    BY <1>2, <1>5 DEF WriteAssessment
  <2>4. announced' = bucket'
    BY <1>2, <1>5, <2>3 DEF WriteAssessment, Announces
  <2> QED
    BY <2>2, <2>4
<1>6. ASSUME NEW c \in Calls, Request(c) PROVE announced' = bucket' /\ \A d \in Calls : Reads(d)
  <2>1. UNCHANGED <<bucket, announced>>
    BY <1>6 DEF Request, Resend, Start, Assess, loan
  <2>2. \A d \in Calls \ {c} : call'[d] = call[d]
    BY <1>6, CallMoves DEF Request
  <2>3. ASSUME NEW k \in Postings, Resend(c, k) PROVE Reads(c)
    <3>1. call'[c].at = "post"
      BY <1>1, <2>3 DEF Resend, Begin
    <3> QED
      BY <3>1 DEF At
  <2>4. ASSUME NEW k \in Postings, NEW kind \in {"accrual", "penalty"}, NEW i \in Installment,
               NEW date \in Periods, Start(c, k, kind, i, date)
        PROVE  Reads(c)
    <3>1. call'[c].at = FirstPoint(kind)
      BY <1>1, <2>4 DEF Start, Begin
    <3> QED
      BY <3>1 DEF At, FirstPoint
  <2>5. ASSUME NEW date \in Dates, Assess(c, date) PROVE Reads(c)
    <3>1. call'[c].bucket = bucket
      BY <1>1, <2>5 DEF Assess, Begin
    <3> QED
      BY <2>1, <3>1
  <2> HIDE DEF Reads
  <2>6. Reads(c)
    BY <1>6, <2>3, <2>4, <2>5 DEF Request
  <2> QED
    BY <1>2, <1>3, <2>1, <2>2, <2>6
<1>7. ASSUME NEW c \in Calls, Abort(c) PROVE announced' = bucket' /\ \A d \in Calls : Reads(d)
  <2>1. UNCHANGED <<bucket, announced>> /\ End(c)
    BY <1>7 DEF Abort, loan
  <2>2. call'[c].at = "idle" /\ \A d \in Calls \ {c} : call'[d] = call[d]
    BY <1>1, <2>1, Ended DEF Idle
  <2>3. Reads(c)
    BY <2>2 DEF At
  <2> QED
    BY <1>2, <1>3, <2>1, <2>2, <2>3
<1>8. ASSUME NEW i \in Installment, Repay(i) \/ Reverse(i)
      PROVE  announced' = bucket' /\ \A d \in Calls : Reads(d)
  BY <1>2, <1>8 DEF Repay, Reverse, At
<1> HIDE DEF Reads
<1>9. announced' = bucket' /\ \A d \in Calls : Reads(d)
  BY <1>1, <1>4, <1>5, <1>6, <1>7, <1>8 DEF Next
<1> QED
  BY <1>1, <1>9 DEF Reads

\* Who is on the way, of the postings recorded and of the calls about to record one.
LEMMA OnItsWayIs ==
  ASSUME NEW i
  PROVE  /\ \A k \in Postings : /\ row[k].status = "POSTING" /\ row[k].target.kind = "penalty"
                                /\ row[k].target.installment = i
                                => k \in OnItsWay(i)
         /\ \A c \in Calls : /\ At(c, "insert") /\ call[c].target.kind = "penalty"
                             /\ call[c].target.installment = i
                             => call[c].posting \in OnItsWay(i)
         /\ \A k \in PenaltiesOf(i, {"POSTING"}) : k \in OnItsWay(i)
  BY DEF OnItsWay, PenaltiesOf

\* A call that is about to record a penalty after a step: it has just found the penalty
\* the cap allows, or it was about to before.
LEMMA NextInserting ==
  ASSUME IInv, [Next]_vars, NEW d \in Calls, At(d, "insert")', call'[d].target.kind = "penalty"
  PROVE  \/ At(d, "insert") /\ call'[d] = call[d]
         \/ /\ row' = row /\ call'[d].target.installment \in Installment
            /\ call'[d].target.amount + CumulativeBefore(call'[d].target.installment) <= Cap
<1> DEFINE Goal == \/ At(d, "insert") /\ call'[d] = call[d]
                   \/ /\ row' = row /\ call'[d].target.installment \in Installment
                      /\ call'[d].target.amount + CumulativeBefore(call'[d].target.installment) <= Cap
<1> SUFFICES Goal
  OBVIOUS
<1>0. call \in [Calls -> CallType] /\ row \in [Postings -> RowType] /\ call'[d].at = "insert"
  BY DEF IInv, Types, At
<1>1. CASE call'[d] = call[d]
  BY <1>1 DEF At
<1>2. ASSUME NEW c \in Calls, Step(c) \/ Request(c) \/ Abort(c), c # d PROVE Goal
  BY <1>1, <1>2, CallMoves DEF Request
<1>3. CASE ReadCumulative(d)
  <2> DEFINE i     == call[d].target.installment
             found == CalculatePenalty(CumulativeBefore(i))
  <2>1. found \in Nat /\ found > 0 => found + CumulativeBefore(i) <= Cap
    BY <1>0, BeforeType, PenaltyType
  <2>2. found \in Nat
    BY <1>0, BeforeType, PenaltyType
  <2>3. call[d].target \in Targets /\ i \in Installment /\ row' = row
    <3>1. CallInv(d) /\ At(d, "sum") /\ row' = row
      BY <1>3 DEF IInv, CallsInv, ReadCumulative
    <3> QED
      BY <1>0, <3>1 DEF CallInv, CallType, At
  <2>4. \/ Found(d, "insert", found) /\ found > 0
        \/ End(d)
    BY <1>3 DEF ReadCumulative
  <2> HIDE DEF found
  <2>5. CASE Found(d, "insert", found) /\ found > 0
    <3>1. call'[d].target = [call[d].target EXCEPT !.amount = found]
      BY <1>0, <2>2, <2>5, Finds DEF Points
    <3>2. call'[d].target.amount = found /\ call'[d].target.installment = i
      BY <2>3, <3>1 DEF Targets
    <3> QED
      BY <2>1, <2>2, <2>3, <2>5, <3>2
  <2>6. CASE End(d)
    BY <1>0, <2>6, Ended DEF Idle
  <2> QED
    BY <2>4, <2>5, <2>6
<1>4. ASSUME End(d) PROVE Goal
  BY <1>0, <1>4, Ended DEF Idle
<1>5. ASSUME NEW point \in {"sum", "post", "complete"}, GoTo(d, point) PROVE Goal
  <2>1. call'[d].at = point
    BY <1>0, <1>5, Gone DEF Points
  <2> QED
    BY <1>0, <2>1
<1>6. CASE ReadOldest(d)
  <2>1. call[d].target.date \in Nat
    BY <1>0 DEF CallType, Targets
  <2>2. Oldest(call[d].target.date) \in Nat /\ "assess" \in Points
    BY <2>1, OldestType DEF Points
  <2>3. call'[d].at = "assess"
    BY <1>0, <1>6, <2>2, Finds DEF ReadOldest
  <2> QED
    BY <1>0, <2>3
<1>7. ASSUME NEW k \in Postings, Resend(d, k) PROVE Goal
  BY <1>0, <1>7 DEF Resend, Begin
<1>8. ASSUME NEW k \in Postings, NEW kind \in {"accrual", "penalty"}, NEW i \in Installment,
             NEW date \in Periods, Start(d, k, kind, i, date)
      PROVE  Goal
  <2>1. call'[d].at = FirstPoint(kind) /\ call'[d].target.kind = kind
    BY <1>0, <1>8 DEF Start, Begin, Target
  <2> QED
    BY <1>0, <2>1 DEF FirstPoint
<1>9. ASSUME NEW date \in Dates, Assess(d, date) PROVE Goal
  BY <1>0, <1>9 DEF Assess, Begin
<1> HIDE DEF Goal
<1>10. CASE Step(d)
  <2>1. \/ ReadCumulative(d) \/ ReadOldest(d) \/ End(d)
        \/ \E point \in {"sum", "post", "complete"} : GoTo(d, point)
    BY <1>10 DEF Step, ReadInstallment, Insert, PostLedger, Complete, WriteAssessment
  <2> QED
    BY <2>1, <1>3, <1>4, <1>5, <1>6
<1>11. CASE Request(d)
  BY <1>7, <1>8, <1>9, <1>11 DEF Request
<1>12. Abort(d) => End(d)
  BY DEF Abort
<1>13. ASSUME NEW i \in Installment, Repay(i) \/ Reverse(i) PROVE call'[d] = call[d]
  BY <1>13 DEF Repay, Reverse
<1>14. UNCHANGED vars => call'[d] = call[d]
  BY DEF vars
<1>15. call'[d] = call[d] => Goal
  BY <1>1
<1> QED
  BY <1>2, <1>4, <1>10, <1>11, <1>12, <1>13, <1>14, <1>15 DEF Next

LEMMA NextPending == ASSUME IInv, PendingInv, HistoryNext PROVE PendingInv'
<1> SUFFICES ASSUME ~pending'
             PROVE  /\ \A i \in Installment : ~Several(OnItsWay(i))' /\ CumulativeBefore(i)' <= Cap
                    /\ \A k \in Postings : row'[k].status = "POSTING" => FitsCap(row[k].target)'
                    /\ \A c \in Calls : At(c, "insert")' /\ row'[call'[c].posting].status = "NONE"
                                           => FitsCap(call[c].target)'
  BY DEF PendingInv
<1>1. /\ ~pending /\ [Next]_vars /\ \A i \in Installment : ~Several(OnItsWay(i))'
      /\ call \in [Calls -> CallType] /\ row \in [Postings -> RowType]
      /\ call' \in [Calls -> CallType] /\ row' \in [Postings -> RowType]
  BY NextTypes DEF HistoryNext, IInv, Types
<1>2. /\ \A i \in Installment : ~Several(OnItsWay(i)) /\ CumulativeBefore(i) <= Cap
      /\ \A k \in Postings : row[k].status = "POSTING" => FitsCap(row[k].target)
      /\ \A c \in Calls : At(c, "insert") /\ row[call[c].posting].status = "NONE" => FitsCap(call[c].target)
  BY <1>1 DEF PendingInv
<1>3. /\ CallsInv' /\ RowsInv /\ CallsInv
      /\ \A k \in Postings : row[k].status # "NONE" => row'[k].status # "NONE" /\ row'[k].target = row[k].target
  BY <1>1, NextCalls, Records DEF IInv
<1>4. ASSUME NEW c \in Calls, At(c, "insert")'
      PROVE  call'[c].posting \in Postings /\ call'[c].target.installment \in Installment
  BY <1>3, <1>4 DEF CallsInv, CallInv, At
<1>5. ASSUME \A i \in Installment : CumulativeBefore(i)' = CumulativeBefore(i),
             \A k \in Postings : row'[k].status = "POSTING" /\ row'[k].target.kind = "penalty" =>
                /\ row'[k].target.installment \in Installment
                /\ row'[k].target.amount + CumulativeBefore(row'[k].target.installment) <= Cap
      PROVE  /\ \A i \in Installment : CumulativeBefore(i)' <= Cap
             /\ \A k \in Postings : row'[k].status = "POSTING" => FitsCap(row[k].target)'
             /\ \A c \in Calls : At(c, "insert")' /\ row'[call'[c].posting].status = "NONE"
                                    => FitsCap(call[c].target)'
  <2>1. \A i \in Installment : CumulativeBefore(i)' <= Cap
    BY <1>2, <1>5
  <2>2. ASSUME NEW k \in Postings, row'[k].status = "POSTING" PROVE FitsCap(row[k].target)'
    <3>1. SUFFICES ASSUME row'[k].target.kind = "penalty"
                   PROVE  row'[k].target.amount + CumulativeBefore(row[k].target.installment)' <= Cap
      BY DEF FitsCap
    <3>2. CumulativeBefore(row[k].target.installment)' = CumulativeBefore(row'[k].target.installment)
      <4>1. PICK i \in Installment : i = row'[k].target.installment
        BY <1>5, <2>2, <3>1
      <4>2. CumulativeBefore(row[k].target.installment)' = CumulativeBefore(i)'
        BY <4>1 DEF CumulativeBefore, PenaltiesOf
      <4> QED
        BY <1>5, <4>1, <4>2
    <3> QED
      BY <1>5, <2>2, <3>1, <3>2
  <2>3. ASSUME NEW c \in Calls, At(c, "insert")', row'[call'[c].posting].status = "NONE"
        PROVE  FitsCap(call[c].target)'
    <3>1. SUFFICES ASSUME call'[c].target.kind = "penalty"
                   PROVE  call'[c].target.amount + CumulativeBefore(call[c].target.installment)' <= Cap
      BY DEF FitsCap
    <3>2. PICK i \in Installment : i = call'[c].target.installment
      BY <1>4, <2>3
    <3>3. CumulativeBefore(call[c].target.installment)' = CumulativeBefore(i)
      <4>1. CumulativeBefore(call[c].target.installment)' = CumulativeBefore(i)'
        BY <3>2 DEF CumulativeBefore, PenaltiesOf
      <4> QED
        BY <1>5, <4>1
    <3>4. call'[c].target.amount + CumulativeBefore(i) <= Cap
      <4>1. CASE At(c, "insert") /\ call'[c] = call[c]
        <5>1. row[call[c].posting].status = "NONE"
          BY <1>3, <1>4, <2>3, <4>1
        <5>2. FitsCap(call[c].target)
          BY <1>2, <4>1, <5>1
        <5> QED
          BY <3>1, <3>2, <4>1, <5>2 DEF FitsCap
      <4> QED
        BY <1>1, <2>3, <3>1, <3>2, <4>1, NextInserting
    <3> QED
      BY <3>3, <3>4
  <2> QED
    BY <2>1, <2>2, <2>3

<1> DEFINE Goal == /\ \A i \in Installment : CumulativeBefore(i)' <= Cap
                   /\ \A k \in Postings : row'[k].status = "POSTING" => FitsCap(row[k].target)'
                   /\ \A c \in Calls : At(c, "insert")' /\ row'[call'[c].posting].status = "NONE"
                                          => FitsCap(call[c].target)'
<1> SUFFICES Goal
  BY <1>1
<1>6. ASSUME NEW k \in Postings, row[k].status = "POSTING", row[k].target.kind = "penalty"
      PROVE  /\ row[k].target.installment \in Installment
             /\ row[k].target.amount + CumulativeBefore(row[k].target.installment) <= Cap
  BY <1>2, <1>3, <1>6 DEF FitsCap, RowsInv
<1>7. CASE row' = row
  <2>1. \A i \in Installment : CumulativeBefore(i)' = CumulativeBefore(i)
    BY <1>1, <1>7, BeforeKept
  <2> QED
    BY <1>5, <1>6, <1>7, <2>1
<1>8. ASSUME NEW c \in Calls, Insert(c) PROVE Goal
  <2> DEFINE k == call[c].posting
  <2>1. CASE row' = row
    BY <1>7, <2>1
  <2>2. CASE row' # row
    <3>1. /\ k \in Postings /\ row[k].status = "NONE" /\ row'[k].status = "POSTING"
          /\ row'[k].target = call[c].target /\ \A j \in Postings \ {k} : row'[j] = row[j]
          /\ call[c].target.installment \in Installment /\ At(c, "insert")
      BY <1>8, <2>2, Inserted
    <3>2. FitsCap(call[c].target)
      BY <1>2, <3>1
    <3> HIDE DEF k
    <3>3. \A i \in Installment : CumulativeBefore(i)' = CumulativeBefore(i)
      BY <1>1, <3>1, BeforeKept
    <3>4. ASSUME NEW j \in Postings, row'[j].status = "POSTING", row'[j].target.kind = "penalty"
          PROVE  /\ row'[j].target.installment \in Installment
                 /\ row'[j].target.amount + CumulativeBefore(row'[j].target.installment) <= Cap
      <4>1. CASE j = k
        BY <3>1, <3>2, <3>4, <4>1 DEF FitsCap
      <4>2. CASE j # k
        BY <1>6, <3>1, <3>4, <4>2
      <4> QED
        BY <4>1, <4>2
    <3> HIDE DEF Goal
    <3> QED
      BY <1>5, <3>3, <3>4 DEF Goal
  <2> QED
    BY <2>1, <2>2
<1>9. ASSUME NEW c \in Calls, Complete(c) PROVE Goal
  <2> DEFINE k == call[c].posting
             t == row[k].target
  <2>1. CASE ~Completes(k)
    BY <1>7, <1>9, <2>1 DEF Complete
  <2>2. CASE Completes(k)
    <3>1. /\ k \in Postings /\ row[k].status = "POSTING" /\ row' = [row EXCEPT ![k].status = "POSTED"]
          /\ row'[k].status = "POSTED" /\ row'[k].target = t
          /\ \A j \in Postings \ {k} : row'[j] = row[j]
          /\ t \in Targets /\ t.installment \in Installment
      BY <1>9, <2>2, Completed
    <3>2. t.amount \in Nat
      BY <3>1 DEF Targets
    <3> HIDE DEF k
    <3>3. ASSUME NEW i \in Installment
          PROVE  /\ CumulativeBefore(i)' =
                      CumulativeBefore(i) + IF t.kind = "penalty" /\ t.installment = i THEN t.amount ELSE 0
                 /\ CumulativeBefore(i) \in Nat
      BY <1>1, <3>1, BeforeGrows, BeforeType
    <3>4. ASSUME NEW j \in Postings, row'[j].status = "POSTING"
          PROVE  j # k /\ row'[j] = row[j] /\ row[j].status = "POSTING"
      BY <3>1, <3>4
    <3>5. CASE t.kind # "penalty"
      <4>1. \A i \in Installment : CumulativeBefore(i)' = CumulativeBefore(i)
        BY <3>3, <3>5
      <4>2. \A j \in Postings : row'[j].status = "POSTING" /\ row'[j].target.kind = "penalty" =>
                /\ row'[j].target.installment \in Installment
                /\ row'[j].target.amount + CumulativeBefore(row'[j].target.installment) <= Cap
        BY <1>6, <3>4
      <4> HIDE DEF Goal
      <4> QED
        BY <1>5, <4>1, <4>2 DEF Goal
    <3>6. CASE t.kind = "penalty"
      <4>0. PICK i \in Installment : i = t.installment
        BY <3>1
      <4>1. k \in OnItsWay(i)
        BY <3>1, <3>6, <4>0, OnItsWayIs
      <4>2. CumulativeBefore(i)' = CumulativeBefore(i) + t.amount
        BY <3>3, <3>6, <4>0
      <4>3. \A j \in Installment \ {i} : CumulativeBefore(j)' = CumulativeBefore(j)
        BY <3>3, <4>0
      <4>4. CumulativeBefore(i) + t.amount <= Cap
        BY <1>6, <3>1, <3>2, <3>3, <3>6, <4>0
      <4>5. \A j \in Installment : CumulativeBefore(j)' <= Cap
        BY <1>2, <4>2, <4>3, <4>4
      <4>6. ASSUME NEW j \in Postings, row'[j].status = "POSTING" PROVE FitsCap(row[j].target)'
        <5>1. SUFFICES ASSUME row'[j].target.kind = "penalty"
                       PROVE  row'[j].target.amount + CumulativeBefore(row[j].target.installment)' <= Cap
          BY DEF FitsCap
        <5>2. j # k /\ row'[j] = row[j] /\ row[j].status = "POSTING" /\ row[j].target.kind = "penalty"
          BY <3>4, <4>6, <5>1
        <5>3. row[j].target.installment # i
          BY <1>2, <4>1, <5>2, OnItsWayIs DEF Several
        <5>4. PICK h \in Installment : h = row[j].target.installment /\ h # i
          BY <1>6, <5>2, <5>3
        <5>5. CumulativeBefore(row[j].target.installment)' = CumulativeBefore(h)'
          BY <5>2, <5>4 DEF CumulativeBefore, PenaltiesOf
        <5> QED
          BY <1>6, <4>3, <5>2, <5>4, <5>5
      <4>7. ASSUME NEW d \in Calls, At(d, "insert")', row'[call'[d].posting].status = "NONE"
            PROVE  FitsCap(call[d].target)'
        <5>1. SUFFICES ASSUME call'[d].target.kind = "penalty"
                       PROVE  call'[d].target.amount + CumulativeBefore(call[d].target.installment)' <= Cap
          BY DEF FitsCap
        <5>2. At(d, "insert") /\ call'[d] = call[d]
          <6>1. row' # row
            BY <3>1
          <6> QED
            BY <1>1, <4>7, <5>1, <6>1, NextInserting
        <5>3. call[d].posting \in Postings /\ call[d].posting # k /\ row[call[d].posting].status = "NONE"
          BY <1>3, <1>4, <3>1, <4>7, <5>2
        <5>4. call[d].target.installment # i
          BY <1>2, <4>1, <5>1, <5>2, <5>3, OnItsWayIs DEF Several
        <5>5. PICK h \in Installment : h = call[d].target.installment /\ h # i
          BY <1>4, <4>7, <5>2, <5>4
        <5>6. CumulativeBefore(call[d].target.installment)' = CumulativeBefore(h)'
          BY <5>2, <5>5 DEF CumulativeBefore, PenaltiesOf
        <5>7. FitsCap(call[d].target)
          BY <1>2, <5>2, <5>3
        <5> QED
          BY <4>3, <5>1, <5>2, <5>5, <5>6, <5>7 DEF FitsCap
      <4> QED
        BY <4>5, <4>6, <4>7
    <3> QED
      BY <3>5, <3>6
  <2> QED
    BY <2>1, <2>2
<1> HIDE DEF Goal
<1>10. ASSUME NEW c \in Calls, PostLedger(c) \/ WriteAssessment(c) PROVE row' = row
  BY <1>10 DEF PostLedger, WriteAssessment
<1>11. ASSUME NEW i \in Installment, Repay(i) \/ Reverse(i) PROVE row' = row
  BY <1>11 DEF Repay, Reverse
<1>12. CASE Quiet
  BY <1>7, <1>12 DEF Quiet
<1>13. row' = row => Goal
  BY <1>7
<1> QED
  BY <1>1, <1>8, <1>9, <1>10, <1>11, <1>12, <1>13, Cases

-----------------------------------------------------------------------------
(* What holds until something crosses. *)

LEMMA InitHInv == HistoryInit => HInv
<1> SUFFICES ASSUME HistoryInit PROVE HInv
  OBVIOUS
<1>1. IInv /\ Init
  BY InitIInv DEF HistoryInit
<1>2. \A c \in Calls : call[c].at = "idle"
  BY <1>1 DEF Init, Idle
<1>3. \A k \in Postings : row[k].status = "NONE"
  BY <1>1 DEF Init, NoRow
<1>4. SettledUnlessLate
  <2>1. 1 \in Installment /\ IsFiniteSet(Installment) /\ \A i \in Installment : Scheduled[i] \in Nat
    BY ScheduleAssumption, FiniteInstallments DEF Installment
  <2>2. Scheduled[1] <= Total(Scheduled, Installment) /\ Total(Scheduled, Installment) \in Nat
    BY <2>1, TotalOfNaturals
  <2>3. Scheduled[1] \in Nat /\ Scheduled[1] # 0
    BY <2>1, ScheduleAssumption
  <2>4. scheduled \in Nat /\ scheduled > 0 /\ penalties \in Nat /\ loanStatus # "SETTLED"
    BY <1>1, <2>2, <2>3 DEF Init
  <2> QED
    BY <2>4, SomethingLeft DEF SettledUnlessLate
<1>5. CrossedInv
  <2>1. Assessing = {}
    BY <1>2 DEF Assessing, At
  <2> QED
    BY <1>1, <2>1 DEF CrossedInv, Several, Init
<1>6. PendingInv
  <2>1. ASSUME NEW i \in Installment PROVE ~Several(OnItsWay(i)) /\ CumulativeBefore(i) <= Cap
    <3>1. OnItsWay(i) = {}
      BY <1>2, <1>3 DEF OnItsWay, PenaltiesOf, At
    <3>2. PenaltiesOf(i, {"POSTED"}) = {}
      BY <1>3 DEF PenaltiesOf
    <3>3. CumulativeBefore(i) = 0
      BY <3>2, TotalEmpty DEF CumulativeBefore
    <3> QED
      BY <3>1, <3>3, PolicyAssumption DEF Several
  <2>2. /\ \A k \in Postings : row[k].status # "POSTING"
        /\ \A c \in Calls : ~At(c, "insert")
    BY <1>2, <1>3 DEF At
  <2> QED
    BY <2>1, <2>2 DEF PendingInv
<1> QED
  BY <1>4, <1>5, <1>6 DEF HInv

LEMMA NextHInv == IInv /\ HInv /\ [HistoryNext]_<<vars, history>> => HInv'
<1> SUFFICES ASSUME IInv, HInv, [HistoryNext]_<<vars, history>> PROVE HInv'
  OBVIOUS
<1>1. CASE HistoryNext
  BY <1>1, NextSettled, NextCrossed, NextPending DEF HInv
<1>2. CASE UNCHANGED <<vars, history>>
  <2>1. /\ UNCHANGED <<loanStatus, scheduled, penalties, bucket, announced, row, call>>
        /\ UNCHANGED <<late, crossed, pending>>
    BY <1>2 DEF vars, loan, history
  <2>2. SettledUnlessLate' = SettledUnlessLate
    BY <2>1 DEF SettledUnlessLate
  <2>3. CrossedInv' = CrossedInv
    BY <2>1 DEF CrossedInv, Assessing, At, Several
  <2>4. PendingInv' = PendingInv
    BY <2>1 DEF PendingInv, Several, OnItsWay, PenaltiesOf, FitsCap, CumulativeBefore, Amounts, At
  <2> QED
    BY <2>2, <2>3, <2>4 DEF HInv
<1> QED
  BY <1>1, <1>2

LEMMA HistoryInvariant == HistorySpec => [](IInv /\ HInv)
<1>1. HistoryInit => IInv /\ HInv
  BY InitIInv, InitHInv DEF HistoryInit
<1>2. [HistoryNext]_<<vars, history>> => [Next]_vars
  BY DEF HistoryNext, vars
<1>3. IInv /\ HInv /\ [HistoryNext]_<<vars, history>> => (IInv /\ HInv)'
  BY <1>2, NextIInv, NextHInv
<1> QED
  BY <1>1, <1>3, PTL DEF HistorySpec

\* What the sum of the penalties of an installment that are recorded comes to.
LEMMA WithinCap == IInv /\ HInv => CapUnlessPending
<1> SUFFICES ASSUME IInv, HInv, ~pending, NEW i \in Installment
             PROVE  Total(Amounts, PenaltiesOf(i, {"POSTING", "POSTED"})) <= Cap
  BY DEF CapUnlessPending
<1> DEFINE P == PenaltiesOf(i, {"POSTED"})
           W == PenaltiesOf(i, {"POSTING"})
<1>1. PenaltiesOf(i, {"POSTING", "POSTED"}) = P \cup W
  BY DEF PenaltiesOf
<1>2. /\ ~Several(OnItsWay(i)) /\ CumulativeBefore(i) <= Cap
      /\ \A k \in Postings : row[k].status = "POSTING" => FitsCap(row[k].target)
  BY DEF HInv, PendingInv
<1>3. row \in [Postings -> RowType]
  BY DEF IInv, Types
<1>4. CASE W = {}
  <2>1. Total(Amounts, P) <= Cap
    BY <1>2 DEF CumulativeBefore
  <2> QED
    BY <1>1, <1>4, <2>1
<1>5. CASE W # {}
  <2>1. PICK k \in W : TRUE
    BY <1>5
  <2>2. W = {k}
    BY <1>2, <2>1, OnItsWayIs DEF Several
  <2>3. /\ k \in Postings /\ k \notin P /\ IsFiniteSet(P) /\ P \subseteq Postings
        /\ row[k].status = "POSTING" /\ row[k].target.kind = "penalty" /\ row[k].target.installment = i
    BY <2>1, FinitePenalties DEF PenaltiesOf
  <2>4. Amounts[k] + CumulativeBefore(i) <= Cap
    BY <1>2, <1>3, <2>3, AmountsType DEF FitsCap
  <2>5. \A j \in P \cup {k} : Amounts[j] \in Int
    BY <1>3, <2>3, AmountsType
  <2>6. CumulativeBefore(i) = Total(Amounts, P)
    BY DEF CumulativeBefore
  <2> HIDE DEF P
  <2>7. Total(Amounts, P \cup {k}) = Amounts[k] + Total(Amounts, P)
    BY <2>3, <2>5, TotalWith
  <2>8. PenaltiesOf(i, {"POSTING", "POSTED"}) = P \cup {k}
    BY <1>1, <2>2
  <2> QED
    BY <2>4, <2>6, <2>7, <2>8
<1> QED
  BY <1>4, <1>5

\* A loan is OVERDUE exactly while it shows days past due, and SETTLED exactly while
\* nothing is outstanding, unless an assessment or a penalty that began before has been
\* written on it once SETTLED (assessDelinquency and completePenalty write without looking
\* at its status again).
THEOREM StatusHolds == HistorySpec => []StatusUnlessLate
<1>1. IInv /\ HInv => StatusUnlessLate
  BY DEF IInv, HInv, StatusUnlessLate
<1> QED
  BY <1>1, HistoryInvariant, PTL

\* The penalties of an installment stay within the cap while no two of them are computed
\* and not POSTED at the same time (assessPenalty sums up the POSTED ones in a transaction
\* of its own).
THEOREM CapHolds == HistorySpec => []CapUnlessPending
  BY WithinCap, HistoryInvariant, PTL

\* Events tell the bucket of the loan while no two assessments overlap (assessDelinquency
\* compares with the bucket it read before).
THEOREM AnnouncedHolds == HistorySpec => []AnnouncedUnlessCrossed
<1>1. IInv /\ HInv => AnnouncedUnlessCrossed
  BY DEF HInv, CrossedInv, AnnouncedUnlessCrossed
<1> QED
  BY <1>1, HistoryInvariant, PTL

================================================================================
