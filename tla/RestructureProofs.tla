--------------------------- MODULE RestructureProofs ---------------------------
(***************************************************************************)
(* Proofs about Restructure, for any commands, terms, repayments and       *)
(* overlapping calls, any number of which die.                             *)
(*                                                                         *)
(* IInv says which approval and posting each point of a call rests on, and *)
(* that the schedules are numbered without a gap, the newest in force.     *)
(* HInv adds what holds until a restructure overwrites balances it has not *)
(* read, that balances read are those of a loan with debt, and what the    *)
(* schedule in force owes, which is what the loan owes but for payments    *)
(* that have reached replaced schedules.                                   *)
(***************************************************************************)
EXTENDS RestructureHistory, Sums

Done == {x \in Restructures : status[x] = "IMPLEMENTED"}

\* The newest schedule: each restructure that was carried out has added one.
Last == 1 + Cardinality(Done)

PlanInv == schedules = 1..Last /\ active = {Last} /\ Last \in shown

SlotsInv ==
    \A s \in Slot :
        /\ paid[s] <= due[s]
        /\ VersionOf(s) \notin schedules => due[s] = 0
        /\ \A r \in Repayments : line[r][s] > 0 => VersionOf(s) \in schedules

Approving == {"recordApproval", "post", "implement"}

\* What a call may rely on at the point it has reached.
CallInv(c) ==
    LET x == call[c].restructure IN
    /\ ~At(c, "idle") => x \in Restructures /\ call[c].version \in schedules
    /\ call[c].at \in Approving => <<x, call[c].balances>> \in approved
    /\ At(c, "implement") /\ Difference(c) # 0 => x \in posted

CallsInv == \A c \in Calls : CallInv(c)

ApprovedInv ==
    /\ \A a, b \in approved : a[1] = b[1] => a = b
    /\ \A x \in posted : \E a \in approved : a[1] = x
    /\ Done \subseteq posted

IInv == TypeOK /\ PlanInv /\ SlotsInv /\ CallsInv /\ ApprovedInv

\* Every call in progress has read the balances of a loan with debt.
DebtsInv ==
    stale \/ Forgiven \/ Hollow \/ \A c \in Calls : ~At(c, "idle") => Debt(call[c].balances) # 0

\* The slots of version v.
Charges(v)   == 2 * v - 1
Principal(v) == 2 * v

\* What the installment of v still owes.
Unpaid(v) == SlotTotal(due, v) - SlotTotal(paid, v)

\* The schedule in force owes what the loan owes, but for what has gone astray, and no
\* other shown owes anything unless it was reached late.
OwedInv ==
    /\ astray \in Int
    /\ \A s \in Slot : VersionOf(s) \in shown \ ({Last} \cup late) => paid[s] = due[s]
    /\ Unpaid(Last) = Debt(outstanding) + astray

HInv == LedgerAgreesUnlessStale /\ SettledUnlessStale /\ DebtsInv /\ OwedInv

-----------------------------------------------------------------------------
(* Versions, slots and balances. *)

Newest == 1 + Cardinality(Restructures)

LEMMA Versions ==
  Newest \in Nat /\ Version = 1..Newest /\ 1 \in Version /\ Slot = 1..(2 * Newest)
<1>1. Cardinality(Restructures) \in Nat
  BY FiniteAssumption, FS_CardinalityType
<1>2. Newest \in Nat /\ Version = 1..Newest /\ 1 \in 1..Newest
  BY <1>1 DEF Newest, Version
<1>3. Cardinality(Version) = Newest
  BY <1>2, FS_Interval
<1> QED
  BY <1>2, <1>3 DEF Slot

LEMMA SlotsFinite ==
  /\ IsFiniteSet(Slot) /\ Slot \subseteq Nat
  /\ IsFiniteSet(Repayments) /\ IsFiniteSet(Restructures)
<1>1. IsFiniteSet(1..(2 * Newest))
  BY Versions, FS_Interval, 2 * Newest \in Int, 1 \in Int
<1> QED
  BY <1>1, Versions, FiniteAssumption

LEMMA SlotVersions ==
  /\ \A s \in Slot : VersionOf(s) \in Version
  /\ \A s \in Slot : s = Charges(VersionOf(s)) \/ s = Principal(VersionOf(s))
  /\ \A v \in Version :
        /\ Charges(v) \in Slot /\ Principal(v) \in Slot
        /\ VersionOf(Charges(v)) = v /\ VersionOf(Principal(v)) = v
        /\ Charges(v) % 2 = 1 /\ Principal(v) % 2 = 0
        /\ Charges(v) # Principal(v)
  BY Versions DEF VersionOf, Charges, Principal

LEMMA ComponentFinite == IsFiniteSet(Component) /\ Component = {"CHARGES"} \cup {"PRINCIPAL"}
<1>1. Component = {"CHARGES"} \cup {"PRINCIPAL"}
  BY DEF Component
<1> QED
  BY <1>1, FS_Singleton, FS_Union

\* A total to which one member alone contributes.
LEMMA TotalOfOne ==
  ASSUME NEW S, IsFiniteSet(S), NEW f, NEW a \in S, f[a] \in Nat, \A s \in S \ {a} : f[s] = 0
  PROVE  Total(f, S) = f[a]
<1>1. \A s \in S : f[s] \in Int
  OBVIOUS
<1>2. Total(f, S) = f[a] + Total(f, S \ {a})
  BY <1>1, TotalWithout
<1>3. IsFiniteSet(S \ {a})
  BY FS_Subset, S \ {a} \subseteq S
<1>4. Total(f, S \ {a}) = 0
  BY <1>3, TotalOfZeros
<1> QED
  BY <1>2, <1>4

\* A debt is the sum of the two balances.
LEMMA DebtIs ==
  ASSUME NEW b \in Balances
  PROVE  Debt(b) = b["CHARGES"] + b["PRINCIPAL"] /\ Debt(b) \in Nat
<1>1. \A c \in Component : b[c] \in Nat /\ b[c] \in Int
  BY DEF Balances
<1>2. "CHARGES" \in Component /\ "PRINCIPAL" \in Component \ {"CHARGES"}
  BY DEF Component
<1>3. Total(b, Component) = b["CHARGES"] + Total(b, Component \ {"CHARGES"})
  BY <1>1, <1>2, ComponentFinite, TotalWithout
<1>4. IsFiniteSet(Component \ {"CHARGES"})
  BY ComponentFinite, FS_Subset, Component \ {"CHARGES"} \subseteq Component
<1>5. \A c \in (Component \ {"CHARGES"}) \ {"PRINCIPAL"} : b[c] = 0
  BY DEF Component
<1>6. Total(b, Component \ {"CHARGES"}) = b["PRINCIPAL"]
  BY <1>1, <1>2, <1>4, <1>5, TotalOfOne
<1> QED
  BY <1>1, <1>2, <1>3, <1>6 DEF Debt

\* A component's slots, and what a repayment gives it.
LEMMA SlotsOfComponent ==
  /\ \A c \in Component : SlotsOf(c) \subseteq Slot /\ IsFiniteSet(SlotsOf(c))
  /\ \A v \in Version : /\ Charges(v) \in SlotsOf("CHARGES") /\ Principal(v) \in SlotsOf("PRINCIPAL")
                        /\ Charges(v) \notin SlotsOf("PRINCIPAL") /\ Principal(v) \notin SlotsOf("CHARGES")
<1>1. \A c \in Component : SlotsOf(c) \subseteq Slot
  BY DEF SlotsOf
<1>2. \A c \in Component : IsFiniteSet(SlotsOf(c))
  BY <1>1, SlotsFinite, FS_Subset
<1>3. "CHARGES" # "PRINCIPAL"
  OBVIOUS
<1> QED
  BY <1>1, <1>2, <1>3, SlotVersions DEF SlotsOf

LinesType == line \in [Repayments -> [Slot -> Nat]]

LEMMA TotalsType ==
  ASSUME LinesType, NEW r \in Repayments
  PROVE  Totals(r) \in Balances
<1>1. ASSUME NEW c \in Component PROVE Total(line[r], SlotsOf(c)) \in Nat
  <2>1. \A s \in SlotsOf(c) : line[r][s] \in Nat
    BY SlotsOfComponent DEF LinesType
  <2> QED
    BY <2>1, SlotsOfComponent, TotalOfNaturals
<1> QED
  BY <1>1 DEF Totals, Balances

\* What is allocated adds up to what the components get.
LEMMA TotalsAddUp ==
  ASSUME LinesType, NEW r \in Repayments
  PROVE  Debt(Totals(r)) = Allocated(r) /\ Allocated(r) \in Nat
<1> DEFINE kind == [s \in Slot |-> IF s % 2 = 0 THEN "PRINCIPAL" ELSE "CHARGES"]
<1>1. kind \in [Slot -> Component]
  BY DEF Component
<1>2. \A c \in Component : {s \in Slot : kind[s] = c} = SlotsOf(c)
  BY DEF SlotsOf, Component
<1>3. \A s \in Slot : line[r][s] \in Nat
  BY DEF LinesType
<1>4. [c \in Component |-> Total(line[r], {s \in Slot : kind[s] = c})] = Totals(r)
  BY <1>2 DEF Totals
<1>5. \A s \in Slot : line[r][s] \in Int
  BY <1>3
<1> HIDE DEF kind
<1>6. Total([c \in Component |-> Total(line[r], {s \in Slot : kind[s] = c})], Component) = Total(line[r], Slot)
  BY <1>1, <1>5, SlotsFinite, ComponentFinite, TotalByKind, ZenonT(60)
<1>7. Total(line[r], Slot) \in Nat
  BY <1>3, SlotsFinite, TotalOfNaturals
<1> QED
  BY <1>4, <1>6, <1>7 DEF Debt, Allocated

-----------------------------------------------------------------------------
(* The invariant, step by step. *)

CallType == [at : Points, restructure : Restructures \cup {NoRestructure},
             version : Version, balances : Balances]

LEMMA NoBalancesType == NoBalances \in Balances
  BY DEF NoBalances, Balances

LEMMA NewDebtType == \A x \in Restructures : NewDebt(x) \in Nat
  BY TermsAssumption DEF NewDebt

LEMMA Ended ==
  ASSUME TypeOK, NEW c \in Calls, End(c)
  PROVE  /\ call' \in [Calls -> CallType]
         /\ call'[c].at = "idle"
         /\ \A d \in Calls \ {c} : call'[d] = call[d]
<1>1. 1 \in Version
  BY Versions
<1>2. Idle \in CallType /\ Idle.at = "idle"
  BY <1>1, NoBalancesType DEF Idle, CallType, Points
<1> QED
  BY <1>2 DEF TypeOK, CallType, End

LEMMA Gone ==
  ASSUME TypeOK, NEW c \in Calls, NEW point \in Points, GoTo(c, point)
  PROVE  /\ call' \in [Calls -> CallType]
         /\ call'[c].at = point /\ call'[c].restructure = call[c].restructure
         /\ call'[c].version = call[c].version /\ call'[c].balances = call[c].balances
         /\ \A d \in Calls \ {c} : call'[d] = call[d]
  BY DEF TypeOK, GoTo, CallType

\* The other calls can still rely on what they could.
LEMMA OtherCalls ==
  ASSUME CallsInv, NEW c \in Calls, \A d \in Calls \ {c} : call'[d] = call[d], CallInv(c)',
         schedules \subseteq schedules', approved \subseteq approved', posted \subseteq posted'
  PROVE  CallsInv'
<1>1. ASSUME NEW d \in Calls \ {c} PROVE CallInv(d)'
  <2>1. CallInv(d) /\ call'[d] = call[d]
    BY DEF CallsInv
  <2> QED
    BY <2>1 DEF CallInv, At, Difference
<1> QED
  BY <1>1 DEF CallsInv

\* A call that has ended relies on nothing.
LEMMA EndedRelies ==
  ASSUME NEW c \in Calls, call'[c].at = "idle"
  PROVE  CallInv(c)'
  BY DEF CallInv, At, Approving

LEMMA PlanKept ==
  ASSUME PlanInv, Done' = Done, UNCHANGED plan, shown \subseteq shown'
  PROVE  PlanInv'
<1>1. Last' = Last
  BY DEF Last
<1> QED
  BY <1>1 DEF PlanInv, plan

LEMMA SlotsKept ==
  ASSUME SlotsInv, UNCHANGED <<due, paid, line, schedules>>
  PROVE  SlotsInv'
  BY DEF SlotsInv

LEMMA ApprovedKept ==
  ASSUME ApprovedInv, UNCHANGED <<approved, posted>>, Done' = Done
  PROVE  ApprovedInv'
  BY DEF ApprovedInv

LEMMA InitInv == Init => IInv
<1> SUFFICES ASSUME Init PROVE IInv
  OBVIOUS
<1>0. 1 \in Version
  BY Versions
<1>1. Done = {} /\ Last = 1
  <2>1. Done = {}
    BY DEF Init, Done
  <2> QED
    BY <2>1, FS_EmptySet DEF Last
<1>2. PlanInv
  BY <1>1 DEF Init, PlanInv
<1>3. outstanding \in Balances
  BY FirstDueAssumption DEF Init, Balances
<1>4. due \in [Slot -> Nat] /\ paid \in [Slot -> Nat]
  BY FirstDueAssumption, Versions DEF Init
<1>5. TypeOK
  <2>1. schedules \subseteq Version /\ active \subseteq schedules /\ shown \subseteq schedules
    BY <1>0 DEF Init
  <2>2. receivable \in Int
    BY <1>3, DebtIs DEF Init
  <2>3. call \in [Calls -> CallType]
    BY <1>0, NoBalancesType DEF Init, Idle, CallType, Points
  <2>4. aborts \in 0..MaxAborts
    BY MaxAbortsAssumption DEF Init
  <2>5. /\ line \in [Repayments -> [Slot -> Nat]]
        /\ repayment \in [Repayments -> {"NONE", "PREPARED", "POSTED", "SUCCESSFUL", "REVERSED"}]
        /\ status \in [Restructures -> {"NONE", "APPROVAL_PENDING", "LEDGER_POSTING", "IMPLEMENTED"}]
        /\ approved = {} /\ posted = {} /\ loanStatus = "ACTIVE"
    BY DEF Init
  <2> QED
    BY <1>3, <1>4, <2>1, <2>2, <2>3, <2>4, <2>5 DEF TypeOK, CallType
<1>6. SlotsInv
  <2> SUFFICES ASSUME NEW s \in Slot
               PROVE  /\ paid[s] <= due[s] /\ (VersionOf(s) \notin schedules => due[s] = 0)
                      /\ \A r \in Repayments : line[r][s] > 0 => VersionOf(s) \in schedules
    BY DEF SlotsInv
  <2>1. s \in Nat /\ (s = 1 \/ s = 2 => VersionOf(s) = 1)
    BY Versions DEF VersionOf
  <2>2. s <= 2 => s = 1 \/ s = 2
    BY Versions
  <2> QED
    BY <1>4, <2>1, <2>2 DEF Init
<1>7. CallsInv
  BY DEF Init, CallsInv, CallInv, At, Idle, Approving
<1>8. ApprovedInv
  BY <1>1 DEF Init, ApprovedInv
<1> QED
  BY <1>2, <1>5, <1>6, <1>7, <1>8 DEF IInv

LEMMA StartInv ==
  ASSUME IInv, NEW c \in Calls, NEW x \in Restructures, Start(c, x)
  PROVE  IInv'
<1>1. PICK v \in active : call' = [call EXCEPT ![c] =
           [at |-> "insert", restructure |-> x, version |-> v, balances |-> outstanding]]
  BY DEF Start
<1>2. v \in schedules /\ v \in Version
  BY DEF IInv, TypeOK
<1>3. /\ call' \in [Calls -> CallType]
      /\ call'[c] = [at |-> "insert", restructure |-> x, version |-> v, balances |-> outstanding]
      /\ \A d \in Calls \ {c} : call'[d] = call[d]
  BY <1>1, <1>2 DEF IInv, TypeOK, CallType, Points
<1>4. UNCHANGED <<loanStatus, book, plan, status, pays, approved, posted, receivable, aborts>>
  BY DEF Start
<1>5. TypeOK'
  BY <1>3, <1>4 DEF IInv, TypeOK, CallType, book, plan, pays
<1>6. CallInv(c)'
  BY <1>2, <1>3, <1>4 DEF CallInv, At, Approving, plan
<1>7. CallsInv'
  BY <1>3, <1>4, <1>6, OtherCalls DEF IInv, plan
<1>8. Done' = Done
  BY <1>4 DEF Done
<1> QED
  BY <1>4, <1>5, <1>7, <1>8, PlanKept, SlotsKept, ApprovedKept DEF IInv, book, plan, pays

LEMMA InsertInv ==
  ASSUME IInv, NEW c \in Calls, Insert(c)
  PROVE  IInv'
<1>1. call[c].restructure \in Restructures /\ call[c].version \in schedules
  BY DEF Insert, IInv, CallsInv, CallInv, At
<1>2. UNCHANGED <<loanStatus, book, plan, pays, approved, posted, receivable, aborts>>
  BY DEF Insert
<1>3. /\ status' \in [Restructures -> {"NONE", "APPROVAL_PENDING", "LEDGER_POSTING", "IMPLEMENTED"}]
      /\ \A x \in Restructures : status'[x] = "IMPLEMENTED" <=> status[x] = "IMPLEMENTED"
  BY <1>1 DEF Insert, IInv, TypeOK
<1>4. GoTo(c, "approve") \/ End(c)
  BY DEF Insert
<1>5. /\ call' \in [Calls -> CallType] /\ CallInv(c)'
      /\ \A d \in Calls \ {c} : call'[d] = call[d]
  <2>1. CASE GoTo(c, "approve")
    <3>1. "approve" \in Points
      BY DEF Points
    <3> QED
      BY <1>1, <1>2, <2>1, <3>1, Gone DEF IInv, CallInv, At, Approving, plan
  <2>2. CASE End(c)
    BY <2>2, Ended, EndedRelies DEF IInv
  <2> QED
    BY <1>4, <2>1, <2>2
<1>6. TypeOK'
  BY <1>2, <1>3, <1>5 DEF IInv, TypeOK, CallType, book, plan, pays
<1>7. CallsInv'
  BY <1>2, <1>5, OtherCalls DEF IInv, plan
<1>8. Done' = Done
  BY <1>3 DEF Done
<1> QED
  BY <1>2, <1>6, <1>7, <1>8, PlanKept, SlotsKept, ApprovedKept DEF IInv, book, plan, pays

LEMMA ConsumeInv ==
  ASSUME IInv, NEW c \in Calls, ConsumeApproval(c)
  PROVE  IInv'
<1> DEFINE x == call[c].restructure
           entry == <<x, call[c].balances>>
<1>1. x \in Restructures /\ call[c].version \in schedules /\ entry \in Restructures \X Balances
  BY DEF ConsumeApproval, IInv, TypeOK, CallsInv, CallInv, At
<1>2. UNCHANGED <<loanStatus, book, plan, status, pays, posted, receivable, aborts>>
  BY DEF ConsumeApproval
<1>3. Done' = Done
  BY <1>2 DEF Done
<1>4. /\ call' \in [Calls -> CallType] /\ CallInv(c)'
      /\ \A d \in Calls \ {c} : call'[d] = call[d]
      /\ approved' \subseteq approved \cup {entry} /\ approved \subseteq approved'
      /\ approved' # approved => \A a \in approved : a[1] = x => a[2] = call[c].balances
  <2>1. CASE Consumes(c) /\ approved' = approved \cup {entry} /\ GoTo(c, "recordApproval")
    <3>1. "recordApproval" \in Points
      BY DEF Points
    <3>2. \A a \in approved : a[1] = x => a[2] = call[c].balances
      BY <2>1 DEF Consumes
    <3> QED
      BY <1>1, <1>2, <2>1, <3>1, <3>2, Gone DEF IInv, CallInv, At, Approving, plan
  <2>2. CASE End(c) /\ UNCHANGED approved
    BY <2>2, Ended, EndedRelies DEF IInv
  <2> QED
    BY <2>1, <2>2 DEF ConsumeApproval
<1>5. TypeOK'
  BY <1>1, <1>2, <1>4 DEF IInv, TypeOK, CallType, book, plan, pays
<1>6. CallsInv'
  BY <1>2, <1>4, OtherCalls DEF IInv, plan
<1>7. ApprovedInv'
  <2>1. \A a \in approved : a[1] = entry[1] /\ approved' # approved => a = entry
    BY <1>4 DEF IInv, TypeOK
  <2>2. \A a, b \in approved' : a[1] = b[1] => a = b
    BY <1>4, <2>1 DEF IInv, ApprovedInv
  <2> QED
    BY <1>2, <1>3, <1>4, <2>2 DEF IInv, ApprovedInv
<1> QED
  BY <1>2, <1>3, <1>5, <1>6, <1>7, PlanKept, SlotsKept DEF IInv, book, plan, pays

LEMMA RecordInv ==
  ASSUME IInv, NEW c \in Calls, RecordApproval(c)
  PROVE  IInv'
<1> DEFINE x == call[c].restructure
<1>1. /\ x \in Restructures /\ call[c].version \in schedules
      /\ <<x, call[c].balances>> \in approved
  BY DEF RecordApproval, IInv, CallsInv, CallInv, At, Approving
<1>2. UNCHANGED <<loanStatus, book, plan, pays, approved, posted, receivable, aborts>>
  BY DEF RecordApproval
<1>3. /\ status' \in [Restructures -> {"NONE", "APPROVAL_PENDING", "LEDGER_POSTING", "IMPLEMENTED"}]
      /\ \A y \in Restructures : status'[y] = "IMPLEMENTED" <=> status[y] = "IMPLEMENTED"
  BY <1>1 DEF RecordApproval, IInv, TypeOK
<1>4. /\ call' \in [Calls -> CallType] /\ CallInv(c)'
      /\ \A d \in Calls \ {c} : call'[d] = call[d]
  <2>1. GoTo(c, "post") /\ "post" \in Points
    BY DEF RecordApproval, Points
  <2> QED
    BY <1>1, <1>2, <2>1, Gone DEF IInv, CallInv, At, Approving, plan
<1>5. TypeOK'
  BY <1>2, <1>3, <1>4 DEF IInv, TypeOK, CallType, book, plan, pays
<1>6. CallsInv'
  BY <1>2, <1>4, OtherCalls DEF IInv, plan
<1>7. Done' = Done
  BY <1>3 DEF Done
<1> QED
  BY <1>2, <1>5, <1>6, <1>7, PlanKept, SlotsKept, ApprovedKept DEF IInv, book, plan, pays

LEMMA PostInv ==
  ASSUME IInv, NEW c \in Calls, PostLedger(c)
  PROVE  IInv'
<1> DEFINE x == call[c].restructure
           entry == <<x, call[c].balances>>
<1>1. x \in Restructures /\ call[c].version \in schedules /\ entry \in approved
  BY DEF PostLedger, IInv, CallsInv, CallInv, At, Approving
<1>2. UNCHANGED <<loanStatus, book, plan, status, pays, approved, aborts>>
  BY DEF PostLedger
<1>3. Done' = Done
  BY <1>2 DEF Done
<1>4. Difference(c) \in Int
  <2>1. call[c].balances \in Balances
    BY DEF IInv, TypeOK
  <2> QED
    BY <1>1, <2>1, NewDebtType, DebtIs DEF Difference
<1>5. /\ posted \subseteq posted' /\ posted' \subseteq posted \cup {x} /\ receivable' \in Int
      /\ Difference(c) # 0 => x \in posted'
  BY <1>4 DEF PostLedger, IInv, TypeOK
<1>6. /\ call' \in [Calls -> CallType] /\ CallInv(c)'
      /\ \A d \in Calls \ {c} : call'[d] = call[d]
  <2>1. GoTo(c, "implement") /\ "implement" \in Points
    BY DEF PostLedger, Points
  <2>2. /\ call' \in [Calls -> CallType] /\ \A d \in Calls \ {c} : call'[d] = call[d]
        /\ call'[c].at = "implement" /\ call'[c].restructure = x
        /\ call'[c].version = call[c].version /\ call'[c].balances = call[c].balances
    BY <2>1, Gone DEF IInv
  <2>3. Difference(c)' = Difference(c)
    BY <2>2 DEF Difference
  <2> QED
    BY <1>1, <1>2, <1>5, <2>2, <2>3 DEF CallInv, At, Approving, plan
<1>7. TypeOK'
  BY <1>1, <1>2, <1>5, <1>6 DEF IInv, TypeOK, CallType, book, plan, pays
<1>8. CallsInv'
  BY <1>2, <1>5, <1>6, OtherCalls DEF IInv, plan
<1>9. ApprovedInv'
  BY <1>1, <1>2, <1>3, <1>5 DEF IInv, ApprovedInv
<1> QED
  BY <1>2, <1>3, <1>7, <1>8, <1>9, PlanKept, SlotsKept DEF IInv, book, plan, pays

LEMMA AbortInv ==
  ASSUME IInv, NEW c \in Calls, Abort(c)
  PROVE  IInv'
<1>1. UNCHANGED <<loanStatus, book, plan, status, pays, approved, posted, receivable>>
  BY DEF Abort
<1>2. /\ call' \in [Calls -> CallType] /\ CallInv(c)'
      /\ \A d \in Calls \ {c} : call'[d] = call[d]
  BY Ended, EndedRelies DEF Abort, IInv
<1>3. aborts' \in 0..MaxAborts
  BY MaxAbortsAssumption DEF Abort, IInv, TypeOK
<1>4. TypeOK'
  BY <1>1, <1>2, <1>3 DEF IInv, TypeOK, CallType, book, plan, pays
<1>5. CallsInv'
  BY <1>1, <1>2, OtherCalls DEF IInv, plan
<1>6. Done' = Done
  BY <1>1 DEF Done
<1> QED
  BY <1>1, <1>4, <1>5, <1>6, PlanKept, SlotsKept, ApprovedKept DEF IInv, book, plan, pays

LEMMA LastIs == IInv => Cardinality(Done) \in Nat /\ Last \in Version /\ IsFiniteSet(Done)
<1> SUFFICES ASSUME IInv PROVE Cardinality(Done) \in Nat /\ Last \in Version /\ IsFiniteSet(Done)
  OBVIOUS
<1>1. IsFiniteSet(Done) /\ Cardinality(Done) <= Cardinality(Restructures)
  BY FiniteAssumption, FS_Subset, FS_CardinalityType, Done \subseteq Restructures DEF Done
<1>2. Cardinality(Done) \in Nat
  BY <1>1, FS_CardinalityType
<1> QED
  BY <1>1, <1>2, Versions, FiniteAssumption, FS_CardinalityType DEF Last, Newest

\* The third transaction commits for a command that was not carried out yet.
Carries(c) ==
    Implement(c) /\ status[call[c].restructure] # "IMPLEMENTED" /\ CanImplement(c)

\* It replaces the schedule in force, by one that was not there.
LEMMA Carried ==
  ASSUME IInv, NEW c \in Calls, Carries(c)
  PROVE  LET x == call[c].restructure IN
         /\ x \in Restructures /\ x \in posted /\ <<x, call[c].balances>> \in approved
         /\ call[c].version = Last /\ Last' = Last + 1 /\ Last' \in Version /\ Last' \notin schedules
         /\ Done' = Done \cup {x} /\ x \notin Done
         /\ schedules' = schedules \cup {Last'} /\ active' = {Last'}
         /\ shown' = (shown \ Superseded(Last)) \cup {Last'}
         /\ due' = [due EXCEPT ![Charges(Last')] = Terms[x].interest, ![Principal(Last')] = Terms[x].principal]
         /\ outstanding' = NewBalances(x)
         /\ status' = [status EXCEPT ![x] = "IMPLEMENTED"]
<1> DEFINE x == call[c].restructure
           v == call[c].version
<1>1. x \in Restructures /\ v \in schedules /\ <<x, call[c].balances>> \in approved /\ x \in posted
  BY DEF Carries, CanImplement, Implement, IInv, CallsInv, CallInv, At, Approving
<1>2. /\ schedules' = schedules \cup {v + 1} /\ active' = {v + 1}
      /\ shown' = (shown \ Superseded(v)) \cup {v + 1}
      /\ due' = [due EXCEPT ![2 * (v + 1) - 1] = Terms[x].interest, ![2 * (v + 1)] = Terms[x].principal]
      /\ outstanding' = NewBalances(x)
      /\ status' = [status EXCEPT ![x] = "IMPLEMENTED"]
  BY DEF Carries, Implement
<1>3. Last \in Nat
  BY LastIs, Versions
<1>4. v = Last
  <2>1. v \in 1..Last /\ v + 1 \notin 1..Last
    BY <1>1 DEF Carries, CanImplement, IInv, PlanInv
  <2> QED
    BY <1>3, <2>1
<1>5. Done' = Done \cup {x} /\ x \notin Done
  BY <1>1, <1>2 DEF Done, IInv, TypeOK, Carries
<1>6. Cardinality(Done') = Cardinality(Done) + 1 /\ Last' = Last + 1
  <2>1. Cardinality(Done \cup {x}) = Cardinality(Done) + 1
    BY <1>5, LastIs, FS_AddElement
  <2>2. Cardinality(Done') = Cardinality(Done) + 1
    BY <1>5, <2>1
  <2> QED
    BY <2>2, LastIs DEF Last
<1>7. Last' \in Version
  <2>1. Done' \subseteq Restructures
    BY <1>1, <1>5 DEF Done
  <2>2. Cardinality(Done') <= Cardinality(Restructures)
    BY <2>1, FiniteAssumption, FS_Subset
  <2>3. Cardinality(Restructures) \in Nat /\ Cardinality(Done) \in Nat
    BY LastIs, FiniteAssumption, FS_CardinalityType
  <2> QED
    BY <1>6, <2>2, <2>3, Versions DEF Last, Newest
<1>8. Last' \notin schedules
  BY <1>4, <1>6 DEF Carries, CanImplement
<1> QED
  BY <1>1, <1>2, <1>4, <1>5, <1>6, <1>7, <1>8 DEF Charges, Principal

LEMMA NewBalancesType ==
  ASSUME NEW x \in Restructures
  PROVE  /\ NewBalances(x) \in Balances /\ Debt(NewBalances(x)) = NewDebt(x)
         /\ Terms[x].principal \in Nat /\ Terms[x].interest \in Nat
<1>1. Terms[x].principal \in Nat /\ Terms[x].interest \in Nat
  BY TermsAssumption
<1>2. NewBalances(x) \in Balances
  BY <1>1 DEF NewBalances, Balances
<1>3. NewBalances(x)["CHARGES"] = Terms[x].interest /\ NewBalances(x)["PRINCIPAL"] = Terms[x].principal
  BY DEF NewBalances, Component
<1> QED
  BY <1>1, <1>2, <1>3, DebtIs DEF NewDebt

LEMMA ImplementInv ==
  ASSUME IInv, NEW c \in Calls, Implement(c)
  PROVE  IInv'
<1> DEFINE x == call[c].restructure
<1>1. UNCHANGED <<loanStatus, paid, pays, approved, posted, receivable, aborts>>
  BY DEF Implement
<1>2. /\ call' \in [Calls -> CallType] /\ CallInv(c)'
      /\ \A d \in Calls \ {c} : call'[d] = call[d]
  BY Ended, EndedRelies DEF Implement, IInv
<1>3. CASE Carries(c)
  <2> DEFINE n == Last'
  <2>1. /\ x \in Restructures /\ x \in posted
        /\ n = Last + 1 /\ n \in Version /\ n \notin schedules
        /\ Done' = Done \cup {x}
        /\ schedules' = schedules \cup {n} /\ active' = {n}
        /\ shown' = (shown \ Superseded(Last)) \cup {n}
        /\ due' = [due EXCEPT ![Charges(n)] = Terms[x].interest, ![Principal(n)] = Terms[x].principal]
        /\ outstanding' = NewBalances(x)
        /\ status' = [status EXCEPT ![x] = "IMPLEMENTED"]
    BY <1>3, Carried
  <2> HIDE DEF n
  <2>2. /\ Charges(n) \in Slot /\ Principal(n) \in Slot /\ Charges(n) # Principal(n)
        /\ VersionOf(Charges(n)) = n /\ VersionOf(Principal(n)) = n
    BY <2>1, SlotVersions
  <2>3. due' \in [Slot -> Nat]
    BY <2>1, <2>2, NewBalancesType DEF IInv, TypeOK
  <2>4. TypeOK'
    <3>1. outstanding' \in Balances
      BY <2>1, NewBalancesType
    <3>2. schedules' \subseteq Version /\ active' \subseteq schedules' /\ shown' \subseteq schedules'
      BY <2>1 DEF IInv, TypeOK
    <3>3. status' \in [Restructures -> {"NONE", "APPROVAL_PENDING", "LEDGER_POSTING", "IMPLEMENTED"}]
      BY <2>1 DEF IInv, TypeOK
    <3> QED
      BY <1>1, <1>2, <2>3, <3>1, <3>2, <3>3 DEF IInv, TypeOK, CallType, pays
  <2>5. PlanInv'
    <3>1. Last \in Nat
      BY LastIs, Versions
    <3>2. 1..n = 1..Last \cup {n}
      BY <2>1, <3>1
    <3> QED
      BY <2>1, <3>2 DEF IInv, PlanInv, n
  <2>6. SlotsInv'
    <3> SUFFICES ASSUME NEW s \in Slot
                 PROVE  /\ paid'[s] <= due'[s]
                        /\ VersionOf(s) \notin schedules' => due'[s] = 0
                        /\ \A r \in Repayments : line'[r][s] > 0 => VersionOf(s) \in schedules'
      BY DEF SlotsInv
    <3>1. /\ paid[s] <= due[s] /\ paid[s] \in Nat /\ due'[s] \in Nat
          /\ VersionOf(s) \notin schedules => due[s] = 0
          /\ \A r \in Repayments : line[r][s] > 0 => VersionOf(s) \in schedules
      BY <2>3 DEF IInv, SlotsInv, TypeOK
    <3>2. \A r \in Repayments : line'[r][s] > 0 => VersionOf(s) \in schedules'
      BY <1>1, <2>1, <3>1 DEF pays
    <3>3. CASE VersionOf(s) = n
      BY <1>1, <2>1, <3>1, <3>2, <3>3
    <3>4. CASE VersionOf(s) # n
      <4>1. due'[s] = due[s]
        BY <2>1, <2>2, <3>4 DEF IInv, TypeOK
      <4> QED
        BY <1>1, <2>1, <3>1, <3>2, <4>1
    <3> QED
      BY <3>3, <3>4
  <2>7. CallsInv'
    BY <1>1, <1>2, <2>1, OtherCalls DEF IInv
  <2>8. ApprovedInv'
    BY <1>1, <2>1 DEF IInv, ApprovedInv
  <2> QED
    BY <2>4, <2>5, <2>6, <2>7, <2>8 DEF IInv
<1>4. CASE ~Carries(c)
  <2>1. UNCHANGED <<plan, shown, due, outstanding, status>>
    BY <1>4 DEF Implement, Carries
  <2>2. TypeOK'
    BY <1>1, <1>2, <2>1 DEF IInv, TypeOK, CallType, plan, pays
  <2>3. CallsInv'
    BY <1>1, <1>2, <2>1, OtherCalls DEF IInv, plan
  <2>4. Done' = Done
    BY <2>1 DEF Done
  <2> QED
    BY <1>1, <2>1, <2>2, <2>3, <2>4, PlanKept, SlotsKept, ApprovedKept DEF IInv, plan, pays
<1> QED
  BY <1>3, <1>4

\* What the slots owe, and what a repayment is given of it.
LEMMA Allocates ==
  ASSUME IInv, NEW r \in Repayments
  PROVE  /\ Owing \in [Slot -> Nat]
         /\ \A s \in Slot : Owing[s] > 0 => VersionOf(s) \in shown
         /\ Greedy(Owing, Amount[r]) \in [Slot -> Nat]
         /\ \A s \in Slot : Greedy(Owing, Amount[r])[s] <= Owing[s]
<1>1. Amount[r] \in Nat
  BY RepaymentsAssumption
<1>2. Owing \in [Slot -> Nat] /\ \A s \in Slot : Owing[s] > 0 => VersionOf(s) \in shown
  BY DEF IInv, TypeOK, SlotsInv, Owing
<1>3. 2 * Newest \in Nat /\ Slot = 1..(2 * Newest)
  BY Versions
<1> DEFINE owing == Owing  m == 2 * Newest
<1> HIDE DEF owing, m
<1>4. owing \in [1..m -> Nat] /\ owing \in [1..m -> Int] /\ \A s \in 1..m : owing[s] >= 0
  BY <1>2, <1>3 DEF owing, m
<1>5. /\ Greedy(owing, Amount[r]) \in [1..m -> Nat]
      /\ \A s \in 1..m : Greedy(owing, Amount[r])[s] <= owing[s]
  BY <1>1, <1>3, <1>4, GreedyFits DEF m
<1> QED
  BY <1>2, <1>3, <1>5 DEF owing, m

LEMMA PrepareInv ==
  ASSUME IInv, NEW r \in Repayments, PrepareRepayment(r)
  PROVE  IInv'
<1>1. UNCHANGED <<loanStatus, book, plan, status, approved, posted, receivable, call, aborts>>
  BY DEF PrepareRepayment
<1> DEFINE lines == Greedy(Owing, Amount[r])
<1>2. /\ lines \in [Slot -> Nat]
      /\ \A s \in Slot : lines[s] > 0 => VersionOf(s) \in shown
  BY Allocates
<1>3. line' = [line EXCEPT ![r] = lines]
  BY DEF PrepareRepayment
<1> HIDE DEF lines
<1>4. /\ line' \in [Repayments -> [Slot -> Nat]]
      /\ \A q \in Repayments, s \in Slot : line'[q][s] > 0 => line[q][s] > 0 \/ VersionOf(s) \in shown
  BY <1>2, <1>3 DEF IInv, TypeOK
<1>5. repayment' \in [Repayments -> {"NONE", "PREPARED", "POSTED", "SUCCESSFUL", "REVERSED"}]
  BY DEF PrepareRepayment, Moves, IInv, TypeOK
<1>6. TypeOK'
  BY <1>1, <1>4, <1>5 DEF IInv, TypeOK, book, plan
<1>7. SlotsInv'
  BY <1>1, <1>4 DEF IInv, TypeOK, SlotsInv, book, plan
<1>8. Done' = Done
  BY <1>1 DEF Done
<1>9. CallsInv'
  BY <1>1 DEF IInv, CallsInv, CallInv, At, Difference, plan
<1> QED
  BY <1>1, <1>6, <1>7, <1>8, <1>9, PlanKept, ApprovedKept DEF IInv, book, plan

\* Applying a repayment and reversing it only move money between slots and balances.
LEMMA MoneyMoves ==
  ASSUME IInv, UNCHANGED <<plan, due, status, line, approved, posted, call, aborts>>,
         paid' \in [Slot -> Nat], \A s \in Slot : paid'[s] <= due[s],
         NEW r \in Repayments, shown \subseteq shown', shown' \subseteq shown \cup Touched(r),
         outstanding' \in Balances, receivable' \in Int, loanStatus' \in {"ACTIVE", "SETTLED"},
         NEW progress \in {"POSTED", "SUCCESSFUL", "REVERSED"}, Moves(r, progress)
  PROVE  IInv'
<1>1. Touched(r) \subseteq schedules
  BY DEF Touched, IInv, SlotsInv
<1>2. repayment' \in [Repayments -> {"NONE", "PREPARED", "POSTED", "SUCCESSFUL", "REVERSED"}]
  BY DEF Moves, IInv, TypeOK
<1>3. TypeOK'
  BY <1>1, <1>2 DEF IInv, TypeOK, plan
<1>4. SlotsInv'
  BY DEF IInv, SlotsInv, plan
<1>5. Done' = Done
  BY DEF Done
<1>6. CallsInv'
  BY DEF IInv, CallsInv, CallInv, At, Difference, plan
<1> QED
  BY <1>3, <1>4, <1>5, <1>6, PlanKept, ApprovedKept DEF IInv, plan

\* The books take a repayment, which fits.
Takes(r) == ApplyRepayment(r) /\ Fits(r)

LEMMA Taken ==
  ASSUME IInv, NEW r \in Repayments, Takes(r)
  PROVE  /\ paid' = [s \in Slot |-> paid[s] + line[r][s]]
         /\ paid' \in [Slot -> Nat] /\ \A s \in Slot : paid'[s] <= due[s]
         /\ shown' = shown \cup Touched(r)
         /\ outstanding' = [c \in Component |-> outstanding[c] - Totals(r)[c]]
         /\ outstanding' \in Balances /\ Debt(outstanding') = Debt(outstanding) - Allocated(r)
         /\ loanStatus' = StatusOf(outstanding') /\ loanStatus' \in {"ACTIVE", "SETTLED"}
         /\ Moves(r, "SUCCESSFUL")
<1>1. Totals(r) \in Balances /\ Debt(Totals(r)) = Allocated(r) /\ outstanding \in Balances
  BY TotalsType, TotalsAddUp DEF IInv, TypeOK, LinesType
<1>2. /\ paid' = [s \in Slot |-> paid[s] + line[r][s]]
      /\ shown' = shown \cup Touched(r)
      /\ outstanding' = [c \in Component |-> outstanding[c] - Totals(r)[c]]
      /\ loanStatus' = StatusOf(outstanding') /\ Moves(r, "SUCCESSFUL")
  BY DEF Takes, ApplyRepayment
<1>3. paid' \in [Slot -> Nat] /\ \A s \in Slot : paid'[s] <= due[s]
  BY <1>2 DEF Takes, Fits, IInv, TypeOK
<1>4. outstanding' \in Balances
  BY <1>1, <1>2 DEF Takes, Fits, Balances
<1>5. \A c \in Component : outstanding'[c] = outstanding[c] - Totals(r)[c]
  BY <1>2
<1>6. "CHARGES" \in Component /\ "PRINCIPAL" \in Component
  BY DEF Component
<1>7. Debt(outstanding') = Debt(outstanding) - Debt(Totals(r))
  <2>1. Debt(outstanding') = outstanding'["CHARGES"] + outstanding'["PRINCIPAL"]
    BY <1>4, DebtIs
  <2>2. Debt(outstanding) = outstanding["CHARGES"] + outstanding["PRINCIPAL"]
    BY <1>1, DebtIs
  <2>3. Debt(Totals(r)) = Totals(r)["CHARGES"] + Totals(r)["PRINCIPAL"]
    BY <1>1, DebtIs
  <2>4. \A c \in Component : outstanding[c] \in Nat /\ Totals(r)[c] \in Nat
    BY <1>1 DEF Balances
  <2> QED
    BY <1>5, <1>6, <2>1, <2>2, <2>3, <2>4
<1>8. loanStatus' \in {"ACTIVE", "SETTLED"}
  BY <1>2 DEF StatusOf, IInv, TypeOK
<1> QED
  BY <1>1, <1>2, <1>3, <1>4, <1>7, <1>8

LEMMA ApplyInv ==
  ASSUME IInv, NEW r \in Repayments, ApplyRepayment(r)
  PROVE  IInv'
<1>1. UNCHANGED <<plan, due, status, line, approved, posted, call, aborts>>
  BY DEF ApplyRepayment
<1>2. receivable' \in Int
  <2>1. Allocated(r) \in Nat
    BY TotalsAddUp DEF IInv, TypeOK, LinesType
  <2> QED
    BY <2>1 DEF ApplyRepayment, IInv, TypeOK
<1>3. CASE Fits(r)
  BY <1>1, <1>2, <1>3, Taken, MoneyMoves DEF Takes
<1>4. CASE ~Fits(r)
  <2>1. Moves(r, "POSTED") /\ UNCHANGED <<loanStatus, outstanding, paid, shown>>
    BY <1>4 DEF ApplyRepayment
  <2>2. /\ paid' \in [Slot -> Nat] /\ \A s \in Slot : paid'[s] <= due[s]
        /\ outstanding' \in Balances /\ loanStatus' \in {"ACTIVE", "SETTLED"}
    BY <2>1 DEF IInv, TypeOK, SlotsInv
  <2> QED
    BY <1>1, <1>2, <2>1, <2>2, MoneyMoves
<1> QED
  BY <1>3, <1>4

LEMMA GivenBack ==
  ASSUME IInv, NEW r \in Repayments, ReverseRepayment(r)
  PROVE  /\ paid' = [s \in Slot |-> paid[s] - line[r][s]]
         /\ paid' \in [Slot -> Nat] /\ \A s \in Slot : paid'[s] <= due[s]
         /\ shown \subseteq shown' /\ shown' \subseteq shown \cup Touched(r)
         /\ outstanding' = [c \in Component |-> outstanding[c] + Totals(r)[c]]
         /\ outstanding' \in Balances /\ Debt(outstanding') = Debt(outstanding) + Allocated(r)
<1>1. Totals(r) \in Balances /\ Debt(Totals(r)) = Allocated(r) /\ outstanding \in Balances
  BY TotalsType, TotalsAddUp DEF IInv, TypeOK, LinesType
<1>2. /\ paid' = [s \in Slot |-> paid[s] - line[r][s]]
      /\ outstanding' = [c \in Component |-> outstanding[c] + Totals(r)[c]]
      /\ \E several : shown' = shown \cup LeftBetween(r, several)
                                     \cup {v \in Touched(r) : SlotTotal(paid', v) > 0}
  BY DEF ReverseRepayment
<1>9. shown \subseteq shown' /\ shown' \subseteq shown \cup Touched(r)
  BY <1>2 DEF LeftBetween
<1>3. ASSUME NEW s \in Slot PROVE paid'[s] \in Nat /\ paid'[s] <= due[s]
  <2>1. /\ paid[s] \in Nat /\ line[r][s] \in Nat /\ due[s] \in Nat
        /\ paid[s] <= due[s] /\ paid[s] >= line[r][s]
    BY DEF ReverseRepayment, IInv, TypeOK, SlotsInv
  <2> QED
    BY <1>2, <2>1
<1>4. outstanding' \in Balances
  BY <1>1, <1>2 DEF Balances
<1>5. \A c \in Component : outstanding'[c] = outstanding[c] + Totals(r)[c]
  BY <1>2
<1>6. "CHARGES" \in Component /\ "PRINCIPAL" \in Component
  BY DEF Component
<1>7. Debt(outstanding') = Debt(outstanding) + Debt(Totals(r))
  <2>1. Debt(outstanding') = outstanding'["CHARGES"] + outstanding'["PRINCIPAL"]
    BY <1>4, DebtIs
  <2>2. Debt(outstanding) = outstanding["CHARGES"] + outstanding["PRINCIPAL"]
    BY <1>1, DebtIs
  <2>3. Debt(Totals(r)) = Totals(r)["CHARGES"] + Totals(r)["PRINCIPAL"]
    BY <1>1, DebtIs
  <2>4. \A c \in Component : outstanding[c] \in Nat /\ Totals(r)[c] \in Nat
    BY <1>1 DEF Balances
  <2> QED
    BY <1>5, <1>6, <2>1, <2>2, <2>3, <2>4
<1>8. paid' \in [Slot -> Nat]
  BY <1>2, <1>3
<1> QED
  BY <1>1, <1>2, <1>3, <1>4, <1>7, <1>8, <1>9

LEMMA ReverseInv ==
  ASSUME IInv, NEW r \in Repayments, ReverseRepayment(r)
  PROVE  IInv'
<1>1. /\ UNCHANGED <<plan, due, status, line, approved, posted, call, aborts>>
      /\ Moves(r, "REVERSED") /\ loanStatus' = "ACTIVE"
  BY DEF ReverseRepayment
<1>2. receivable' \in Int
  <2>1. Allocated(r) \in Nat
    BY TotalsAddUp DEF IInv, TypeOK, LinesType
  <2> QED
    BY <2>1 DEF ReverseRepayment, IInv, TypeOK
<1> QED
  BY <1>1, <1>2, GivenBack, MoneyMoves

LEMMA NextInv == IInv /\ [Next]_vars => IInv'
<1> SUFFICES ASSUME IInv, [Next]_vars PROVE IInv'
  OBVIOUS
<1>1. ASSUME NEW c \in Calls, Step(c) PROVE IInv'
  BY <1>1, InsertInv, ConsumeInv, RecordInv, PostInv, ImplementInv DEF Step
<1>2. ASSUME NEW c \in Calls, Abort(c) PROVE IInv'
  BY <1>2, AbortInv
<1>3. ASSUME NEW c \in Calls, NEW x \in Restructures, Start(c, x) PROVE IInv'
  BY <1>3, StartInv
<1>4. ASSUME NEW r \in Repayments, Repay(r) PROVE IInv'
  BY <1>4, PrepareInv, ApplyInv, ReverseInv DEF Repay
<1>5. CASE UNCHANGED vars
  <2>1. UNCHANGED <<loanStatus, book, plan, status, pays, approved, posted, receivable, call, aborts>>
    BY <1>5 DEF vars
  <2>2. TypeOK'
    BY <2>1 DEF IInv, TypeOK, book, plan, pays
  <2>3. CallsInv'
    BY <2>1 DEF IInv, CallsInv, CallInv, At, Difference, plan
  <2>4. Done' = Done
    BY <2>1 DEF Done
  <2> QED
    BY <2>1, <2>2, <2>3, <2>4, PlanKept, SlotsKept, ApprovedKept DEF IInv, book, plan, pays
<1> QED
  BY <1>1, <1>2, <1>3, <1>4, <1>5 DEF Next

LEMMA ByTheBook == IInv => ImplementedByTheBook
<1> SUFFICES ASSUME IInv PROVE ImplementedByTheBook
  OBVIOUS
<1>1. ASSUME NEW x \in posted
      PROVE  Cardinality({a \in approved : a[1] = x}) = 1
  <2>1. PICK a \in approved : a[1] = x
    BY DEF IInv, ApprovedInv
  <2>2. {b \in approved : b[1] = x} = {a}
    BY <2>1 DEF IInv, ApprovedInv
  <2> QED
    BY <2>2, FS_Singleton
<1> QED
  BY <1>1 DEF ImplementedByTheBook, IInv, ApprovedInv, Done

\* A restructure the ledger knows was approved for one set of balances, and none is
\* IMPLEMENTED without its posting, however its command is resent.
THEOREM ByTheBookHolds == Spec => []ImplementedByTheBook
  BY InitInv, NextInv, ByTheBook, PTL DEF Spec

-----------------------------------------------------------------------------
(* What can happen in a step, as far as books and ledger are concerned. *)

\* Only calls move, and the status of commands that are not carried out.
Quiet ==
    /\ UNCHANGED <<loanStatus, book, plan, pays, approved, posted, receivable>>
    /\ Done' = Done

Happens ==
    \/ Quiet
    \/ \E c \in Calls : ConsumeApproval(c) \/ PostLedger(c) \/ Carries(c)
    \/ \E r \in Repayments : Repay(r)

LEMMA StepHappens == IInv /\ [Next]_vars => Happens
<1> SUFFICES ASSUME IInv, [Next]_vars PROVE Happens
  OBVIOUS
<1>1. ASSUME NEW c \in Calls, NEW x \in Restructures, Start(c, x) PROVE Quiet
  BY <1>1 DEF Start, Quiet, Done
<1>2. ASSUME NEW c \in Calls, Abort(c) PROVE Quiet
  BY <1>2 DEF Abort, Quiet, Done
<1>3. ASSUME NEW c \in Calls, Insert(c) PROVE Quiet
  <2>1. call[c].restructure \in Restructures
    BY <1>3 DEF Insert, IInv, CallsInv, CallInv, At
  <2>2. \A x \in Restructures : status'[x] = "IMPLEMENTED" <=> status[x] = "IMPLEMENTED"
    BY <1>3, <2>1 DEF Insert, IInv, TypeOK
  <2> QED
    BY <1>3, <2>2 DEF Insert, Quiet, Done
<1>4. ASSUME NEW c \in Calls, RecordApproval(c) PROVE Quiet
  <2>1. call[c].restructure \in Restructures
    BY <1>4 DEF RecordApproval, IInv, CallsInv, CallInv, At
  <2>2. \A x \in Restructures : status'[x] = "IMPLEMENTED" <=> status[x] = "IMPLEMENTED"
    BY <1>4, <2>1 DEF RecordApproval, IInv, TypeOK
  <2> QED
    BY <1>4, <2>2 DEF RecordApproval, Quiet, Done
<1>5. ASSUME NEW c \in Calls, Implement(c), ~Carries(c) PROVE Quiet
  <2>1. UNCHANGED <<plan, shown, due, outstanding, status>>
    BY <1>5 DEF Implement, Carries
  <2> QED
    BY <1>5, <2>1 DEF Implement, Quiet, Done, book
<1>6. CASE UNCHANGED vars
  BY <1>6 DEF vars, Quiet, Done, Happens
<1> QED
  BY <1>1, <1>2, <1>3, <1>4, <1>5, <1>6 DEF Next, Step, Happens

\* The commands carried out stay so, and the repayments reversed.
LEMMA Lasting ==
  ASSUME IInv, [HistoryNext]_<<vars, history>>
  PROVE  /\ stale => stale'
         /\ Forgiven => Forgiven'
         /\ Hollow => Hollow'
<1>0. [Next]_vars
  BY DEF HistoryNext, history
<1>1. stale => stale'
  <2>1. CASE HistoryNext
    BY <2>1, Zenon DEF HistoryNext
  <2>2. CASE UNCHANGED <<vars, history>>
    BY <2>2 DEF history
  <2> QED
    BY <2>1, <2>2
<1>2. Happens
  BY <1>0, StepHappens
<1>3. Done \subseteq Done'
  <2>1. ASSUME NEW c \in Calls, Carries(c) PROVE Done \subseteq Done'
    BY <2>1, Carried
  <2>2. ASSUME NEW c \in Calls, ConsumeApproval(c) \/ PostLedger(c) PROVE Done' = Done
    BY <2>2 DEF ConsumeApproval, PostLedger, Done
  <2>3. ASSUME NEW r \in Repayments, Repay(r) PROVE Done' = Done
    BY <2>3 DEF Repay, PrepareRepayment, ApplyRepayment, ReverseRepayment, Done
  <2> QED
    BY <1>2, <2>1, <2>2, <2>3 DEF Happens, Quiet
<1>4. Forgiven => Forgiven'
  BY <1>3 DEF Forgiven, Done, NewDebt
<1>5. ASSUME NEW q \in Repayments, repayment[q] = "REVERSED"
      PROVE  repayment'[q] = "REVERSED" /\ line'[q] = line[q]
  <2>1. ASSUME NEW r \in Repayments, Repay(r) PROVE repayment'[q] = "REVERSED" /\ line'[q] = line[q]
    BY <1>5, <2>1 DEF Repay, PrepareRepayment, ApplyRepayment, ReverseRepayment, Moves, IInv, TypeOK
  <2>2. ASSUME NEW c \in Calls, ConsumeApproval(c) \/ PostLedger(c) \/ Carries(c) PROVE UNCHANGED pays
    BY <2>2 DEF ConsumeApproval, PostLedger, Carries, Implement
  <2> QED
    BY <1>2, <1>5, <2>1, <2>2 DEF Happens, Quiet, pays
<1>6. Hollow => Hollow'
  BY <1>5 DEF Hollow, Allocated
<1> QED
  BY <1>1, <1>4, <1>6

-----------------------------------------------------------------------------
(* Books and ledger. *)

Given   == [r \in Repayments |-> Allocated(r)]
Gap     == [x \in Restructures |-> NewDebt(x) - ApprovedDebt(x)]
Pending == {x \in posted : status[x] # "IMPLEMENTED"}

LEMMA ApprovedDebtIs ==
  ASSUME ApprovedInv, NEW a \in approved
  PROVE  ApprovedDebt(a[1]) = Debt(a[2])
<1>1. (CHOOSE b \in approved : b[1] = a[1]) = a
  BY DEF ApprovedInv
<1> QED
  BY <1>1 DEF ApprovedDebt

LEMMA LedgerTypes ==
  ASSUME IInv
  PROVE  /\ IsFiniteSet(Pending) /\ IsFiniteSet(Unapplied) /\ Unapplied \subseteq Repayments
         /\ Pending \subseteq posted /\ posted \subseteq Restructures
         /\ \A x \in posted : Gap[x] \in Int
         /\ \A r \in Repayments : Given[r] \in Nat /\ Given[r] \in Int
         /\ Total(Gap, Pending) \in Int /\ Total(Given, Unapplied) \in Int
         /\ Debt(outstanding) \in Nat /\ receivable \in Int
<1>1. posted \subseteq Restructures /\ Pending \subseteq posted
  BY DEF IInv, TypeOK, Pending
<1>2. IsFiniteSet(Pending) /\ IsFiniteSet(Unapplied)
  <2>1. Pending \subseteq Restructures /\ Unapplied \subseteq Repayments
    BY <1>1 DEF Unapplied
  <2> QED
    BY <2>1, SlotsFinite, FS_Subset
<1>3. ASSUME NEW x \in posted PROVE Gap[x] \in Int
  <2>1. PICK a \in approved : a[1] = x
    BY DEF IInv, ApprovedInv
  <2>2. ApprovedDebt(x) = Debt(a[2]) /\ a[2] \in Balances
    BY <2>1, ApprovedDebtIs DEF IInv, TypeOK
  <2> QED
    BY <1>1, <2>2, DebtIs, NewDebtType DEF Gap
<1>4. \A r \in Repayments : Given[r] \in Nat /\ Given[r] \in Int
  BY TotalsAddUp DEF Given, IInv, TypeOK, LinesType
<1>5. Total(Gap, Pending) \in Int
  BY <1>1, <1>2, <1>3, TotalType
<1>6. Total(Given, Unapplied) \in Int
  BY <1>2, <1>4, TotalType DEF Unapplied
<1>7. Debt(outstanding) \in Nat /\ receivable \in Int
  BY DebtIs DEF IInv, TypeOK
<1> QED
  BY <1>1, <1>2, <1>3, <1>4, <1>5, <1>6, <1>7 DEF Unapplied

SumsAreIntegers ==
    /\ \A x \in posted : Gap[x] \in Int
    /\ Total(Gap, Pending) \in Int /\ Total(Given, Unapplied) \in Int
    /\ Debt(outstanding) \in Int /\ receivable \in Int

LEMMA IntegerSums == IInv => SumsAreIntegers
  BY LedgerTypes DEF SumsAreIntegers

\* What is under way is the same for the same approvals, postings and lines.
LEMMA GapKept ==
  ASSUME IInv, IInv', UNCHANGED posted, Done' = Done,
         \A x \in posted : \A a \in approved : a[1] = x => a \in approved'
  PROVE  Total(Gap, Pending)' = Total(Gap, Pending)
<1>1. Pending' = Pending
  BY DEF Pending, Done, IInv, TypeOK
<1>2. ASSUME NEW x \in Pending PROVE Gap'[x] = Gap[x]
  <2>1. x \in posted /\ x \in Restructures
    BY DEF Pending, IInv, TypeOK
  <2>2. PICK a \in approved : a[1] = x
    BY <2>1 DEF IInv, ApprovedInv
  <2>3. ApprovedDebt(x) = Debt(a[2])
    BY <2>2, ApprovedDebtIs DEF IInv
  <2>4. a \in approved' /\ \A b \in approved' : b[1] = x => b = a
    BY <2>1, <2>2 DEF IInv, ApprovedInv
  <2>5. (CHOOSE b \in approved' : b[1] = x) = a
    BY <2>2, <2>4
  <2>6. ApprovedDebt(x)' = Debt(a[2])
    BY <2>5 DEF ApprovedDebt
  <2> QED
    BY <2>1, <2>3, <2>6 DEF Gap
<1>3. Total(Gap', Pending) = Total(Gap, Pending)
  BY <1>2, LedgerTypes, TotalSame
<1> QED
  BY <1>1, <1>3

LEMMA GivenKept ==
  ASSUME IInv, Unapplied' = Unapplied, \A r \in Unapplied : line'[r] = line[r]
  PROVE  Total(Given, Unapplied)' = Total(Given, Unapplied)
<1>1. ASSUME NEW r \in Unapplied PROVE Given'[r] = Given[r]
  BY DEF Given, Allocated, Unapplied
<1>2. Total(Given', Unapplied) = Total(Given, Unapplied)
  BY <1>1, LedgerTypes, TotalSame
<1> QED
  BY <1>2

LEMMA LedgerPosts ==
  ASSUME IInv, IInv', NEW c \in Calls, PostLedger(c)
  PROVE  /\ receivable' + Total(Gap, Pending) = receivable + Total(Gap, Pending)'
         /\ receivable' \in Int /\ Total(Gap, Pending)' \in Int
<1> DEFINE x == call[c].restructure
           entry == <<x, call[c].balances>>
<1>1. x \in Restructures /\ entry \in approved /\ UNCHANGED <<approved, status>>
  BY DEF PostLedger, IInv, CallsInv, CallInv, At, Approving
<1>2. Done' = Done
  BY <1>1 DEF Done
<1>3. CASE UNCHANGED <<posted, receivable>>
  BY <1>1, <1>2, <1>3, GapKept, LedgerTypes
<1>4. CASE x \notin posted /\ posted' = posted \cup {x} /\ receivable' = receivable + Difference(c)
  <2>1. Gap' = Gap
    BY <1>1 DEF Gap, ApprovedDebt
  <2>2. Pending' = Pending \cup {x} /\ x \notin Pending
    BY <1>1, <1>4 DEF Pending, IInv, ApprovedInv, Done
  <2>3. Gap[x] = Difference(c)
    <3>1. ApprovedDebt(entry[1]) = Debt(entry[2])
      BY <1>1, ApprovedDebtIs DEF IInv
    <3> QED
      BY <1>1, <3>1 DEF Gap, Difference
  <2>4. \A y \in Pending \cup {x} : Gap[y] \in Int
    <3>1. \A y \in posted' : Gap'[y] \in Int
      <4>1. SumsAreIntegers'
        BY IntegerSums, PTL
      <4> QED
        BY <4>1 DEF SumsAreIntegers
    <3> QED
      BY <1>4, <2>1, <3>1, LedgerTypes
  <2>5. Total(Gap, Pending \cup {x}) = Gap[x] + Total(Gap, Pending)
    BY <2>2, <2>4, LedgerTypes, TotalWith
  <2>6. Total(Gap, Pending)' = Difference(c) + Total(Gap, Pending)
    BY <2>1, <2>2, <2>3, <2>5
  <2>7. Difference(c) \in Int
    BY <2>3, <2>4
  <2> QED
    BY <1>4, <2>6, <2>7, LedgerTypes
<1> QED
  BY <1>3, <1>4 DEF PostLedger

LEMMA LedgerCarried ==
  ASSUME IInv, IInv', NEW c \in Calls, Carries(c), <<call[c].restructure, outstanding>> \in approved
  PROVE  Debt(outstanding)' + Total(Gap, Pending)' = Debt(outstanding) + Total(Gap, Pending)
<1> DEFINE x == call[c].restructure
           entry == <<x, outstanding>>
<1>1. /\ x \in Restructures /\ x \in posted /\ UNCHANGED <<approved, posted>>
      /\ status' = [status EXCEPT ![x] = "IMPLEMENTED"] /\ status[x] # "IMPLEMENTED"
      /\ outstanding' = NewBalances(x)
  BY Carried DEF Carries, Implement
<1>2. Gap' = Gap
  BY <1>1 DEF Gap, ApprovedDebt
<1>3. Pending' = Pending \ {x} /\ x \in Pending
  BY <1>1 DEF Pending, IInv, TypeOK
<1>4. Gap[x] = NewDebt(x) - Debt(outstanding)
  <2>1. ApprovedDebt(entry[1]) = Debt(entry[2])
    BY ApprovedDebtIs DEF IInv
  <2> QED
    BY <1>1, <2>1 DEF Gap
<1>5. Debt(outstanding)' = NewDebt(x)
  BY <1>1, NewBalancesType
<1>6. Total(Gap, Pending) = Gap[x] + Total(Gap, Pending \ {x})
  <2>1. \A y \in Pending : Gap[y] \in Int
    BY LedgerTypes
  <2> QED
    BY <1>3, <2>1, LedgerTypes, TotalWithout
<1>7. Total(Gap, Pending)' = Total(Gap, Pending \ {x})
  BY <1>2, <1>3
<1>8. Total(Gap, Pending)' \in Int
  <2>1. SumsAreIntegers'
    BY IntegerSums, PTL
  <2> QED
    BY <2>1 DEF SumsAreIntegers
<1>9. NewDebt(x) \in Nat
  BY <1>1, NewDebtType
<1> QED
  BY <1>4, <1>5, <1>6, <1>7, <1>8, <1>9, LedgerTypes

LEMMA LedgerRepays ==
  ASSUME IInv, IInv', NEW r \in Repayments, Repay(r)
  PROVE  receivable' + Total(Given, Unapplied)' + Debt(outstanding)
           = receivable + Total(Given, Unapplied) + Debt(outstanding)'
<1> DEFINE a == Allocated(r)
<1>0. a \in Nat
  BY TotalsAddUp DEF IInv, TypeOK, LinesType
<1>1. CASE PrepareRepayment(r)
  <2>1. /\ Unapplied' = Unapplied /\ \A q \in Unapplied : line'[q] = line[q]
        /\ UNCHANGED <<receivable, outstanding>>
    BY <1>1 DEF PrepareRepayment, Moves, Unapplied, IInv, TypeOK, book
  <2>2. Debt(outstanding)' = Debt(outstanding)
    BY <2>1
  <2> QED
    BY <2>1, <2>2, GivenKept
<1>2. CASE Takes(r)
  <2>1. Debt(outstanding)' = Debt(outstanding) - a
    BY <1>2, Taken
  <2>2. Unapplied' = Unapplied /\ UNCHANGED line /\ receivable' = receivable - a
    BY <1>2, Taken DEF Takes, ApplyRepayment, Moves, Unapplied, IInv, TypeOK
  <2>3. Total(Given, Unapplied)' = Total(Given, Unapplied)
    BY <2>2, GivenKept
  <2> QED
    BY <1>0, <2>1, <2>2, <2>3, LedgerTypes
<1>3. CASE ApplyRepayment(r) /\ ~Takes(r)
  <2>1. /\ Moves(r, "POSTED") /\ UNCHANGED <<outstanding, line>> /\ receivable' = receivable - a
        /\ repayment[r] = "PREPARED"
    BY <1>3 DEF Takes, ApplyRepayment
  <2>2. Unapplied' = Unapplied \cup {r} /\ r \notin Unapplied
    BY <2>1 DEF Moves, Unapplied, IInv, TypeOK
  <2>3. Given' = Given /\ Given[r] = a
    BY <2>1 DEF Given, Allocated
  <2>4. Total(Given, Unapplied \cup {r}) = Given[r] + Total(Given, Unapplied)
    BY <2>2, LedgerTypes, TotalWith
  <2>5. Total(Given, Unapplied)' = a + Total(Given, Unapplied)
    BY <2>2, <2>3, <2>4
  <2>6. Debt(outstanding)' = Debt(outstanding)
    BY <2>1
  <2> QED
    BY <1>0, <2>1, <2>5, <2>6, LedgerTypes
<1>4. CASE ReverseRepayment(r)
  <2>1. Debt(outstanding)' = Debt(outstanding) + a
    BY <1>4, GivenBack
  <2>2. Unapplied' = Unapplied /\ UNCHANGED line /\ receivable' = receivable + a
    BY <1>4 DEF ReverseRepayment, Moves, Unapplied, IInv, TypeOK
  <2>3. Total(Given, Unapplied)' = Total(Given, Unapplied)
    BY <2>2, GivenKept
  <2> QED
    BY <1>0, <2>1, <2>2, <2>3, LedgerTypes
<1> QED
  BY <1>1, <1>2, <1>3, <1>4 DEF Repay, Takes

LEMMA LedgerStep ==
  ASSUME IInv, IInv', LedgerAgreesUnlessStale, [HistoryNext]_<<vars, history>>
  PROVE  LedgerAgreesUnlessStale'
<1> DEFINE given == Total(Given, Unapplied)
           gap   == Total(Gap, Pending)
           debt  == Debt(outstanding)
<1> SUFFICES ASSUME ~stale' PROVE receivable' + given' = debt' + gap'
  BY DEF LedgerAgreesUnlessStale, Given, Gap, Pending
<1>1. ~stale /\ receivable + given = debt + gap
  BY Lasting DEF LedgerAgreesUnlessStale, Given, Gap, Pending
<1>2. /\ receivable \in Int /\ given \in Int /\ debt \in Int /\ gap \in Int
      /\ receivable' \in Int /\ given' \in Int /\ debt' \in Int /\ gap' \in Int
  <2>1. SumsAreIntegers /\ SumsAreIntegers'
    BY IntegerSums, PTL
  <2> QED
    BY <2>1 DEF SumsAreIntegers
<1>3. [Next]_vars
  BY DEF HistoryNext, history
<1>4. Happens
  BY <1>3, StepHappens
<1>5. CASE Quiet
  <2>1. UNCHANGED <<receivable, outstanding, posted, approved, pays>> /\ Done' = Done
    BY <1>5 DEF Quiet, book
  <2>2. gap' = gap
    BY <2>1, GapKept
  <2>3. given' = given
    BY <2>1, GivenKept DEF pays, Unapplied
  <2>4. debt' = debt
    BY <2>1
  <2> QED
    BY <1>1, <2>1, <2>2, <2>3, <2>4
<1>6. ASSUME NEW c \in Calls, ConsumeApproval(c) \/ PostLedger(c) \/ Carries(c)
      PROVE  receivable' + given' = debt' + gap'
  <2>1. UNCHANGED pays
    BY <1>6 DEF ConsumeApproval, PostLedger, Carries, Implement
  <2>2. given' = given
    BY <2>1, GivenKept DEF pays, Unapplied
  <2>3. CASE ConsumeApproval(c)
    <3>1. UNCHANGED <<receivable, outstanding, posted, status>> /\ approved \subseteq approved'
      BY <2>3 DEF ConsumeApproval, book
    <3>2. Done' = Done
      BY <3>1 DEF Done
    <3>3. gap' = gap
      BY <3>1, <3>2, GapKept
    <3>4. debt' = debt
      BY <3>1
    <3> QED
      BY <1>1, <2>2, <3>1, <3>3, <3>4
  <2>4. CASE PostLedger(c)
    <3>1. UNCHANGED outstanding
      BY <2>4 DEF PostLedger, book
    <3>2. debt' = debt
      BY <3>1
    <3>3. receivable' + gap = receivable + gap'
      BY <2>4, LedgerPosts
    <3> HIDE DEF given, gap, debt
    <3> QED
      BY <1>1, <1>2, <2>2, <3>2, <3>3
  <2>5. CASE Carries(c)
    <3>1. /\ call[c].restructure \in Restructures /\ receivable' = receivable
          /\ status[call[c].restructure] # "IMPLEMENTED" /\ status'[call[c].restructure] = "IMPLEMENTED"
      BY <2>5, Carried DEF Carries, Implement, IInv, TypeOK
    <3>2. HistoryNext
      BY <3>1 DEF vars
    <3>3. <<call[c].restructure, outstanding>> \in approved
      BY <3>1, <3>2 DEF HistoryNext
    <3>4. debt' + gap' = debt + gap
      BY <2>5, <3>3, LedgerCarried
    <3> HIDE DEF given, gap, debt
    <3> QED
      BY <1>1, <1>2, <2>2, <3>1, <3>4
  <2> QED
    BY <1>6, <2>3, <2>4, <2>5
<1>7. ASSUME NEW r \in Repayments, Repay(r)
      PROVE  receivable' + given' = debt' + gap'
  <2>1. receivable' + given' + debt = receivable + given + debt'
    BY <1>7, LedgerRepays
  <2>2. UNCHANGED <<posted, approved, status>>
    BY <1>7 DEF Repay, PrepareRepayment, ApplyRepayment, ReverseRepayment
  <2>3. Done' = Done
    BY <2>2 DEF Done
  <2>4. gap' = gap
    BY <2>2, <2>3, GapKept
  <2> HIDE DEF given, gap, debt
  <2> QED
    BY <1>1, <1>2, <2>1, <2>4
<1> QED
  BY <1>4, <1>5, <1>6, <1>7 DEF Happens

-----------------------------------------------------------------------------
(* Status and balances. *)

\* A call in progress has just read the loan, or was in progress with what it had read.
LEMMA HasRead ==
  ASSUME IInv, [Next]_vars, NEW d \in Calls, ~At(d, "idle")'
  PROVE  \/ ~At(d, "idle") /\ call'[d].balances = call[d].balances
         \/ loanStatus = "ACTIVE" /\ call'[d].balances = outstanding
<1>1. ASSUME NEW c \in Calls, NEW x \in Restructures, Start(c, x)
      PROVE  \/ ~At(d, "idle") /\ call'[d].balances = call[d].balances
             \/ loanStatus = "ACTIVE" /\ call'[d].balances = outstanding
  BY <1>1 DEF Start, At, IInv, TypeOK
<1>2. ASSUME NEW c \in Calls, Step(c) \/ Abort(c)
      PROVE  ~At(d, "idle") /\ call'[d].balances = call[d].balances
  <2>1. ~At(c, "idle")
    BY <1>2 DEF Step, Insert, ConsumeApproval, RecordApproval, PostLedger, Implement, Abort, At
  <2>2. End(c) \/ \E point \in Points : GoTo(c, point)
    BY <1>2 DEF Step, Insert, ConsumeApproval, RecordApproval, PostLedger, Implement, Abort, Points
  <2>3. CASE End(c)
    BY <2>3, Ended DEF At, IInv
  <2>4. CASE \E point \in Points : GoTo(c, point)
    BY <2>1, <2>4, Gone DEF At, IInv
  <2> QED
    BY <2>2, <2>3, <2>4
<1>3. ASSUME NEW r \in Repayments, Repay(r) PROVE UNCHANGED call
  BY <1>3 DEF Repay, PrepareRepayment, ApplyRepayment, ReverseRepayment
<1>4. CASE UNCHANGED vars
  BY <1>4 DEF vars, At
<1> QED
  BY <1>1, <1>2, <1>3, <1>4 DEF Next, At

LEMMA DebtsStep ==
  ASSUME IInv, SettledUnlessStale, DebtsInv, [HistoryNext]_<<vars, history>>
  PROVE  DebtsInv'
<1> SUFFICES ASSUME ~stale', ~Forgiven', ~Hollow', NEW d \in Calls, ~At(d, "idle")'
             PROVE  Debt(call'[d].balances) # 0
  BY DEF DebtsInv
<1>1. [Next]_vars
  BY DEF HistoryNext, history
<1>2. ~stale /\ ~Forgiven /\ ~Hollow
  BY Lasting
<1>3. CASE ~At(d, "idle") /\ call'[d].balances = call[d].balances
  BY <1>2, <1>3 DEF DebtsInv
<1>4. CASE loanStatus = "ACTIVE" /\ call'[d].balances = outstanding
  BY <1>2, <1>4 DEF SettledUnlessStale
<1> QED
  BY <1>1, <1>3, <1>4, HasRead

LEMMA SettledStep ==
  ASSUME IInv, SettledUnlessStale, DebtsInv, [HistoryNext]_<<vars, history>>
  PROVE  SettledUnlessStale'
<1> DEFINE Goal == loanStatus' = "SETTLED" <=> Debt(outstanding)' = 0
<1> SUFFICES ASSUME ~stale', ~Forgiven', ~Hollow' PROVE Goal
  BY DEF SettledUnlessStale
<1> HIDE DEF Goal
<1>1. [Next]_vars
  BY DEF HistoryNext, history
<1>2. /\ loanStatus = "SETTLED" <=> Debt(outstanding) = 0
      /\ \A c \in Calls : ~At(c, "idle") => Debt(call[c].balances) # 0
  BY Lasting DEF SettledUnlessStale, DebtsInv
<1>3. Happens
  BY <1>1, StepHappens
<1>4. CASE UNCHANGED <<loanStatus, outstanding>>
  BY <1>2, <1>4 DEF Goal
<1>5. ASSUME NEW c \in Calls, Carries(c) PROVE Goal
  <2> DEFINE x == call[c].restructure
  <2>1. /\ x \in Restructures /\ <<x, call[c].balances>> \in approved
        /\ outstanding' = NewBalances(x) /\ status' = [status EXCEPT ![x] = "IMPLEMENTED"]
    BY <1>5, Carried
  <2>2. status[x] # "IMPLEMENTED" /\ status'[x] = "IMPLEMENTED" /\ ~At(c, "idle") /\ UNCHANGED loanStatus
    BY <1>5, <2>1 DEF Carries, Implement, At, IInv, TypeOK
  <2>3. HistoryNext
    BY <2>2 DEF vars
  <2>4. <<x, outstanding>> \in approved
    BY <2>1, <2>2, <2>3 DEF HistoryNext
  <2>5. outstanding = call[c].balances
    <3> DEFINE a == <<x, outstanding>>
               b == <<x, call[c].balances>>
    <3>1. a = b
      BY <2>1, <2>4 DEF IInv, ApprovedInv
    <3> QED
      BY <3>1
  <2>6. Debt(outstanding) # 0
    BY <1>2, <2>2, <2>5
  <2>7. NewDebt(x) # 0
    BY <2>1, <2>2 DEF Forgiven, NewDebt
  <2>8. Debt(outstanding)' = NewDebt(x)
    BY <2>1, NewBalancesType
  <2> QED
    BY <1>2, <2>2, <2>6, <2>7, <2>8 DEF Goal
<1>6. ASSUME NEW r \in Repayments, Takes(r) PROVE Goal
  <2>1. /\ Debt(outstanding') = Debt(outstanding) - Allocated(r)
        /\ loanStatus' = StatusOf(outstanding') /\ outstanding' \in Balances
    BY <1>6, Taken
  <2>2. Debt(outstanding') \in Nat /\ Debt(outstanding) \in Nat /\ Allocated(r) \in Nat
    BY <2>1, DebtIs, TotalsAddUp DEF IInv, TypeOK, LinesType
  <2>3. Debt(outstanding) = 0 => Debt(outstanding') = 0
    BY <2>1, <2>2
  <2> QED
    BY <1>2, <2>1, <2>3 DEF Goal, StatusOf
<1>7. ASSUME NEW r \in Repayments, ReverseRepayment(r) PROVE Goal
  <2>1. Debt(outstanding') = Debt(outstanding) + Allocated(r)
    BY <1>7, GivenBack
  <2>2. Debt(outstanding) \in Nat /\ Allocated(r) \in Nat
    BY DebtIs, TotalsAddUp DEF IInv, TypeOK, LinesType
  <2>3. loanStatus' = "ACTIVE" /\ repayment'[r] = "REVERSED" /\ UNCHANGED line
    BY <1>7 DEF ReverseRepayment, Moves, IInv, TypeOK
  <2>4. Allocated(r) # 0
    BY <2>3 DEF Hollow, Allocated
  <2>5. Debt(outstanding') # 0
    BY <2>1, <2>2, <2>4
  <2> QED
    BY <2>3, <2>5 DEF Goal
<1>8. ASSUME NEW c \in Calls, ConsumeApproval(c) \/ PostLedger(c) PROVE UNCHANGED <<loanStatus, outstanding>>
  BY <1>8 DEF ConsumeApproval, PostLedger, book
<1>9. ASSUME NEW r \in Repayments, PrepareRepayment(r) \/ (ApplyRepayment(r) /\ ~Takes(r))
      PROVE  UNCHANGED <<loanStatus, outstanding>>
  BY <1>9 DEF PrepareRepayment, ApplyRepayment, Takes, book
<1> QED
  BY <1>3, <1>4, <1>5, <1>6, <1>7, <1>8, <1>9 DEF Happens, Quiet, book, Repay

-----------------------------------------------------------------------------
(* The schedule in force. *)

\* What a step pays, or pays back, on each slot.
Moved == [s \in Slot |-> paid'[s] - paid[s]]

LEMMA SlotsInForce ==
  ASSUME IInv
  PROVE  /\ Last \in Version /\ active = {Last}
         /\ Charges(Last) \in Slot /\ Principal(Last) \in Slot /\ Charges(Last) # Principal(Last)
         /\ \A s \in Slot : VersionOf(s) = Last <=> s \in {Charges(Last), Principal(Last)}
         /\ Unpaid(Last) = (due[Charges(Last)] + due[Principal(Last)])
                             - (paid[Charges(Last)] + paid[Principal(Last)])
<1>1. Last \in Version /\ active = {Last}
  BY LastIs DEF IInv, PlanInv
<1> QED
  BY <1>1, SlotVersions DEF Unpaid, SlotTotal, Charges, Principal

\* How the history goes on.
LEMMA HistoryMoves ==
  ASSUME IInv, [HistoryNext]_<<vars, history>>
  PROVE  /\ late \subseteq late'
         /\ \A s \in Slot : paid'[s] # paid[s] /\ VersionOf(s) # Last => VersionOf(s) \in late'
         /\ UNCHANGED paid => late' = late
         /\ active' # active => astray' = 0
         /\ active' = active => astray' = astray + Total(Moved, Reached) \/ UNCHANGED <<vars, history>>
<1>1. active = {Last}
  BY DEF IInv, PlanInv
<1>2. CASE HistoryNext
  <2>1. /\ late' = late \cup {VersionOf(s) : s \in Reached}
        /\ astray' = IF active' # active THEN 0 ELSE astray + Total(Moved, Reached)
    BY <1>2, Zenon DEF HistoryNext, Moved
  <2>2. \A s \in Slot : s \in Reached <=> paid'[s] # paid[s] /\ VersionOf(s) # Last
    BY <1>1 DEF Reached
  <2>3. Reached \subseteq Slot
    BY DEF Reached
  <2>4. UNCHANGED paid => Reached = {}
    BY <2>2, <2>3
  <2> QED
    BY <2>1, <2>2, <2>4
<1>3. CASE UNCHANGED <<vars, history>>
  BY <1>3 DEF vars, history, book, plan
<1> QED
  BY <1>2, <1>3

\* Where no payment moves and the schedule stays, nothing goes astray.
LEMMA OwedKept ==
  ASSUME IInv, OwedInv, [HistoryNext]_<<vars, history>>,
         UNCHANGED <<book, active>>, Done' = Done
  PROVE  OwedInv'
<1>1. Last' = Last
  BY DEF Last
<1>2. UNCHANGED <<outstanding, due, paid, shown, active>>
  BY DEF book
<1>3. late' = late
  BY <1>2, HistoryMoves
<1>4. astray' = astray
  <2>1. Reached = {}
    BY <1>2 DEF Reached
  <2>2. astray \in Int /\ Total(Moved, {}) = 0
    BY TotalEmpty DEF OwedInv
  <2>3. astray' = astray + Total(Moved, Reached) \/ UNCHANGED <<vars, history>>
    BY <1>2, HistoryMoves
  <2> QED
    BY <2>1, <2>2, <2>3 DEF history
<1> QED
  BY <1>1, <1>2, <1>3, <1>4 DEF OwedInv, Unpaid, SlotTotal

\* A new schedule owes what the loan then owes, and supersedes what was not paid.
LEMMA OwedCarried ==
  ASSUME IInv, OwedInv, [HistoryNext]_<<vars, history>>, NEW c \in Calls, Carries(c)
  PROVE  OwedInv'
<1> DEFINE x == call[c].restructure
           n == Last'
<1>1. /\ x \in Restructures /\ n \in Version /\ n \notin schedules /\ active' = {n}
      /\ shown' = (shown \ Superseded(Last)) \cup {n}
      /\ due' = [due EXCEPT ![Charges(n)] = Terms[x].interest, ![Principal(n)] = Terms[x].principal]
      /\ outstanding' = NewBalances(x) /\ paid' = paid
  BY Carried DEF Carries, Implement
<1> HIDE DEF n
<1>2. /\ Charges(n) \in Slot /\ Principal(n) \in Slot /\ Charges(n) # Principal(n)
      /\ VersionOf(Charges(n)) = n /\ VersionOf(Principal(n)) = n
  BY <1>1, SlotVersions
<1>3. \A s \in Slot : paid[s] \in Nat /\ due[s] \in Nat /\ paid[s] <= due[s]
  BY DEF IInv, TypeOK, SlotsInv
<1>4. late' = late
  BY <1>1, HistoryMoves
<1>5. astray' = 0
  <2>1. Last \in schedules /\ active = {Last}
    BY SlotsInForce DEF IInv, PlanInv, TypeOK
  <2>2. active' # active
    BY <1>1, <2>1
  <2> QED
    BY <2>2, HistoryMoves
<1>6. ASSUME NEW s \in Slot, VersionOf(s) \in shown' \ ({n} \cup late) PROVE paid'[s] = due'[s]
  <2>1. due'[s] = due[s] /\ paid'[s] = paid[s] /\ VersionOf(s) \in shown \ (Superseded(Last) \cup late)
    BY <1>1, <1>2, <1>6 DEF IInv, TypeOK
  <2>2. CASE VersionOf(s) = Last
    <3>1. ~(SlotTotal(paid, Last) < SlotTotal(due, Last))
      BY <2>1, <2>2 DEF Superseded
    <3>2. s = Charges(Last) \/ s = Principal(Last)
      BY <2>2, SlotVersions
    <3>3. Charges(Last) \in Slot /\ Principal(Last) \in Slot
      BY LastIs, SlotVersions
    <3>4. ~(paid[Charges(Last)] + paid[Principal(Last)] < due[Charges(Last)] + due[Principal(Last)])
      BY <3>1 DEF SlotTotal, Charges, Principal
    <3>5. paid[Charges(Last)] = due[Charges(Last)] /\ paid[Principal(Last)] = due[Principal(Last)]
      BY <1>3, <3>3, <3>4
    <3> QED
      BY <2>1, <3>2, <3>5
  <2>3. CASE VersionOf(s) # Last
    BY <2>1, <2>3 DEF OwedInv
  <2> QED
    BY <2>2, <2>3
<1>7. paid[Charges(n)] = 0 /\ paid[Principal(n)] = 0
  <2>1. due[Charges(n)] = 0 /\ due[Principal(n)] = 0
    BY <1>1, <1>2 DEF IInv, SlotsInv
  <2> QED
    BY <1>2, <1>3, <2>1
<1>8. due'[Charges(n)] = Terms[x].interest /\ due'[Principal(n)] = Terms[x].principal
  BY <1>1, <1>2 DEF IInv, TypeOK
<1>9. /\ Terms[x].interest \in Nat /\ Terms[x].principal \in Nat
      /\ Debt(outstanding') = Terms[x].principal + Terms[x].interest
  BY <1>1, NewBalancesType DEF NewDebt
<1>10. (due'[Charges(n)] + due'[Principal(n)]) - (paid'[Charges(n)] + paid'[Principal(n)])
         = Debt(outstanding') + astray'
  BY <1>1, <1>5, <1>7, <1>8, <1>9
<1>11. Unpaid(Last)' = Debt(outstanding)' + astray'
  BY <1>10 DEF n, Charges, Principal, Unpaid, SlotTotal
<1> QED
  <2>1. /\ astray' \in Int
        /\ \A s \in Slot : VersionOf(s) \in shown' \ ({n} \cup late') => paid'[s] = due'[s]
    BY <1>4, <1>5, <1>6
  <2> QED
    BY <1>11, <2>1 DEF OwedInv, n

\* What a repayment or its reversal moves is what the balances change by.
LEMMA AllMoved ==
  ASSUME IInv, NEW r \in Repayments, Takes(r) \/ ReverseRepayment(r)
  PROVE  /\ \A s \in Slot : Moved[s] \in Int /\ (line[r][s] > 0 => paid'[s] # paid[s])
         /\ Debt(outstanding') = Debt(outstanding) - Total(Moved, Slot)
<1>1. \A s \in Slot : paid[s] \in Nat /\ line[r][s] \in Nat
  BY DEF IInv, TypeOK
<1>2. Debt(outstanding) \in Nat /\ Allocated(r) \in Nat
  BY DebtIs, TotalsAddUp DEF IInv, TypeOK, LinesType
<1>3. CASE Takes(r)
  <2>1. /\ paid' = [s \in Slot |-> paid[s] + line[r][s]]
        /\ Debt(outstanding') = Debt(outstanding) - Allocated(r)
    BY <1>3, Taken
  <2>2. \A s \in Slot : Moved[s] = line[r][s]
    BY <1>1, <2>1 DEF Moved
  <2>3. Total(Moved, Slot) = Allocated(r)
    BY <2>2, SlotsFinite, TotalSame DEF Allocated
  <2> QED
    BY <1>1, <2>1, <2>2, <2>3
<1>4. CASE ReverseRepayment(r)
  <2>1. /\ paid' = [s \in Slot |-> paid[s] - line[r][s]]
        /\ Debt(outstanding') = Debt(outstanding) + Allocated(r)
    BY <1>4, GivenBack
  <2> DEFINE zeros == [s \in Slot |-> 0]
  <2>2. \A s \in Slot : Moved[s] \in Int /\ line[r][s] \in Int /\ zeros[s] = Moved[s] + line[r][s]
    BY <1>1, <2>1 DEF Moved
  <2>3. Total(zeros, Slot) = 0
    BY SlotsFinite, TotalOfZeros
  <2> HIDE DEF zeros
  <2>4. Total(zeros, Slot) = Total(Moved, Slot) + Total(line[r], Slot)
    BY <2>2, SlotsFinite, TotalOfSums
  <2>5. Total(Moved, Slot) \in Int
    BY <2>2, SlotsFinite, TotalType
  <2>6. Total(Moved, Slot) + Allocated(r) = 0
    BY <2>3, <2>4 DEF Allocated
  <2>7. \A s \in Slot : line[r][s] > 0 => paid'[s] # paid[s]
    BY <1>1, <2>1
  <2> QED
    BY <1>2, <2>1, <2>2, <2>5, <2>6, <2>7
<1> QED
  BY <1>3, <1>4

\* It moves on the schedule in force what it does not send astray.
LEMMA MovedInParts ==
  ASSUME IInv, \A s \in Slot : Moved[s] \in Int
  PROVE  /\ Total(Moved, Slot) = Moved[Charges(Last)] + Moved[Principal(Last)] + Total(Moved, Reached)
         /\ Total(Moved, Reached) \in Int
<1> DEFINE ch   == Charges(Last)
           pr   == Principal(Last)
           rest == (Slot \ {ch}) \ {pr}
<1>1. /\ ch \in Slot /\ pr \in Slot \ {ch} /\ active = {Last}
      /\ \A s \in Slot : VersionOf(s) = Last <=> s \in {ch, pr}
  BY SlotsInForce
<1> HIDE DEF ch, pr
<1>2. IsFiniteSet(Slot) /\ IsFiniteSet(Slot \ {ch}) /\ IsFiniteSet(rest) /\ IsFiniteSet(Reached)
  BY SlotsFinite, FS_Subset, Slot \ {ch} \subseteq Slot, rest \subseteq Slot, Reached \subseteq Slot DEF Reached
<1>3. Total(Moved, Slot) = Moved[ch] + Total(Moved, Slot \ {ch})
  BY <1>1, <1>2, TotalWithout
<1>4. Total(Moved, Slot \ {ch}) = Moved[pr] + Total(Moved, rest)
  BY <1>1, <1>2, TotalWithout
<1>5. Total(Moved, rest) = Total(Moved, Reached)
  <2> DEFINE still == rest \ Reached
  <2>1. Reached \subseteq rest
    BY <1>1 DEF Reached
  <2>2. rest = still \cup Reached /\ still \cap Reached = {} /\ IsFiniteSet(still)
    BY <1>2, <2>1, FS_Subset, still \subseteq rest
  <2>3. \A s \in still : Moved[s] = 0
    <3>1. TAKE s \in still
    <3>2. s \in Slot /\ VersionOf(s) \notin active
      BY <1>1
    <3>3. paid'[s] = paid[s]
      BY <3>2 DEF Reached
    <3>4. Moved[s] = paid[s] - paid[s] /\ paid[s] \in Nat
      BY <3>2, <3>3 DEF Moved, IInv, TypeOK
    <3> QED
      BY <3>4
  <2> HIDE DEF still, rest
  <2>4. Total(Moved, still) = 0
    BY <2>2, <2>3, TotalOfZeros
  <2>5. \A s \in still \cup Reached : Moved[s] \in Int
    BY <2>2 DEF rest
  <2>6. Total(Moved, rest) = Total(Moved, still) + Total(Moved, Reached)
    BY <1>2, <2>2, <2>5, TotalOfUnion
  <2>7. Total(Moved, Reached) \in Int
    BY <1>2, <2>5, TotalType
  <2> QED
    BY <2>4, <2>6, <2>7
<1>6. Total(Moved, Reached) \in Int
  BY <1>2, TotalType, Reached \subseteq Slot DEF Reached
<1>7. Moved[ch] \in Int /\ Moved[pr] \in Int
  BY <1>1
<1> QED
  BY <1>3, <1>4, <1>5, <1>6, <1>7 DEF ch, pr

LEMMA OwedRepaid ==
  ASSUME IInv, OwedInv, [HistoryNext]_<<vars, history>>,
         NEW r \in Repayments, Takes(r) \/ ReverseRepayment(r)
  PROVE  OwedInv'
<1> DEFINE ch == Charges(Last)
           pr == Principal(Last)
<1>1. ch \in Slot /\ pr \in Slot
  BY LastIs, SlotVersions
<1>2. UNCHANGED <<plan, due, status, line>>
  BY DEF Takes, ApplyRepayment, ReverseRepayment
<1>3. Last' = Last /\ active' = active
  BY <1>2 DEF Done, Last, plan
<1>4. \A s \in Slot : Moved[s] \in Int /\ (line[r][s] > 0 => paid'[s] # paid[s])
  BY AllMoved
<1>5. ASSUME NEW s \in Slot, VersionOf(s) \in shown' \ ({Last} \cup late') PROVE paid'[s] = due'[s]
  <2>1. shown' \subseteq shown \cup Touched(r)
    BY Taken, GivenBack
  <2>2. late \subseteq late' /\ \A t \in Slot : paid'[t] # paid[t] /\ VersionOf(t) # Last => VersionOf(t) \in late'
    BY HistoryMoves
  <2>3. VersionOf(s) \notin Touched(r)
    BY <1>4, <1>5, <2>2 DEF Touched
  <2>4. VersionOf(s) \in shown \ ({Last} \cup late) /\ paid'[s] = paid[s]
    BY <1>5, <2>1, <2>2, <2>3
  <2> QED
    BY <1>2, <2>4 DEF OwedInv
<1>6. astray' = astray + Total(Moved, Reached)
  <2>1. CASE astray' = astray + Total(Moved, Reached)
    BY <2>1
  <2>2. CASE UNCHANGED <<vars, history>>
    <3>1. UNCHANGED <<paid, astray>>
      BY <2>2 DEF vars, history, book
    <3>2. Reached = {}
      BY <3>1 DEF Reached
    <3> QED
      BY <3>1, <3>2, TotalEmpty DEF OwedInv
  <2> QED
    BY <1>3, <2>1, <2>2, HistoryMoves
<1>7. /\ Debt(outstanding') = Debt(outstanding) - (Moved[ch] + Moved[pr] + Total(Moved, Reached))
      /\ Total(Moved, Reached) \in Int
  BY <1>4, AllMoved, MovedInParts
<1>8. Debt(outstanding) \in Nat
  BY DebtIs DEF IInv, TypeOK
<1>9. Moved[ch] = paid'[ch] - paid[ch] /\ Moved[pr] = paid'[pr] - paid[pr]
  BY <1>1 DEF Moved
<1>10. /\ paid[ch] \in Nat /\ paid[pr] \in Nat /\ due[ch] \in Nat /\ due[pr] \in Nat
       /\ paid'[ch] \in Nat /\ paid'[pr] \in Nat
  <2>1. paid' \in [Slot -> Nat]
    BY Taken, GivenBack
  <2> QED
    BY <1>1, <2>1 DEF IInv, TypeOK
<1>11. (due[ch] + due[pr]) - (paid[ch] + paid[pr]) = Debt(outstanding) + astray /\ astray \in Int
  BY SlotsInForce DEF OwedInv
<1> HIDE DEF ch, pr
<1>12. (due[ch] + due[pr]) - (paid'[ch] + paid'[pr]) = Debt(outstanding') + astray' /\ astray' \in Int
  BY <1>6, <1>7, <1>8, <1>9, <1>10, <1>11
<1>13. Unpaid(Last)' = Debt(outstanding)' + astray'
  BY <1>2, <1>3, <1>12 DEF ch, pr, Charges, Principal, Unpaid, SlotTotal
<1> QED
  BY <1>3, <1>5, <1>12, <1>13 DEF OwedInv

LEMMA OwedStep ==
  ASSUME IInv, OwedInv, [HistoryNext]_<<vars, history>>
  PROVE  OwedInv'
<1>1. [Next]_vars
  BY DEF HistoryNext, history
<1>2. Happens
  BY <1>1, StepHappens
<1>3. ASSUME NEW c \in Calls, ConsumeApproval(c) \/ PostLedger(c) PROVE UNCHANGED <<book, active>> /\ Done' = Done
  BY <1>3 DEF ConsumeApproval, PostLedger, Done, plan
<1>4. ASSUME NEW r \in Repayments, PrepareRepayment(r) \/ (ApplyRepayment(r) /\ ~Takes(r))
      PROVE  UNCHANGED <<book, active>> /\ Done' = Done
  BY <1>4 DEF PrepareRepayment, ApplyRepayment, Takes, book, plan, Done
<1>5. CASE Quiet
  <2>1. UNCHANGED <<book, active>> /\ Done' = Done
    BY <1>5 DEF Quiet, plan
  <2> QED
    BY <2>1, OwedKept
<1> QED
  BY <1>2, <1>3, <1>4, <1>5, OwedKept, OwedCarried, OwedRepaid DEF Happens, Repay

-----------------------------------------------------------------------------
(* What holds until repayments and restructures cross. *)

LEMMA InitHistory == HistoryInit => IInv /\ HInv
<1> SUFFICES ASSUME HistoryInit PROVE IInv /\ HInv
  OBVIOUS
<1>1. Init
  BY DEF HistoryInit
<1>2. IInv
  BY <1>1, InitInv
<1>3. LedgerAgreesUnlessStale
  <2>1. Unapplied = {} /\ Pending = {}
    BY <1>1 DEF Init, Unapplied, Pending
  <2>2. Total(Given, Unapplied) = 0 /\ Total(Gap, Pending) = 0
    BY <2>1, TotalEmpty
  <2>3. receivable = Debt(outstanding) /\ Debt(outstanding) \in Nat
    BY <1>1, <1>2, DebtIs DEF Init, IInv, TypeOK
  <2> QED
    BY <2>2, <2>3 DEF LedgerAgreesUnlessStale, Given, Gap, Pending
<1>4. SettledUnlessStale
  <2>1. Debt(outstanding) = outstanding["CHARGES"] + outstanding["PRINCIPAL"]
    BY <1>2, DebtIs DEF IInv, TypeOK
  <2>2. outstanding["CHARGES"] \in Nat /\ outstanding["PRINCIPAL"] = FirstDue[2]
    BY <1>1, FirstDueAssumption DEF Init, Component
  <2>3. FirstDue[2] \in Nat /\ FirstDue[2] > 0
    BY FirstDueAssumption
  <2>4. Debt(outstanding) # 0
    BY <2>1, <2>2, <2>3
  <2> QED
    BY <1>1, <2>4 DEF Init, SettledUnlessStale
<1>5. DebtsInv
  BY <1>1 DEF Init, DebtsInv, At, Idle
<1>6. OwedInv
  <2>1. Last = 1
    BY <1>1, FS_EmptySet, Done = {} DEF Init, Done, Last
  <2>2. 1 \in Slot /\ 2 \in Slot
    BY Versions
  <2>3. due[1] = FirstDue[1] /\ due[2] = FirstDue[2] /\ paid[1] = 0 /\ paid[2] = 0
    BY <1>1, <2>2 DEF Init
  <2>4. outstanding["CHARGES"] = FirstDue[1] /\ outstanding["PRINCIPAL"] = FirstDue[2]
    BY <1>1 DEF Init, Component
  <2>5. FirstDue[1] \in Nat /\ FirstDue[2] \in Nat
    BY FirstDueAssumption
  <2>6. Debt(outstanding) = FirstDue[1] + FirstDue[2]
    BY <1>2, <2>4, DebtIs DEF IInv, TypeOK
  <2>7. SlotTotal(due, 1) = FirstDue[1] + FirstDue[2] /\ SlotTotal(paid, 1) = 0
    BY <2>3 DEF SlotTotal
  <2>8. shown = {1} /\ astray = 0
    BY <1>1 DEF Init, HistoryInit
  <2> QED
    BY <2>1, <2>5, <2>6, <2>7, <2>8 DEF OwedInv, Unpaid
<1> QED
  BY <1>2, <1>3, <1>4, <1>5, <1>6 DEF HInv

LEMMA NextHistory == IInv /\ HInv /\ [HistoryNext]_<<vars, history>> => (IInv /\ HInv)'
<1> SUFFICES ASSUME IInv, HInv, [HistoryNext]_<<vars, history>> PROVE (IInv /\ HInv)'
  OBVIOUS
<1>1. [Next]_vars
  BY DEF HistoryNext, history
<1>2. IInv'
  BY <1>1, NextInv
<1>3. LedgerAgreesUnlessStale'
  BY <1>2, LedgerStep DEF HInv
<1>4. SettledUnlessStale' /\ DebtsInv'
  BY SettledStep, DebtsStep DEF HInv
<1>5. OwedInv'
  BY OwedStep DEF HInv
<1> QED
  BY <1>2, <1>3, <1>4, <1>5 DEF HInv

LEMMA HistoryInvariant == HistorySpec => [](IInv /\ HInv)
  BY InitHistory, NextHistory, PTL DEF HistorySpec

\* Until a restructure overwrites balances it had not read, the books and the ledger
\* agree up to what is under way, and the status with both unless the loan was
\* forgiven or a repayment that paid nothing was reversed.
THEOREM BooksAgree == HistorySpec => []BooksAgreeUnlessStale
<1>1. IInv /\ HInv => BooksAgreeUnlessStale
  BY DEF IInv, HInv, BooksAgreeUnlessStale
<1> QED
  BY <1>1, HistoryInvariant, PTL

LEMMA Obligations == IInv /\ OwedInv => ObligationsUpToLate
<1> SUFFICES ASSUME IInv, OwedInv PROVE ObligationsUpToLate
  OBVIOUS
<1> DEFINE ch == Charges(Last)
           pr == Principal(Last)
           force == {s \in Slot : VersionOf(s) \in active}
<1>1. /\ ch \in Slot /\ pr \in Slot /\ ch # pr /\ active = {Last}
      /\ \A s \in Slot : VersionOf(s) = Last <=> s \in {ch, pr}
  BY SlotsInForce
<1>2. Owing \in [Slot -> Nat]
  BY Allocates, RepaymentsAssumption DEF IInv, TypeOK, SlotsInv, Owing
<1>3. \A s \in Slot : Owing[s] > 0 => VersionOf(s) \in active \cup late
  <2>1. ASSUME NEW s \in Slot, VersionOf(s) \notin active \cup late PROVE Owing[s] = 0
    BY <1>1, <2>1 DEF Owing, OwedInv, IInv, TypeOK
  <2> QED
    BY <2>1
<1>4. Owing[ch] = due[ch] - paid[ch] /\ Owing[pr] = due[pr] - paid[pr]
  BY <1>1 DEF Owing, IInv, PlanInv
<1>5. force = {ch} \cup {pr}
  BY <1>1
<1> HIDE DEF ch, pr, force
<1>6. Total(Owing, force) = Owing[pr] + Owing[ch]
  <2>1. Total(Owing, {ch} \cup {pr}) = Owing[pr] + Total(Owing, {ch})
    BY <1>1, <1>2, FS_Singleton, TotalWith, pr \notin {ch}, \A s \in {ch} \cup {pr} : Owing[s] \in Int
  <2>2. Total(Owing, {ch}) = Owing[ch]
    BY <1>1, <1>2, FS_Singleton, TotalOfOne
  <2> QED
    BY <1>5, <2>1, <2>2
<1>7. (due[ch] + due[pr]) - (paid[ch] + paid[pr]) = Debt(outstanding) + astray
  BY SlotsInForce DEF OwedInv, Unpaid, ch, pr
<1>8. /\ due[ch] \in Nat /\ due[pr] \in Nat /\ paid[ch] \in Nat /\ paid[pr] \in Nat
  BY <1>1 DEF IInv, TypeOK
<1>9. Total(Owing, force) = Debt(outstanding) + astray
  BY <1>4, <1>6, <1>7, <1>8
<1> QED
  BY <1>3, <1>9 DEF ObligationsUpToLate, force

\* What can still be paid is of the schedule in force or of one reached after it was
\* replaced, and the former is all that is outstanding but for what went astray.
THEOREM ObligationsHold == HistorySpec => []ObligationsUpToLate
<1>1. IInv /\ HInv => ObligationsUpToLate
  BY Obligations DEF HInv
<1> QED
  BY <1>1, HistoryInvariant, PTL

================================================================================
