---------------------------- MODULE WriteOffProofs ----------------------------
(***************************************************************************)
(* Proofs about WriteOff, for any debt, commands, recoveries and calls.    *)
(* The books rest on two facts no single step shows: a recovery exists     *)
(* only on a COMPLETED write-off, whose amounts are therefore fixed, and   *)
(* its lines add up to its amount, so that recoveries which fit component  *)
(* by component also fit in total, which is what the books check.          *)
(***************************************************************************)
EXTENDS WriteOff, Sums

Evidence == {"NONE", "APPROVAL_PENDING", "LEDGER_POSTING", "COMPLETED"}

\* What a call knows at the point it has reached.
CallInv(c) ==
    /\ call[c].at \in {"approve", "recordApproval", "post", "complete"} =>
         call[c].request \in WriteOffs /\ status[call[c].request] # "NONE"
    /\ call[c].at \in {"recordApproval", "post", "complete"} => call[c].request \in approved
    /\ call[c].at \in {"postRecovery", "recordRecovery"} =>
         call[c].request \in Recoveries /\ recovery[call[c].request] # "NONE"
    /\ call[c].at \in {"complete", "recordRecovery"} => call[c].request \in posted

RecoveryInv(r) ==
    recovery[r] # "NONE" => status[Target[r]] = "COMPLETED" /\ Total(lines[r], Component) = Amount[r]

IInv ==
    /\ TypeOK
    /\ WrittenByTheBook
    /\ RecoveriesFit
    /\ RecoveredIsPosted
    /\ \A c \in Calls : CallInv(c)
    /\ \A r \in Recoveries : RecoveryInv(r)

-----------------------------------------------------------------------------
(* The sets summed over, and what an allocation gives. *)

\* The sets summed over are finite.
LEMMA FiniteParts ==
    /\ IsFiniteSet(Component)
    /\ \A S \in SUBSET Recoveries : IsFiniteSet(S)
<1>1. IsFiniteSet(Component)
  BY DebtAssumption, FS_Interval DEF Component
<1>2. \A S \in SUBSET Recoveries : IsFiniteSet(S)
  BY RecoveriesAssumption, FS_Subset
<1>3. QED
  BY <1>1, <1>2

\* The recoveries of a write-off in some states.
On(w, states) == {r \in Recoveries : Target[r] = w /\ recovery[r] \in states}

Column(c) == [r \in Recoveries |-> lines[r][c]]

\* What was collected of a component, as the total of a column.
LEMMA CollectedIs ==
  ASSUME TypeOK, NEW w \in WriteOffs, NEW states, NEW c \in Component
  PROVE  /\ Collected(w, states, c) = Total(Column(c), On(w, states))
         /\ Collected(w, states, c) \in Nat
         /\ On(w, states) \subseteq Recoveries /\ IsFiniteSet(On(w, states))
<1>1. Collected(w, states, c) = Total(Column(c), On(w, states))
  BY DEF Collected, Column, On
<1>2. On(w, states) \subseteq Recoveries /\ IsFiniteSet(On(w, states))
  BY FiniteParts DEF On
<1>3. \A r \in On(w, states) : Column(c)[r] \in Nat
  BY <1>2 DEF Column, TypeOK
<1>4. QED
  BY <1>1, <1>2, <1>3, TotalOfNaturals

\* Recoveries on one write-off that are reserved are together no more than it, if each
\* component of them is.
LEMMA FitInTotal ==
  ASSUME IInv, NEW w \in WriteOffs, NEW S \in SUBSET On(w, Reserved)
  PROVE  Total(Amount, S) <= Total(amount[w], Component)
<1> DEFINE share(c) == Total([r \in S |-> lines[r][c]], S)
           shares   == [c \in Component |-> share(c)]
           rows_    == [r \in S |-> Total(lines[r], Component)]
<1>0. TypeOK /\ RecoveriesFit
  BY DEF IInv
<1>1. S \subseteq Recoveries /\ IsFiniteSet(S) /\ IsFiniteSet(Component)
  BY FiniteParts DEF On
<1>2. \A r \in S : Amount[r] = rows_[r]
  BY <1>1 DEF IInv, RecoveryInv, On, Reserved
<1>3. Total(Amount, S) = Total(rows_, S)
  <2> HIDE DEF rows_
  <2> QED BY <1>1, <1>2, TotalSame
<1>4. Total(rows_, S) = Total(shares, Component)
  <2>1. \A r \in S, c \in Component : lines[r][c] \in Int
    BY <1>0, <1>1 DEF TypeOK
  <2>2. QED
    BY <1>1, <2>1, TotalExchanged
<1>5. ASSUME NEW c \in Component PROVE share(c) \in Int /\ share(c) <= amount[w][c]
  <2>1. \A r \in S : [q \in S |-> lines[q][c]][r] = Column(c)[r] /\ Column(c)[r] \in Nat
    BY <1>0, <1>1 DEF Column, TypeOK
  <2>2. share(c) = Total(Column(c), S)
    BY <1>1, <2>1, TotalSame
  <2>3. Total(Column(c), S) \in Nat
    BY <1>1, <2>1, TotalOfNaturals
  <2>4. Total(Column(c), S) <= Total(Column(c), On(w, Reserved))
    <3>1. \A r \in On(w, Reserved) : Column(c)[r] \in Nat
      BY <1>0 DEF Column, TypeOK, On
    <3>2. IsFiniteSet(On(w, Reserved))
      BY <1>0, CollectedIs
    <3>3. QED
      BY <3>1, <3>2, TotalOfPart
  <2>5. Total(Column(c), On(w, Reserved)) \in Nat /\ Total(Column(c), On(w, Reserved)) <= amount[w][c]
    <3>1. Collected(w, Reserved, c) <= amount[w][c]
      BY <1>0 DEF RecoveriesFit, Reserved
    <3>2. QED
      BY <1>0, <3>1, CollectedIs
  <2>6. amount[w][c] \in Nat
    BY <1>0 DEF TypeOK
  <2> HIDE DEF share
  <2>7. QED
    BY <2>2, <2>3, <2>4, <2>5, <2>6
<1>6. Total(shares, Component) <= Total(amount[w], Component)
  <2>1. \A c \in Component : shares[c] \in Int /\ amount[w][c] \in Int /\ shares[c] <= amount[w][c]
    BY <1>0, <1>5 DEF TypeOK
  <2> HIDE DEF shares
  <2>2. QED
    BY <1>1, <2>1, TotalAtMost
<1>7. QED
  BY <1>3, <1>4, <1>6

\* A recovery that is reserved can be counted.
LEMMA ReservedCounts ==
  ASSUME IInv
  PROVE  RecoveryNeverBlocked
<1> SUFFICES ASSUME NEW r \in Recoveries, recovery[r] = "LEDGER_POSTING" PROVE CanRecord(r)
  BY DEF RecoveryNeverBlocked
<1> DEFINE w == Target[r]
<1>1. w \in WriteOffs
  BY RecoveriesAssumption
<1>2. PostedOn(w) \subseteq Recoveries /\ r \notin PostedOn(w) /\ IsFiniteSet(PostedOn(w))
  BY FiniteParts DEF PostedOn
<1>3. Total(Amount, PostedOn(w) \cup {r}) = Amount[r] + Total(Amount, PostedOn(w))
  <2>1. \A q \in PostedOn(w) \cup {r} : Amount[q] \in Int
    BY <1>2, RecoveriesAssumption
  <2>2. QED
    BY <1>2, <2>1, TotalWith
<1>4. recovered[w] = Total(Amount, PostedOn(w))
  BY <1>1 DEF IInv, RecoveredIsPosted
<1>5. Total(Amount, PostedOn(w) \cup {r}) <= Total(amount[w], Component)
  <2>1. PostedOn(w) \cup {r} \subseteq On(w, Reserved)
    BY DEF PostedOn, On, Reserved
  <2>2. QED
    BY <1>1, <2>1, FitInTotal
<1>6. recovered[w] \in Nat /\ Amount[r] \in Nat
  BY <1>1, RecoveriesAssumption DEF IInv, TypeOK
<1>7. QED
  BY <1>3, <1>4, <1>5, <1>6 DEF CanRecord

-----------------------------------------------------------------------------
(* The steps. *)

\* An idle call.
LEMMA Idling == Idle = [at |-> "idle", request |-> NoRequest]
  BY DEF Idle

\* The first state.
LEMMA Starts == ASSUME Init PROVE IInv
<1>1. TypeOK
  BY DebtAssumption, RecoveriesAssumption, MaxAbortsAssumption DEF Init, TypeOK, Points, Idle, None
<1>2. WrittenByTheBook
  BY DEF Init, WrittenByTheBook
<1>3. ASSUME NEW w \in WriteOffs, NEW c \in Component PROVE Collected(w, Reserved, c) <= amount[w][c]
  <2>1. On(w, Reserved) = {} /\ amount[w][c] = 0
    BY <1>3 DEF Init, On, Reserved, None
  <2>2. QED
    BY <1>1, <2>1, CollectedIs, TotalEmpty
<1>4. RecoveriesFit
  BY <1>3 DEF RecoveriesFit, Reserved
<1>5. RecoveredIsPosted
  <2>1. ASSUME NEW w \in WriteOffs PROVE PostedOn(w) = {} /\ recovered[w] = 0
    BY DEF Init, PostedOn
  <2>2. QED
    BY <2>1, TotalEmpty DEF RecoveredIsPosted
<1>6. (\A c \in Calls : CallInv(c)) /\ \A r \in Recoveries : RecoveryInv(r)
  BY DEF Init, CallInv, RecoveryInv, Idle
<1>7. QED
  BY <1>1, <1>2, <1>4, <1>5, <1>6 DEF IInv

\* What follows when neither the recoveries nor the amounts of completed write-offs move.
LEMMA RecoveriesKept ==
  ASSUME IInv, UNCHANGED <<recovery, lines, recovered>>, posted \subseteq posted', TypeOK',
         \A w \in WriteOffs : status[w] = "COMPLETED" => status'[w] = "COMPLETED" /\ amount'[w] = amount[w]
  PROVE  RecoveriesFit' /\ RecoveredIsPosted' /\ \A r \in Recoveries : RecoveryInv(r)'
<1>0. TypeOK
  BY DEF IInv
<1>1. ASSUME NEW w \in WriteOffs, NEW c \in Component PROVE Collected(w, Reserved, c)' <= amount'[w][c]
  <2>1. Collected(w, Reserved, c)' = Collected(w, Reserved, c)
    BY DEF Collected, Reserved
  <2>2. CASE status[w] = "COMPLETED"
    BY <2>1, <2>2 DEF IInv, RecoveriesFit, Reserved
  <2>3. CASE status[w] # "COMPLETED"
    <3>1. On(w, Reserved) = {}
      BY <2>3 DEF IInv, RecoveryInv, On, Reserved
    <3>2. Collected(w, Reserved, c) = 0
      BY <1>0, <3>1, CollectedIs, TotalEmpty
    <3>3. amount'[w][c] \in Nat
      BY DEF TypeOK
    <3>4. QED
      BY <2>1, <3>2, <3>3
  <2>4. QED
    BY <2>2, <2>3
<1>2. RecoveriesFit'
  BY <1>1 DEF RecoveriesFit, Reserved
<1>3. RecoveredIsPosted'
  BY DEF IInv, RecoveredIsPosted, PostedOn
<1>4. \A r \in Recoveries : RecoveryInv(r)'
  BY RecoveriesAssumption DEF IInv, RecoveryInv
<1>5. QED
  BY <1>2, <1>3, <1>4

\* A write-off is recorded, and no recovery can be on it yet.
LEMMA PrepareKeeps ==
  ASSUME IInv, NEW c \in Calls, NEW w \in WriteOffs, Prepare(c, w)
  PROVE  IInv'
<1>0. TypeOK
  BY DEF IInv
<1>1. TypeOK'
  BY <1>0 DEF Prepare, TypeOK, Begin, Points, loan, services
<1>2. RecoveriesFit' /\ RecoveredIsPosted' /\ \A r \in Recoveries : RecoveryInv(r)'
  <2>1. \A v \in WriteOffs : status[v] = "COMPLETED" => status'[v] = "COMPLETED" /\ amount'[v] = amount[v]
    BY <1>0 DEF Prepare, TypeOK
  <2>2. QED
    BY <1>1, <2>1, RecoveriesKept DEF Prepare, services
<1>3. WrittenByTheBook'
  BY <1>0 DEF IInv, WrittenByTheBook, Prepare, services, TypeOK
<1>4. ASSUME NEW d \in Calls PROVE CallInv(d)'
  BY <1>0 DEF IInv, CallInv, Prepare, Begin, services, TypeOK
<1>5. QED
  BY <1>1, <1>2, <1>3, <1>4 DEF IInv

\* Calls begin again or die.
LEMMA ReplayKeeps ==
  ASSUME IInv, NEW c \in Calls,
         \/ \E w \in WriteOffs : Replay(c, w)
         \/ \E r \in Recoveries : ReplayRecovery(c, r)
         \/ Abort(c)
  PROVE  IInv'
<1>0. TypeOK
  BY DEF IInv
<1>1. UNCHANGED <<loan, rows, services>>
  BY DEF Replay, ReplayRecovery, Abort
<1>2. TypeOK'
  <2>1. CASE \E w \in WriteOffs : Replay(c, w)
    BY <1>0, <2>1 DEF Replay, ResumePoint, Begin, TypeOK, Points, loan, rows, services
  <2>2. CASE \E r \in Recoveries : ReplayRecovery(c, r)
    BY <1>0, <2>2 DEF ReplayRecovery, ResumeRecovery, Begin, TypeOK, Points, loan, rows, services
  <2>3. CASE Abort(c)
    BY <1>0, <2>3, MaxAbortsAssumption DEF Abort, End, Idle, TypeOK, Points, loan, rows, services
  <2>4. QED
    BY <2>1, <2>2, <2>3
<1>3. RecoveriesFit' /\ RecoveredIsPosted' /\ \A r \in Recoveries : RecoveryInv(r)'
  BY <1>1, <1>2, RecoveriesKept DEF rows, services
<1>4. WrittenByTheBook'
  BY <1>1 DEF IInv, WrittenByTheBook, rows, services
<1>5. ASSUME NEW d \in Calls PROVE CallInv(d)'
  <2>1. CASE \E w \in WriteOffs : Replay(c, w)
    BY <1>0, <1>1, <2>1 DEF IInv, CallInv, Replay, ResumePoint, Begin, rows, services, TypeOK
  <2>2. CASE \E r \in Recoveries : ReplayRecovery(c, r)
    BY <1>0, <1>1, <2>2 DEF IInv, CallInv, ReplayRecovery, ResumeRecovery, Begin, rows, services, TypeOK
  <2>3. CASE Abort(c)
    BY <1>0, <1>1, <2>3 DEF IInv, CallInv, Abort, End, Idle, rows, services, TypeOK
  <2>4. QED
    BY <2>1, <2>2, <2>3
<1>6. QED
  BY <1>2, <1>3, <1>4, <1>5 DEF IInv

\* The steps of a write-off, and of a recovery up to its last.
LEMMA StepKeeps ==
  ASSUME IInv, NEW c \in Calls,
         ConsumeApproval(c) \/ RecordApproval(c) \/ PostLedger(c) \/ Complete(c) \/ PostRecovery(c)
  PROVE  IInv'
<1>0. TypeOK /\ CallInv(c)
  BY DEF IInv
<1>1. TypeOK'
  <2>1. CASE ConsumeApproval(c)
    BY <1>0, <2>1 DEF ConsumeApproval, GoTo, At, Request, CallInv, TypeOK, Points, loan, rows
  <2>2. CASE RecordApproval(c)
    BY <1>0, <2>2 DEF RecordApproval, Open, GoTo, At, Request, CallInv, TypeOK, Points, loan, services
  <2>3. CASE PostLedger(c)
    BY <1>0, <2>3 DEF PostLedger, GoTo, At, Request, CallInv, TypeOK, Points, loan, rows
  <2>4. CASE Complete(c)
    BY <1>0, <2>4 DEF Complete, End, Idle, At, Request, CallInv, TypeOK, Points, services
  <2>5. CASE PostRecovery(c)
    BY <1>0, <2>5 DEF PostRecovery, GoTo, At, Request, CallInv, TypeOK, Points, loan, rows
  <2>6. QED
    BY <2>1, <2>2, <2>3, <2>4, <2>5
<1>2. /\ UNCHANGED <<recovery, lines, recovered, amount>>
      /\ posted \subseteq posted' /\ approved \subseteq approved'
      /\ \A w \in WriteOffs : status[w] = "COMPLETED" => status'[w] = "COMPLETED"
      /\ \A w \in WriteOffs : status[w] # "NONE" => status'[w] # "NONE"
  BY <1>0 DEF ConsumeApproval, RecordApproval, Open, PostLedger, Complete, PostRecovery, rows, services, TypeOK
<1>3. RecoveriesFit' /\ RecoveredIsPosted' /\ \A r \in Recoveries : RecoveryInv(r)'
  BY <1>1, <1>2, RecoveriesKept
<1>4. WrittenByTheBook'
  <2>1. CASE ConsumeApproval(c)
    BY <2>1 DEF IInv, WrittenByTheBook, ConsumeApproval, rows
  <2>2. CASE RecordApproval(c)
    BY <1>0, <2>2 DEF IInv, WrittenByTheBook, RecordApproval, Open, services, TypeOK
  <2>3. CASE PostLedger(c)
    BY <1>0, <2>3 DEF IInv, WrittenByTheBook, PostLedger, CallInv, At, Request, rows
  <2>4. CASE Complete(c)
    BY <1>0, <2>4 DEF IInv, WrittenByTheBook, Complete, CallInv, At, Request, services, TypeOK
  <2>5. CASE PostRecovery(c)
    BY <1>0, <2>5, NamesAssumption DEF IInv, WrittenByTheBook, PostRecovery, CallInv, At, Request, rows
  <2>6. QED
    BY <2>1, <2>2, <2>3, <2>4, <2>5
<1>5. ASSUME NEW d \in Calls PROVE CallInv(d)'
  <2>0. CallInv(d)
    BY DEF IInv
  <2>1. CASE d # c
    <3>1. call'[d] = call[d]
      BY <1>0, <2>1 DEF TypeOK, ConsumeApproval, RecordApproval, PostLedger, Complete, PostRecovery, GoTo, End
    <3>2. call[d] \in [at : Points, request : WriteOffs \cup Recoveries \cup {NoRequest}]
      BY <1>0 DEF TypeOK
    <3>3. QED
      BY <1>2, <2>0, <3>1, <3>2 DEF CallInv
  <2>2. CASE d = c
    <3>1. CASE ConsumeApproval(c)
      BY <1>0, <2>2, <3>1 DEF ConsumeApproval, GoTo, At, Request, CallInv, TypeOK, rows
    <3>2. CASE RecordApproval(c)
      <4>1. /\ call'[c].at = "post" /\ call'[c].request = call[c].request
            /\ call[c].at = "recordApproval"
        BY <1>0, <3>2 DEF RecordApproval, GoTo, At, TypeOK
      <4>2. call[c].request \in approved
        BY <1>0, <4>1 DEF CallInv
      <4>3. QED
        BY <1>0, <1>2, <2>2, <4>1, <4>2 DEF CallInv
    <3>3. CASE PostLedger(c)
      BY <1>0, <2>2, <3>3 DEF PostLedger, GoTo, At, Request, CallInv, TypeOK, rows
    <3>4. CASE Complete(c)
      BY <1>0, <2>2, <3>4 DEF Complete, End, Idle, CallInv, TypeOK
    <3>5. CASE PostRecovery(c)
      BY <1>0, <2>2, <3>5 DEF PostRecovery, GoTo, At, Request, CallInv, TypeOK, rows
    <3>6. QED
      BY <3>1, <3>2, <3>3, <3>4, <3>5
  <2>3. QED
    BY <2>1, <2>2
<1>6. QED
  BY <1>1, <1>3, <1>4, <1>5 DEF IInv

\* Repayments move balances no record depends on.
LEMMA OthersKeep ==
  ASSUME IInv, RepaymentApplied \/ RepaymentReversed
  PROVE  IInv'
<1>1. UNCHANGED <<rows, services, call, aborts>>
  BY DEF RepaymentApplied, RepaymentReversed
<1>2. TypeOK'
  BY <1>1, DebtAssumption DEF IInv, TypeOK, RepaymentApplied, RepaymentReversed, rows, services
<1>3. RecoveriesFit' /\ RecoveredIsPosted' /\ \A r \in Recoveries : RecoveryInv(r)'
  BY <1>1, <1>2, RecoveriesKept DEF rows, services
<1>4. WrittenByTheBook' /\ \A c \in Calls : CallInv(c)'
  BY <1>1 DEF IInv, WrittenByTheBook, CallInv, rows, services
<1>5. QED
  BY <1>2, <1>3, <1>4 DEF IInv

\* A recovery is reserved: its lines fit what is left of each component.
LEMMA PrepareRecoveryKeeps ==
  ASSUME IInv, NEW c \in Calls, NEW r \in Recoveries, PrepareRecovery(c, r)
  PROVE  IInv'
<1> DEFINE w   == Target[r]
           new == LinesOf(w, Amount[r])
<1>0. TypeOK /\ w \in WriteOffs /\ Amount[r] \in Nat
  BY RecoveriesAssumption DEF IInv
<1>1. Remaining(w) \in [Component -> Int] /\ \A x \in Component : Remaining(w)[x] >= 0
  <2>1. ASSUME NEW x \in Component PROVE amount[w][x] - Collected(w, Reserved, x) \in Int
    BY <1>0, CollectedIs DEF TypeOK
  <2>2. QED
    BY <2>1 DEF Remaining, PrepareRecovery
<1>2. new \in [Component -> Nat] /\ \A x \in Component : new[x] <= Remaining(w)[x]
  BY <1>0, <1>1, DebtAssumption, GreedyFits DEF LinesOf, Component
<1>3. /\ status[w] = "COMPLETED" /\ recovery[r] = "NONE" /\ Total(new, Component) = Amount[r]
      /\ recovery' = [recovery EXCEPT ![r] = "LEDGER_POSTING"]
      /\ lines' = [lines EXCEPT ![r] = new]
      /\ call' = [call EXCEPT ![c] = [at |-> "postRecovery", request |-> r]]
      /\ UNCHANGED <<loan, status, amount, recovered, services, aborts>>
  BY DEF PrepareRecovery, Begin
<1> HIDE DEF new
<1>4. TypeOK'
  BY <1>0, <1>2, <1>3 DEF TypeOK, Points, loan, services
<1>5. ASSUME NEW v \in WriteOffs, NEW x \in Component
      PROVE  Collected(v, Reserved, x)' <= amount'[v][x]
  <2> DEFINE before == On(v, Reserved)
             old    == Column(x)
             now    == Column(x)'
  <2>1. /\ Collected(v, Reserved, x) = Total(old, before) /\ Collected(v, Reserved, x) \in Nat
        /\ before \subseteq Recoveries /\ IsFiniteSet(before)
    BY <1>0, CollectedIs
  <2>2. Collected(v, Reserved, x)' = Total(now, On(v, Reserved)')
    BY DEF Collected, Column, On, Reserved
  <2>3. Collected(v, Reserved, x) <= amount[v][x] /\ amount'[v][x] = amount[v][x] /\ amount[v][x] \in Nat
    BY <1>0, <1>3 DEF IInv, RecoveriesFit, Reserved, TypeOK
  <2>4. r \notin before
    BY <1>3 DEF On, Reserved
  <2>5. \A q \in before : now[q] = old[q] /\ now[q] \in Nat
    BY <1>0, <1>3, <2>1, <2>4 DEF Column, TypeOK
  <2>6. now[r] = new[x] /\ new[x] \in Nat
    BY <1>0, <1>2, <1>3 DEF Column, TypeOK
  <2>7. Total(now, before) = Total(old, before)
    <3> HIDE DEF now, old, before
    <3> QED BY <2>1, <2>5, TotalSame
  <2>8. CASE v # w
    <3>1. On(v, Reserved)' = before
      BY <1>0, <1>3, <2>8 DEF On, Reserved, TypeOK
    <3>2. QED
      BY <2>1, <2>2, <2>3, <2>7, <3>1
  <2>9. CASE v = w
    <3>1. On(v, Reserved)' = before \cup {r}
      BY <1>0, <1>3, <2>9 DEF On, Reserved, TypeOK
    <3>2. Total(now, before \cup {r}) = now[r] + Total(now, before)
      <4>1. \A q \in before \cup {r} : now[q] \in Int
        BY <2>5, <2>6
      <4> HIDE DEF now, before
      <4>2. QED
        BY <2>1, <2>4, <4>1, TotalWith
    <3>3. new[x] <= amount[v][x] - Collected(v, Reserved, x)
      BY <1>2, <2>9 DEF Remaining
    <3>4. Collected(v, Reserved, x)' = new[x] + Collected(v, Reserved, x)
      BY <2>1, <2>2, <2>6, <2>7, <3>1, <3>2
    <3>5. QED
      BY <2>1, <2>3, <2>6, <3>3, <3>4
  <2>10. QED
    BY <2>8, <2>9
<1>6. RecoveriesFit'
  BY <1>5 DEF RecoveriesFit, Reserved
<1>7. RecoveredIsPosted'
  <2>1. ASSUME NEW v \in WriteOffs PROVE PostedOn(v)' = PostedOn(v)
    BY <1>0, <1>3 DEF PostedOn, TypeOK
  <2>2. QED
    BY <1>3, <2>1 DEF IInv, RecoveredIsPosted, services
<1>8. WrittenByTheBook'
  BY <1>3 DEF IInv, WrittenByTheBook, services
<1>9. ASSUME NEW d \in Calls PROVE CallInv(d)'
  BY <1>0, <1>3 DEF IInv, CallInv, services, TypeOK
<1>10. ASSUME NEW q \in Recoveries PROVE RecoveryInv(q)'
  BY <1>0, <1>3 DEF IInv, RecoveryInv, TypeOK
<1>11. QED
  BY <1>4, <1>6, <1>7, <1>8, <1>9, <1>10 DEF IInv

\* A recovery is counted, by exactly what the posted recoveries then add up to.
LEMMA RecordRecoveryKeeps ==
  ASSUME IInv, NEW c \in Calls, RecordRecovery(c)
  PROVE  IInv'
<1> DEFINE r == call[c].request
           w == Target[r]
<1>0. /\ TypeOK /\ r \in Recoveries /\ recovery[r] # "NONE" /\ r \in posted
      /\ w \in WriteOffs /\ Amount[r] \in Nat
  BY RecoveriesAssumption DEF IInv, CallInv, RecordRecovery, At
<1>1. /\ call' = [call EXCEPT ![c] = Idle]
      /\ UNCHANGED <<loan, status, amount, lines, services, aborts>>
      /\ \/ UNCHANGED <<recovery, recovered>>
         \/ /\ recovery[r] # "POSTED" /\ CanRecord(r)
            /\ recovery' = [recovery EXCEPT ![r] = "POSTED"]
            /\ recovered' = [recovered EXCEPT ![w] = @ + Amount[r]]
  BY DEF RecordRecovery, Request, End
<1>2. TypeOK'
  <2> DEFINE paid == recovered[w] + Amount[r]
  <2>1. paid \in Nat
    BY <1>0 DEF TypeOK
  <2>2. recovered' = recovered \/ recovered' = [recovered EXCEPT ![w] = paid]
    BY <1>0, <1>1 DEF TypeOK
  <2> HIDE DEF paid
  <2>3. recovered' \in [WriteOffs -> Nat]
    BY <1>0, <2>1, <2>2 DEF TypeOK
  <2>4. recovery' \in [Recoveries -> {"NONE", "LEDGER_POSTING", "POSTED"}]
    BY <1>0, <1>1 DEF TypeOK
  <2>5. call' \in [Calls -> [at : Points, request : WriteOffs \cup Recoveries \cup {NoRequest}]]
    BY <1>0, <1>1 DEF TypeOK, Idle, Points
  <2>6. QED
    BY <1>0, <1>1, <2>3, <2>4, <2>5 DEF TypeOK, loan, services
<1>3. \A v \in WriteOffs, x \in Component : Collected(v, Reserved, x)' = Collected(v, Reserved, x)
  <2>1. \A v \in WriteOffs : On(v, Reserved)' = On(v, Reserved)
    BY <1>0, <1>1 DEF On, Reserved, TypeOK
  <2>2. QED
    BY <1>1, <2>1 DEF On, Collected
<1>4. RecoveriesFit'
  BY <1>1, <1>3 DEF IInv, RecoveriesFit, Reserved
<1>5. RecoveredIsPosted'
  <2>1. CASE UNCHANGED <<recovery, recovered>>
    BY <1>1, <2>1 DEF IInv, RecoveredIsPosted, PostedOn, services
  <2>2. CASE /\ recovery[r] # "POSTED" /\ CanRecord(r)
             /\ recovery' = [recovery EXCEPT ![r] = "POSTED"]
             /\ recovered' = [recovered EXCEPT ![w] = @ + Amount[r]]
    <3>1. ASSUME NEW v \in WriteOffs
          PROVE  PostedOn(v)' = IF v = w THEN PostedOn(v) \cup {r} ELSE PostedOn(v)
      BY <1>0, <2>2 DEF PostedOn, TypeOK
    <3>2. recovered'[w] = Total(Amount, PostedOn(w) \cup {r})
      BY <1>0, <2>2 DEF CanRecord, TypeOK
    <3>3. \A v \in WriteOffs \ {w} : recovered'[v] = recovered[v]
      BY <1>0, <2>2 DEF TypeOK
    <3>4. ASSUME NEW v \in WriteOffs
          PROVE  recovered'[v] = Total(Amount, PostedOn(v)') /\ PostedOn(v)' \subseteq posted'
      BY <1>0, <1>1, <3>1, <3>2, <3>3, SMTT(30) DEF IInv, RecoveredIsPosted, services
    <3>5. QED
      BY <3>4 DEF RecoveredIsPosted
  <2>3. QED
    BY <1>1, <2>1, <2>2
<1>6. WrittenByTheBook'
  BY <1>1 DEF IInv, WrittenByTheBook, services
<1>7. ASSUME NEW d \in Calls PROVE CallInv(d)'
  <2>1. call'[d] = call[d] \/ call'[d] = Idle
    BY <1>0, <1>1 DEF TypeOK
  <2>2. \A q \in Recoveries : recovery[q] # "NONE" => recovery'[q] # "NONE"
    BY <1>0, <1>1 DEF TypeOK
  <2>3. QED
    BY <1>1, <2>1, <2>2 DEF IInv, CallInv, Idle, services
<1>8. ASSUME NEW q \in Recoveries PROVE RecoveryInv(q)'
  BY <1>0, <1>1 DEF IInv, RecoveryInv, TypeOK
<1>9. QED
  BY <1>2, <1>4, <1>5, <1>6, <1>7, <1>8 DEF IInv

\* Nothing happens.
LEMMA NothingKeeps == ASSUME IInv, UNCHANGED vars PROVE IInv'
<1>1. TypeOK'
  BY DEF IInv, TypeOK, vars, loan, rows, services
<1>2. RecoveriesFit' /\ RecoveredIsPosted' /\ \A r \in Recoveries : RecoveryInv(r)'
  BY <1>1, RecoveriesKept DEF vars, rows, services
<1>3. WrittenByTheBook' /\ \A c \in Calls : CallInv(c)'
  BY DEF IInv, WrittenByTheBook, CallInv, vars, rows, services
<1>4. QED
  BY <1>1, <1>2, <1>3 DEF IInv

\* Every step.
LEMMA NextKeeps == ASSUME IInv, [Next]_vars PROVE IInv'
<1>1. CASE \E c \in Calls : Step(c) \/ Abort(c)
  <2>1. PICK c \in Calls : Step(c) \/ Abort(c)
    BY <1>1
  <2>2. CASE Abort(c)
    BY <2>2, ReplayKeeps
  <2>3. CASE Step(c)
    BY <2>3, StepKeeps, RecordRecoveryKeeps DEF Step
  <2>4. QED
    BY <2>1, <2>2, <2>3
<1>2. CASE \E c \in Calls, w \in WriteOffs : Prepare(c, w) \/ Replay(c, w)
  BY <1>2, PrepareKeeps, ReplayKeeps
<1>3. CASE \E c \in Calls, r \in Recoveries : PrepareRecovery(c, r) \/ ReplayRecovery(c, r)
  BY <1>3, PrepareRecoveryKeeps, ReplayKeeps
<1>4. CASE RepaymentApplied \/ RepaymentReversed
  BY <1>4, OthersKeep
<1>5. CASE UNCHANGED vars
  BY <1>5, NothingKeeps
<1>6. QED
  BY <1>1, <1>2, <1>3, <1>4, <1>5 DEF Next

\* The invariant holds in every reachable state.
LEMMA Invariance == Spec => []IInv
<1>1. Init => IInv
  BY Starts
<1>2. IInv /\ [Next]_vars => IInv'
  BY NextKeeps
<1>3. QED
  BY <1>1, <1>2, PTL DEF Spec

\* The books of a write-off are in order in every reachable state: nothing is posted
\* unapproved, recoveries fit what was written off component by component, the books show
\* exactly what was posted, and no posted recovery is ever refused by them.
THEOREM Books == Spec => []BooksInOrder
<1>1. IInv => BooksInOrder
  BY ReservedCounts DEF IInv, BooksInOrder
<1>2. QED
  BY <1>1, Invariance, PTL

\* The amounts of a write-off never change after its preparation, nor its status once it is
\* COMPLETED, whatever calls overlap, die or come late.
THEOREM EvidenceFixed == Spec => EvidenceIsFixed
<1>1. IInv /\ [Next]_vars =>
        [\A w \in WriteOffs :
          /\ status[w] # "NONE" => amount'[w] = amount[w]
          /\ status[w] = "COMPLETED" => status'[w] = "COMPLETED"]_<<status, amount>>
  <2> SUFFICES ASSUME IInv, [Next]_vars, NEW w \in WriteOffs,
                      ~UNCHANGED <<status, amount>>
               PROVE  /\ status[w] # "NONE" => amount'[w] = amount[w]
                      /\ status[w] = "COMPLETED" => status'[w] = "COMPLETED"
    OBVIOUS
  <2>0. TypeOK
    BY DEF IInv
  <2>1. CASE \E c \in Calls, v \in WriteOffs : Prepare(c, v)
    BY <2>0, <2>1 DEF Prepare, TypeOK
  <2>2. CASE \E c \in Calls : RecordApproval(c)
    BY <2>0, <2>2 DEF RecordApproval, Open, TypeOK
  <2>3. CASE \E c \in Calls : Complete(c)
    BY <2>0, <2>3 DEF Complete, Open, TypeOK
  <2>4. QED
    BY <2>1, <2>2, <2>3
      DEF Next, Step, vars, rows, Replay, ConsumeApproval, PostLedger, PrepareRecovery, ReplayRecovery,
          PostRecovery, RecordRecovery, Abort, RepaymentApplied, RepaymentReversed
<1>2. QED
  BY <1>1, Invariance, PTL DEF Spec, EvidenceIsFixed

-----------------------------------------------------------------------------
(* The written-off debt. *)

\* At most one write-off is COMPLETED, and what is recorded is within the debt and not empty.
DebtInv ==
    /\ \A c \in Component : outstanding[c] <= Debt[c]
    /\ \A w \in WriteOffs : status[w] # "NONE" => \E c \in Component : amount[w][c] > 0
    /\ \A w \in WriteOffs, c \in Component : amount[w][c] <= Debt[c]
    /\ \A v, w \in Written : v = w

\* Nothing is written off yet.
LEMMA DebtStarts == ASSUME Init PROVE DebtInv
  BY DebtAssumption DEF Init, DebtInv, Written, None

\* The recorded debt after every step.
LEMMA DebtKept == ASSUME IInv, DebtInv, [Next]_vars PROVE DebtInv'
<1>0. TypeOK
  BY DEF IInv
<1>1. \A c \in Component : outstanding'[c] <= Debt[c]
  <2>1. CASE RepaymentApplied \/ RepaymentReversed
    <3>1. PICK x \in Component : outstanding' = [outstanding EXCEPT ![x] = 0]
                              \/ outstanding' = [outstanding EXCEPT ![x] = Debt[x]]
      BY <2>1 DEF RepaymentApplied, RepaymentReversed
    <3>2. ASSUME NEW c \in Component PROVE outstanding'[c] <= Debt[c]
      <4>1. outstanding'[c] = outstanding[c] \/ outstanding'[c] = 0 \/ outstanding'[c] = Debt[c]
        BY <1>0, <3>1 DEF TypeOK
      <4>2. outstanding[c] <= Debt[c] /\ Debt[c] \in Nat
        BY DebtAssumption DEF DebtInv
      <4>3. QED
        BY <4>1, <4>2
    <3>3. QED
      BY <3>2
  <2>3. CASE UNCHANGED outstanding
    BY <2>3 DEF DebtInv
  <2>4. QED
    BY <2>1, <2>3
      DEF Next, Step, vars, loan, Prepare, Replay, ConsumeApproval, RecordApproval, PostLedger, Complete,
          PrepareRecovery, ReplayRecovery, PostRecovery, RecordRecovery, Abort
<1>2. CASE \E c \in Calls, w \in WriteOffs : Prepare(c, w)
  <2>1. PICK c \in Calls, w \in WriteOffs : Prepare(c, w)
    BY <1>2
  <2>2. \E x \in Component : outstanding[x] > 0
    <3>1. ASSUME \A x \in Component : outstanding[x] = 0 PROVE FALSE
      BY <2>1, <3>1, FiniteParts, TotalOfZeros DEF Prepare
    <3>2. QED
      BY <1>0, <3>1 DEF TypeOK
  <2>3. /\ status' = [status EXCEPT ![w] = "APPROVAL_PENDING"] /\ status[w] = "NONE"
        /\ amount' = [amount EXCEPT ![w] = outstanding] /\ outstanding' = outstanding
    BY <2>1 DEF Prepare, loan
  <2>4. Written' = Written
    BY <1>0, <2>3 DEF Written, TypeOK
  <2>5. QED
    BY <1>0, <1>1, <2>2, <2>3, <2>4 DEF DebtInv, TypeOK
<1>3. CASE \E c \in Calls : RecordApproval(c)
  <2>1. /\ UNCHANGED amount
        /\ Written' = Written
        /\ \A w \in WriteOffs : status'[w] # "NONE" => status[w] # "NONE"
    BY <1>0, <1>3 DEF RecordApproval, Open, Written, TypeOK, IInv, CallInv, At, Request
  <2>2. QED
    BY <1>1, <2>1 DEF DebtInv
<1>4. CASE \E c \in Calls : Complete(c)
  <2>1. PICK c \in Calls : Complete(c)
    BY <1>4
  <2>2. Request(c) \in WriteOffs /\ status[Request(c)] # "NONE"
    BY <2>1 DEF Complete, IInv, CallInv, At, Request
  <2>3. UNCHANGED amount /\ \A w \in WriteOffs : status'[w] # "NONE" => status[w] # "NONE"
    BY <1>0, <2>1, <2>2 DEF Complete, TypeOK
  <2>4. Written' = Written \/ (Written = {} /\ Written' = {Request(c)})
    BY <1>0, <2>1, <2>2 DEF Complete, Written, Open, NoOtherCompleted, TypeOK
  <2>5. QED
    BY <1>1, <2>3, <2>4 DEF DebtInv
<1>5. CASE UNCHANGED <<status, amount>>
  BY <1>1, <1>5 DEF DebtInv, Written
<1>6. QED
  BY <1>2, <1>3, <1>4, <1>5
    DEF Next, Step, vars, rows, Replay, ConsumeApproval, PostLedger, PrepareRecovery, ReplayRecovery,
        PostRecovery, RecordRecovery, Abort, RepaymentApplied, RepaymentReversed

\* What the abstract debt sees.
WrittenOff(c)  == Total([w \in WriteOffs |-> amount[w][c]], Written)
PostedAll      == {r \in Recoveries : recovery[r] = "POSTED"}
RecoveredOf(c) == Total(Column(c), PostedAll)

\* The one write-off there is decides what was written off and what it was recovered on.
LEMMA OneWrittenOff ==
  ASSUME IInv, DebtInv, NEW w \in Written, NEW c \in Component
  PROVE  WrittenOff(c) = amount[w][c] /\ PostedAll = PostedOn(w)
<1>1. Written = {w} /\ w \in WriteOffs
  BY DEF DebtInv, Written
<1>2. WrittenOff(c) = amount[w][c]
  <2> DEFINE f == [v \in WriteOffs |-> amount[v][c]]
  <2>1. f[w] = amount[w][c] /\ f[w] \in Int
    BY <1>1 DEF IInv, TypeOK
  <2>2. WrittenOff(c) = Total(f, {w})
    BY <1>1 DEF WrittenOff
  <2> HIDE DEF f
  <2>3. Total(f, {} \cup {w}) = f[w] + Total(f, {})
    <3>1. IsFiniteSet({}) /\ w \notin {} /\ \A y \in {} \cup {w} : f[y] \in Int
      BY <2>1, FS_EmptySet
    <3>2. QED
      BY <3>1, TotalWith
  <2>4. {} \cup {w} = {w}
    OBVIOUS
  <2>5. QED
    BY <2>1, <2>2, <2>3, <2>4, TotalEmpty
<1>3. PostedAll = PostedOn(w)
  BY <1>1, RecoveriesAssumption DEF PostedAll, PostedOn, IInv, RecoveryInv, Written
<1>4. QED
  BY <1>2, <1>3

\* What is counted of a component is a number between nothing and what was written off of it.
LEMMA RecoveredFits ==
  ASSUME IInv, DebtInv, NEW c \in Component
  PROVE  /\ RecoveredOf(c) \in Nat
         /\ \A w \in Written : RecoveredOf(c) <= amount[w][c]
         /\ Written = {} => RecoveredOf(c) = 0
<1>0. TypeOK
  BY DEF IInv
<1>1. IsFiniteSet(PostedAll) /\ \A r \in Recoveries : Column(c)[r] \in Nat
  BY <1>0, FiniteParts DEF PostedAll, Column, TypeOK
<1>2. RecoveredOf(c) \in Nat
  BY <1>1, TotalOfNaturals DEF RecoveredOf, PostedAll
<1>3. ASSUME NEW w \in Written PROVE RecoveredOf(c) <= amount[w][c]
  <2>1. w \in WriteOffs /\ PostedAll = PostedOn(w)
    BY <1>3, OneWrittenOff DEF Written
  <2>2. PostedAll \subseteq On(w, Reserved)
    BY <2>1 DEF PostedOn, On, Reserved
  <2>3. /\ Collected(w, Reserved, c) = Total(Column(c), On(w, Reserved))
        /\ Collected(w, Reserved, c) \in Nat
        /\ IsFiniteSet(On(w, Reserved))
    BY <1>0, <2>1, CollectedIs
  <2>4. RecoveredOf(c) <= Total(Column(c), On(w, Reserved))
    <3>1. \A r \in On(w, Reserved) : Column(c)[r] \in Nat
      BY <1>1 DEF On
    <3>2. QED
      BY <2>2, <2>3, <3>1, TotalOfPart DEF RecoveredOf
  <2>5. Collected(w, Reserved, c) <= amount[w][c] /\ amount[w][c] \in Nat
    BY <1>0, <2>1 DEF IInv, RecoveriesFit, Reserved, TypeOK
  <2>6. QED
    BY <1>2, <2>3, <2>4, <2>5
<1>4. ASSUME Written = {} PROVE RecoveredOf(c) = 0
  <2>1. PostedAll = {}
    BY <1>4, RecoveriesAssumption DEF PostedAll, IInv, RecoveryInv, Written
  <2>2. QED
    BY <2>1, TotalEmpty DEF RecoveredOf
<1>5. QED
  BY <1>2, <1>3, <1>4

\* Both, as one formula.
LEMMA RecoveredFitsAlways ==
    IInv /\ DebtInv => \A c \in Component :
        /\ RecoveredOf(c) \in Nat
        /\ \A w \in Written : RecoveredOf(c) <= amount[w][c] /\ WrittenOff(c) = amount[w][c]
  BY RecoveredFits, OneWrittenOff

\* The first state, as the debt sees it.
LEMMA DebtImplementedInit == ASSUME Init PROVE WrittenDebt!Init
<1>1. Written = {} /\ {r \in Recoveries : recovery[r] = "POSTED"} = {}
  BY DEF Init, Written
<1>2. QED
  BY <1>1, TotalEmpty DEF WrittenDebt!Init, WrittenDebt!Nothing

\* Every step is one of the debt, or none.
LEMMA DebtImplementedStep ==
  ASSUME IInv, DebtInv, IInv', DebtInv', [Next]_vars
  PROVE  WrittenDebt!Next \/ UNCHANGED WrittenDebt!vars
<1> DEFINE isWritten == Written # {}
           written   == [c \in Component |-> WrittenOff(c)]
           paid      == [c \in Component |-> RecoveredOf(c)]
           Limit     == Total(Debt, Component)
<1>0. TypeOK /\ TypeOK'
  BY DEF IInv
<1>a. UNCHANGED <<Written, written, paid>> => UNCHANGED WrittenDebt!vars
  BY DEF WrittenDebt!vars, WrittenOff, RecoveredOf, Column, PostedAll
<1>b. ASSUME ~isWritten, isWritten', written' \in [Component -> 0..Limit],
             \E c \in Component : written'[c] > 0, UNCHANGED paid
      PROVE  WrittenDebt!Next
  BY <1>b DEF WrittenDebt!Next, WrittenDebt!WriteDown, WrittenOff, RecoveredOf, Column, PostedAll
<1>c. ASSUME isWritten, UNCHANGED <<Written, written>>, paid' \in [Component -> 0..Limit],
             \A c \in Component : paid[c] <= paid'[c] /\ paid'[c] <= written[c]
      PROVE  WrittenDebt!Next
  BY <1>c DEF WrittenDebt!Next, WrittenDebt!Collect, WrittenOff, RecoveredOf, Column, PostedAll
<1>d. \A c \in Component : Debt[c] \in Nat /\ Debt[c] <= Limit /\ Limit \in Nat
  BY FiniteParts, DebtAssumption, TotalOfNaturals
<1>e. \A c \in Component :
        /\ RecoveredOf(c) \in Nat
        /\ \A w \in Written : RecoveredOf(c) <= amount[w][c] /\ WrittenOff(c) = amount[w][c]
  BY RecoveredFitsAlways
<1>f. (\A c \in Component :
        /\ RecoveredOf(c) \in Nat
        /\ \A w \in Written : RecoveredOf(c) <= amount[w][c] /\ WrittenOff(c) = amount[w][c])'
  BY RecoveredFitsAlways, PTL
<1>1. ASSUME UNCHANGED <<Written, PostedAll>>,
             \A w \in Written : amount'[w] = amount[w],
             \A r \in PostedAll : lines'[r] = lines[r]
      PROVE  UNCHANGED WrittenDebt!vars
  <2>1. ASSUME NEW c \in Component PROVE WrittenOff(c)' = WrittenOff(c)
    <3>1. CASE Written = {}
      BY <1>1, <3>1, TotalEmpty DEF WrittenOff
    <3>2. CASE Written # {}
      <4>1. PICK w \in Written : TRUE
        BY <3>2
      <4>2. QED
        BY <1>1, <1>e, <1>f, <4>1
    <3>3. QED
      BY <3>1, <3>2
  <2>2. ASSUME NEW c \in Component PROVE RecoveredOf(c)' = RecoveredOf(c)
    <3>1. \A r \in PostedAll : Column(c)[r] = Column(c)'[r]
      BY <1>1 DEF Column, PostedAll
    <3>2. IsFiniteSet(PostedAll)
      BY FiniteParts DEF PostedAll
    <3>3. Total(Column(c), PostedAll) = Total(Column(c)', PostedAll)
      BY <3>1, <3>2, TotalSame
    <3>4. QED
      BY <1>1, <3>3 DEF RecoveredOf
  <2>3. UNCHANGED <<Written, written, paid>>
    BY <1>1, <2>1, <2>2
  <2>4. QED
    BY <1>a, <2>3
<1>2. ASSUME NEW c \in Calls, Complete(c), Written' # Written PROVE WrittenDebt!Next
  <2> DEFINE w == Request(c)
  <2>1. w \in WriteOffs
    BY <1>2 DEF Complete, IInv, CallInv, At, Request
  <2>2. Written = {} /\ Written' = {w} /\ status'[w] = "COMPLETED"
    BY <1>0, <1>2, <2>1 DEF Complete, Written, Open, NoOtherCompleted, TypeOK
  <2>3. \A x \in Component : written'[x] = amount'[w][x]
    BY <1>f, <2>2
  <2>4. /\ \A x \in Component : amount'[w][x] \in Nat /\ amount'[w][x] <= Debt[x]
        /\ \E x \in Component : amount'[w][x] > 0
    BY <1>0, <2>1, <2>2, SMTT(30) DEF DebtInv, TypeOK
  <2>5. ASSUME NEW x \in Component PROVE written'[x] \in 0..Limit
    BY <1>d, <2>3, <2>4
  <2>6. written' \in [Component -> 0..Limit] /\ \E x \in Component : written'[x] > 0
    BY <2>3, <2>4, <2>5
  <2>7. UNCHANGED paid
    BY <1>2 DEF Complete, RecoveredOf, Column, PostedAll
  <2>8. QED
    BY <1>b, <2>2, <2>6, <2>7
<1>3. ASSUME NEW c \in Calls, RecordRecovery(c), PostedAll' # PostedAll PROVE WrittenDebt!Next
  <2> DEFINE r == call[c].request
  <2>1. /\ r \in Recoveries /\ PostedAll \subseteq PostedAll' /\ PostedAll' \subseteq Recoveries
        /\ recovery[r] # "NONE" /\ Target[r] \in Written
        /\ UNCHANGED <<status, amount, lines>>
    BY <1>0, <1>3, RecoveriesAssumption
      DEF RecordRecovery, IInv, CallInv, RecoveryInv, At, Request, PostedAll, TypeOK, Written
  <2>2. UNCHANGED <<Written, written>>
    BY <2>1 DEF Written, WrittenOff
  <2>3. ASSUME NEW x \in Component PROVE paid[x] <= paid'[x] /\ paid'[x] <= written[x] /\ paid'[x] \in 0..Limit
    <3> DEFINE w == Target[r]
    <3>1. RecoveredOf(x) <= RecoveredOf(x)'
      <4>1. Column(x)' = Column(x) /\ \A q \in PostedAll' : Column(x)[q] \in Nat
        BY <1>0, <2>1 DEF Column, TypeOK
      <4>2. IsFiniteSet(PostedAll')
        BY <2>1, FiniteParts
      <4>3. Total(Column(x), PostedAll) <= Total(Column(x), PostedAll')
        BY <2>1, <4>1, <4>2, TotalOfPart
      <4>4. QED
        BY <4>1, <4>3 DEF RecoveredOf
    <3>2. /\ w \in Written /\ w \in Written' /\ w \in WriteOffs
          /\ amount'[w][x] = amount[w][x] /\ amount[w][x] \in Nat /\ amount[w][x] <= Debt[x]
      BY <1>0, <2>1, <2>2 DEF DebtInv, TypeOK, Written
    <3>3. RecoveredOf(x)' \in Nat /\ RecoveredOf(x)' <= amount[w][x] /\ WrittenOff(x) = amount[w][x]
      BY <1>e, <1>f, <3>2
    <3>4. RecoveredOf(x)' \in 0..Limit
      BY <1>d, <3>2, <3>3
    <3>5. QED
      BY <3>1, <3>3, <3>4
  <2>4. paid' \in [Component -> 0..Limit]
    BY <2>3
  <2>5. QED
    BY <1>c, <2>1, <2>2, <2>3, <2>4
<1>4. CASE \E c \in Calls : Complete(c)
  <2>1. PICK c \in Calls : Complete(c)
    BY <1>4
  <2>2. UNCHANGED <<PostedAll, amount, lines>>
    BY <2>1 DEF Complete, PostedAll
  <2>3. QED
    BY <1>1, <1>2, <2>1, <2>2
<1>5. CASE \E c \in Calls : RecordRecovery(c)
  <2>1. PICK c \in Calls : RecordRecovery(c)
    BY <1>5
  <2>2. UNCHANGED <<Written, amount, lines>>
    BY <2>1 DEF RecordRecovery, Written
  <2>3. QED
    BY <1>1, <1>3, <2>1, <2>2
<1>6. CASE \E c \in Calls, w \in WriteOffs : Prepare(c, w)
  <2>1. /\ UNCHANGED <<Written, PostedAll, lines>>
        /\ \A w \in Written : amount'[w] = amount[w]
    BY <1>0, <1>6 DEF Prepare, Written, PostedAll, TypeOK
  <2>2. QED
    BY <1>1, <2>1
<1>7. CASE \E c \in Calls, r \in Recoveries : PrepareRecovery(c, r)
  <2>1. /\ UNCHANGED <<Written, PostedAll, amount>>
        /\ \A r \in PostedAll : lines'[r] = lines[r]
    BY <1>0, <1>7 DEF PrepareRecovery, Written, PostedAll, TypeOK
  <2>2. QED
    BY <1>1, <2>1
<1>8. CASE \E c \in Calls : RecordApproval(c)
  <2>1. UNCHANGED <<Written, PostedAll, amount, lines>>
    BY <1>0, <1>8 DEF RecordApproval, Open, Written, PostedAll, TypeOK
  <2>2. QED
    BY <1>1, <2>1
<1>9. CASE UNCHANGED <<status, amount, recovery, lines>>
  <2>1. UNCHANGED <<Written, PostedAll, amount, lines>>
    BY <1>9 DEF Written, PostedAll
  <2>2. QED
    BY <1>1, <2>1
<1>10. QED
  BY <1>4, <1>5, <1>6, <1>7, <1>8, <1>9
    DEF Next, Step, vars, rows, Replay, ConsumeApproval, PostLedger, ReplayRecovery, PostRecovery, Abort,
        RepaymentApplied, RepaymentReversed

\* Whatever calls overlap, die or are repeated, a loan's debt is written off once, with every
\* component of it, and recovered within what was written off of each.
THEOREM DebtWritten == Spec => DebtWrittenOnce
<1>1. Init => WrittenDebt!Init /\ DebtInv
  BY DebtImplementedInit, DebtStarts
<1>2. IInv /\ DebtInv /\ [Next]_vars => DebtInv'
  BY DebtKept
<1>3. IInv /\ DebtInv /\ IInv' /\ DebtInv' /\ [Next]_vars => [WrittenDebt!Next]_WrittenDebt!vars
  BY DebtImplementedStep
<1>4. QED
  BY <1>1, <1>2, <1>3, Invariance, PTL DEF Spec, DebtWrittenOnce, WrittenDebt!Spec
===============================================================================
