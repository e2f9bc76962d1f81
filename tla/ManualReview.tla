------------------------------ MODULE ManualReview ------------------------------
(***************************************************************************)
(* ManualUnderwritingService: the review of an application that the        *)
(* automated evaluation has referred.  A case is opened, assigned to a     *)
(* reviewer under a lease, recommended on and decided with an approval;    *)
(* the conditions of a conditional approval are then resolved one by one.  *)
(*                                                                         *)
(* The resolution of a condition is a transaction of three steps: rows are *)
(* locked (a waiver then waits for its approval), the condition is written *)
(* and the others are read, and the changes are committed.  The other      *)
(* operations hold the rows they decide on from their first read, and are  *)
(* one step each.  An application has one case: a DECIDED one leaves it    *)
(* APPROVED or REJECTED.                                                   *)
(***************************************************************************)
EXTENDS Integers, FiniteSets

CONSTANTS
    Applications, \* applications of the customer
    Reviewers,    \* who may be assigned
    NoReviewer,   \* reviewer of a case that is not assigned
    Conditions,   \* conditions a recommendation may come with
    Resolvers,    \* requests that resolve a condition at the same time
    MaxAssigns,   \* bound: how often a case is assigned
    MaxFaults     \* bound: how many resolutions fail or die

VARIABLES
    application,    \* loan_applications.status
    review,         \* loan_manual_review_cases.status, NONE before there is one
    lockVersion,    \* its lock_version
    reviewer,       \* its assigned_reviewer_id
    leased,         \* applications whose reviewer's lease has not expired
    recommendation, \* the recommendation of the case
    condition,      \* its loan_manual_decision_conditions; RESOLVED is SATISFIED or WAIVED
    decision,       \* the MANUAL decision of the application
    resolving,      \* the resolutions in progress
    faults          \* failures so far

case == <<review, lockVersion, reviewer, leased>>
vars == <<application, case, recommendation, condition, decision, resolving, faults>>

Kinds == {"APPROVED", "REJECTED", "CONDITIONAL_APPROVAL"}
Idle  == [at |-> "idle", row |-> <<>>, final |-> FALSE]

TypeOK ==
    /\ review \in [Applications -> {"NONE", "OPEN", "ASSIGNED", "PENDING_APPROVAL", "DECIDED"}]
    /\ lockVersion \in [Applications -> Nat]
    /\ reviewer \in [Applications -> Reviewers \cup {NoReviewer}]
    /\ leased \subseteq Applications
    /\ recommendation \in [Applications -> Kinds \cup {"NONE"}]
    /\ condition \in [Applications \X Conditions -> {"NONE", "PENDING", "RESOLVED"}]
    /\ decision \in [Applications -> Kinds \cup {"NONE"}]
    /\ resolving \in [Resolvers -> [at : {"idle", "write", "commit"},
                                    row : (Applications \X Conditions) \cup {<<>>}, final : BOOLEAN]]
    /\ faults \in 0..MaxFaults

Init ==
    /\ review = [a \in Applications |-> "NONE"]
    /\ lockVersion = [a \in Applications |-> 0]
    /\ reviewer = [a \in Applications |-> NoReviewer]
    /\ leased = {}
    /\ recommendation = [a \in Applications |-> "NONE"]
    /\ condition = [row \in Applications \X Conditions |-> "NONE"]
    /\ decision = [a \in Applications |-> "NONE"]
    /\ resolving = [r \in Resolvers |-> Idle]
    /\ faults = 0

-----------------------------------------------------------------------------
Advance(a, status) ==
    /\ review' = [review EXCEPT ![a] = status]
    /\ lockVersion' = [lockVersion EXCEPT ![a] = @ + 1]

Open(a) ==
    /\ application[a] = "UNDER_REVIEW" /\ review[a] = "NONE"
    /\ review' = [review EXCEPT ![a] = "OPEN"]
    /\ UNCHANGED <<application, lockVersion, reviewer, leased, recommendation, condition,
                   decision, resolving, faults>>

\* Whoever knows the lock version assigns the case, also one with a live lease.
Assign(a, r) ==
    /\ review[a] \in {"OPEN", "ASSIGNED"} /\ lockVersion[a] < MaxAssigns
    /\ Advance(a, "ASSIGNED")
    /\ reviewer' = [reviewer EXCEPT ![a] = r]
    /\ leased' = leased \cup {a}
    /\ UNCHANGED <<application, recommendation, condition, decision, resolving, faults>>

LeaseExpires(a) ==
    /\ review[a] = "ASSIGNED" /\ a \in leased
    /\ leased' = leased \ {a}
    /\ UNCHANGED <<application, review, lockVersion, reviewer, recommendation, condition,
                   decision, resolving, faults>>

\* The reviewer recommends under the lease.  A conditional approval needs conditions,
\* the other recommendations may have some as well.
Recommend(a, kind, conditions) ==
    /\ review[a] = "ASSIGNED" /\ a \in leased
    /\ kind = "CONDITIONAL_APPROVAL" => conditions # {}
    /\ recommendation' = [recommendation EXCEPT ![a] = kind]
    /\ condition' = [row \in DOMAIN condition |->
           IF row[1] = a /\ row[2] \in conditions THEN "PENDING" ELSE condition[row]]
    /\ Advance(a, "PENDING_APPROVAL")
    /\ UNCHANGED <<application, reviewer, leased, decision, resolving, faults>>

\* The recommendation is decided as approved, once per application: a refused approval
\* and a second decision (uq_manual_decision_application) change nothing.  A
\* conditional approval leaves the case and the application as they are.
Decide(a) ==
    /\ review[a] = "PENDING_APPROVAL" /\ decision[a] = "NONE"
    /\ decision' = [decision EXCEPT ![a] = recommendation[a]]
    /\ \/ /\ recommendation[a] = "CONDITIONAL_APPROVAL"
          /\ Advance(a, "PENDING_APPROVAL") /\ UNCHANGED application
       \/ /\ recommendation[a] # "CONDITIONAL_APPROVAL" /\ Advance(a, "DECIDED")
          /\ application' = [application EXCEPT ![a] = recommendation[a]]
    /\ UNCHANGED <<reviewer, leased, recommendation, condition, resolving, faults>>

-----------------------------------------------------------------------------
(* resolveCondition. *)

At(r, point) == resolving[r].at = point
End(r) == resolving' = [resolving EXCEPT ![r] = Idle]

Rows(a, status) == {row \in DOMAIN condition : row[1] = a /\ condition[row] = status}
Cleared(a)      == Rows(a, "PENDING") = {}

\* Mutant: only the condition's row is locked, not the decision's.
LocksCondition(row) == {row}

\* What the first read locks: the condition and, joined with it, the decision.
Locks(row) == {row, <<row[1]>>}

Busy      == {r \in Resolvers : ~At(r, "idle")}
Free(row) == \A r \in Busy : Locks(row) \cap Locks(resolving[r].row) = {}

\* The condition must be one of a conditional approval; one already resolved otherwise
\* is refused, and one of a DECIDED case only answered.  The transaction waits for
\* the rows it locks.
Resolve(r, row) ==
    /\ At(r, "idle") /\ Free(row)
    /\ decision[row[1]] = "CONDITIONAL_APPROVAL" /\ condition[row] # "NONE"
    /\ review[row[1]] # "DECIDED"
    /\ resolving' = [resolving EXCEPT ![r] = [at |-> "write", row |-> row, final |-> FALSE]]
    /\ UNCHANGED <<application, case, recommendation, condition, decision, faults>>

\* No committed condition is PENDING but the one just written.
LastResolved(row) == Rows(row[1], "PENDING") \subseteq {row}

\* The condition is written, and the transaction sees whether others are PENDING: its
\* own write, and what is committed.
Write(r) ==
    /\ At(r, "write")
    /\ resolving' = [resolving EXCEPT ![r].at = "commit", ![r].final = LastResolved(resolving[r].row)]
    /\ UNCHANGED <<application, case, recommendation, condition, decision, faults>>

\* The resolution takes effect, and with the last one the approval.
Commit(r) ==
    LET row == resolving[r].row  a == row[1]  IN
    /\ At(r, "commit")
    /\ condition' = [condition EXCEPT ![row] = "RESOLVED"]
    /\ \/ /\ resolving[r].final /\ application[a] = "UNDER_REVIEW"
          /\ application' = [application EXCEPT ![a] = "APPROVED"]
          /\ Advance(a, "DECIDED")
       \/ /\ ~resolving[r].final \/ application[a] # "UNDER_REVIEW"
          /\ UNCHANGED <<application, review, lockVersion>>
    /\ End(r)
    /\ UNCHANGED <<reviewer, leased, recommendation, decision, faults>>

\* The waiver is refused, or the request dies: the transaction is rolled back.
Fail(r) ==
    /\ ~At(r, "idle") /\ faults < MaxFaults
    /\ faults' = faults + 1
    /\ End(r)
    /\ UNCHANGED <<application, case, recommendation, condition, decision>>

Step(r) == Write(r) \/ Commit(r)

Next ==
    \/ \E a \in Applications :
          \/ Open(a) \/ LeaseExpires(a) \/ Decide(a)
          \/ \E r \in Reviewers : Assign(a, r)
          \/ \E kind \in Kinds, conditions \in SUBSET Conditions : Recommend(a, kind, conditions)
    \/ \E r \in Resolvers : Step(r) \/ Fail(r) \/ \E row \in Applications \X Conditions : Resolve(r, row)
===============================================================================
