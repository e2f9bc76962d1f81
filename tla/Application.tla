------------------------------ MODULE Application ------------------------------
(***************************************************************************)
(* LoanApplicationService for the applications of one customer: submission *)
(* with the collection of evidence, and the automated evaluation.  A       *)
(* submission is one transaction, then the evidence is gathered from the   *)
(* eligibility service and the customer's loans and stored in another one. *)
(* An evaluation reads the latest evidence before it locks the             *)
(* application.                                                            *)
(*                                                                         *)
(* An application is named by the idempotency key it is submitted with.    *)
(* KYC, identity risk and affordability are one verdict of the evidence: a *)
(* BLOCK of the identity fails, and with a risk still to be looked at the  *)
(* evidence is not READY.                                                  *)
(***************************************************************************)
EXTENDS Integers, FiniteSets

CONSTANTS
    Applications,   \* applications of the customer
    Automatic,      \* those of a product whose approval may be automatic
    WithPolicy,     \* those of a product version with an underwriting policy
    MaxActiveLoans, \* underwriting policy: loans a customer may already have
    Calls,          \* requests the service handles at the same time
    NoApplication,  \* application of an idle call
    MaxFaults       \* bound: how many calls fail or die

VARIABLES
    application, \* loan_applications.status
    evidence,    \* the snapshot latest_underwriting_snapshot_id names
    expired,     \* applications whose latest evidence has expired
    evaluated,   \* the evidence of the COMPLETED evaluation, its input_hash
    loan,        \* status of the loan an application has led to
    call,        \* the calls in progress
    faults       \* calls that failed so far

vars == <<application, evidence, expired, evaluated, loan, call, faults>>

Points     == {"idle", "collect", "store", "decide"}
Verdicts   == {"CLEAR", "FAILING", "ACTION_REQUIRED"}
Evidence   == [verdict : Verdicts, loans : 0..Cardinality(Applications), version : Nat]
NoEvidence == [verdict |-> "ACTION_REQUIRED", loans |-> 0, version |-> 0]
Idle       == [at |-> "idle", application |-> NoApplication, evidence |-> NoEvidence]

TypeOK ==
    /\ application \in [Applications ->
           {"NONE", "SUBMITTED", "UNDER_REVIEW", "APPROVED", "REJECTED"}]
    /\ evidence \in [Applications -> Evidence]
    /\ expired \subseteq Applications
    /\ evaluated \in [Applications -> Evidence]
    /\ \A a \in Applications : evaluated[a].version <= evidence[a].version
    /\ loan \in [Applications -> {"NONE", "APPROVED", "DISBURSED", "ACTIVE"}]
    /\ call \in [Calls -> [at : Points, application : Applications \cup {NoApplication},
                           evidence : Evidence]]
    /\ faults \in 0..MaxFaults

Init ==
    /\ application = [a \in Applications |-> "NONE"]
    /\ evidence = [a \in Applications |-> NoEvidence]
    /\ expired = {}
    /\ evaluated = [a \in Applications |-> NoEvidence]
    /\ loan = [a \in Applications |-> "NONE"]
    /\ call = [c \in Calls |-> Idle]
    /\ faults = 0

-----------------------------------------------------------------------------
At(c, point) == call[c].at = point
End(c) == call' = [call EXCEPT ![c] = Idle]
Begin(c, point, a, e) ==
    call' = [call EXCEPT ![c] = [at |-> point, application |-> a, evidence |-> e]]

HasEvidence(a) == evidence[a].version > 0
IsEvaluated(a) == evaluated[a].version > 0

\* Mutant: a submission sent again always collects the evidence again.
CollectsAlways(a) == TRUE

\* Mutant: a submission sent again is only answered.
CollectsNever(a) == FALSE

\* What a submission found recorded still has to do: underwriting_status is PENDING_EVIDENCE.
Collects(a) == ~HasEvidence(a)

\* The application is recorded, or found under its key; its evidence is then collected,
\* by every submission that gets here before there is some.
Submit(c, a) ==
    /\ At(c, "idle")
    /\ \/ application[a] = "NONE" /\ application' = [application EXCEPT ![a] = "SUBMITTED"]
       \/ application[a] # "NONE" /\ Collects(a) /\ UNCHANGED application
    /\ Begin(c, "collect", a, NoEvidence)
    /\ UNCHANGED <<evidence, expired, evaluated, loan, faults>>

\* Mutant: only loans already paid out are counted.
CountedActive == {b \in Applications : loan[b] = "ACTIVE"}

\* The customer's loans that count as exposure; DISBURSED is not among their statuses.
Counted == {b \in Applications : loan[b] \in {"APPROVED", "ACTIVE"}}

\* The eligibility service answers and the loans are counted.
Collect(c) ==
    /\ At(c, "collect")
    /\ \E v \in Verdicts : Begin(c, "store", call[c].application,
                                 [verdict |-> v, loans |-> Cardinality(Counted), version |-> 0])
    /\ UNCHANGED <<application, evidence, expired, evaluated, loan, faults>>

\* The evidence becomes the latest of the application, whatever that has come to.
Store(c) ==
    LET a == call[c].application IN
    /\ At(c, "store")
    /\ evidence' = [evidence EXCEPT ![a] = [call[c].evidence EXCEPT !.version = evidence[a].version + 1]]
    /\ expired' = expired \ {a}
    /\ End(c)
    /\ UNCHANGED <<application, evaluated, loan, faults>>

\* A call dies, the eligibility service fails, or a concurrent collection has taken
\* the snapshot's version: the application stays as it is.
Fail(c) ==
    /\ ~At(c, "idle") /\ faults < MaxFaults
    /\ faults' = faults + 1
    /\ End(c)
    /\ UNCHANGED <<application, evidence, expired, evaluated, loan>>

\* evaluate starts from the latest evidence, which must be READY (evidence expired by
\* now is refused at once); an application evaluated before is only answered.
Evaluate(c, a) ==
    /\ At(c, "idle")
    /\ HasEvidence(a) /\ evidence[a].verdict # "ACTION_REQUIRED" /\ a \notin expired
    /\ ~IsEvaluated(a)
    /\ Begin(c, "decide", a, evidence[a])
    /\ UNCHANGED <<application, evidence, expired, evaluated, loan, faults>>

\* Every rule of evaluateRules passes, for a product with a policy.
Passes(e) == e.verdict = "CLEAR" /\ e.loans <= MaxActiveLoans

\* Mutant: without a policy there is no rule to fail.
OutcomePolicyIgnored(a, e) ==
    IF a \in WithPolicy /\ ~Passes(e) THEN "REJECTED"
    ELSE IF a \in Automatic THEN "APPROVED" ELSE "UNDER_REVIEW"

\* The decision of evaluate: without a policy it is REFER whatever the evidence says,
\* and so it is where what passes is not approved automatically.
Outcome(a, e) ==
    IF a \in WithPolicy /\ ~Passes(e) THEN "REJECTED"
    ELSE IF a \in Automatic \cap WithPolicy THEN "APPROVED" ELSE "UNDER_REVIEW"

\* Evidence that is still the latest may be found expired.
Stale(a, e) == a \in expired /\ e = evidence[a]

\* The application is locked and must be SUBMITTED, the evidence read unexpired: the
\* evaluation, its decision and the new status are then recorded together.
Decide(c) ==
    LET a == call[c].application  e == call[c].evidence IN
    /\ At(c, "decide")
    /\ \/ /\ application[a] = "SUBMITTED" /\ ~Stale(a, e)
          /\ application' = [application EXCEPT ![a] = Outcome(a, e)]
          /\ evaluated' = [evaluated EXCEPT ![a] = e]
       \/ /\ application[a] # "SUBMITTED" \/ Stale(a, e)
          /\ UNCHANGED <<application, evaluated>>
    /\ End(c)
    /\ UNCHANGED <<evidence, expired, loan, faults>>

\* The latest evidence of an application that waits for its evaluation expires.
Expire(a) ==
    /\ application[a] = "SUBMITTED" /\ HasEvidence(a)
    /\ expired' = expired \cup {a}
    /\ UNCHANGED <<application, evidence, evaluated, loan, call, faults>>

Step(c) == Collect(c) \/ Store(c) \/ Decide(c)

Next ==
    \/ \E c \in Calls : Step(c) \/ Fail(c) \/ \E a \in Applications : Submit(c, a) \/ Evaluate(c, a)
    \/ \E a \in Applications : Expire(a)

\* What is ready runs, and clients send their command again until it is done.
StepsEnd == \A c \in Calls : WF_vars(Step(c))
Resent(a) == SF_vars(\E c \in Calls : Submit(c, a)) /\ SF_vars(\E c \in Calls : Evaluate(c, a))
===============================================================================
