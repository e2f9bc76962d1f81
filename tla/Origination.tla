------------------------------ MODULE Origination ------------------------------
(***************************************************************************)
(* How the applications of one customer become loans: modules Application, *)
(* ManualReview and Offer on the rows they share.  The loans made here are *)
(* paid out and repaid by other modules, of which only the status is seen. *)
(***************************************************************************)
EXTENDS Integers, Sequences, FiniteSets

CONSTANTS
    Applications, Automatic, WithPolicy, MaxActiveLoans, Calls, NoApplication, MaxFaults,
    Reviewers, NoReviewer, Conditions, Resolvers, MaxAssigns,
    Requests, NoRow, MaxOffers

ASSUME ActorsAssumption ==
    /\ Automatic \subseteq Applications /\ WithPolicy \subseteq Applications /\ NoApplication \notin Applications
    /\ NoReviewer \notin Reviewers
ASSUME FiniteAssumption == IsFiniteSet(Applications) /\ IsFiniteSet(Calls)
ASSUME BoundsAssumption ==
    MaxActiveLoans \in Nat /\ MaxFaults \in Nat /\ MaxAssigns \in Nat /\ MaxOffers \in Nat

VARIABLES
    application, loan,                                      \* shared
    evidence, expired, evaluated, call,                     \* Application
    review, lockVersion, reviewer, leased, recommendation,  \* ManualReview
    condition, decision, resolving,
    offers, lapsed, request,                                \* Offer
    faults                                                  \* of all of them

App    == INSTANCE Application
Manual == INSTANCE ManualReview
Off    == INSTANCE Offer

underwriting == <<evidence, expired, evaluated, call>>
manual       == <<review, lockVersion, reviewer, leased, recommendation, condition,
                  decision, resolving>>
contracting  == <<offers, lapsed, request>>
vars         == <<application, loan, underwriting, manual, contracting, faults>>

TypeOK == App!TypeOK /\ Manual!TypeOK /\ Off!TypeOK

Init == App!Init /\ Manual!Init /\ Off!Init

-----------------------------------------------------------------------------
Underwrite == App!Next /\ UNCHANGED <<manual, contracting>>
Review     == Manual!Next /\ UNCHANGED <<loan, underwriting, contracting>>

\* An offer is issued on an application none of whose conditions is PENDING.
Offerable(a) == Manual!Cleared(a)

Contract ==
    /\ \/ \E q \in Requests, a \in Applications : Off!Issue(q, a, Offerable(a))
       \/ \E q \in Requests, o \in Off!Offers : Off!Accept(q, o)
       \/ \E q \in Requests : Off!Step(q)
       \/ \E o \in Off!Offers : Off!Lapse(o)
    /\ UNCHANGED <<underwriting, manual, faults>>

\* A loan is disbursed, and ACTIVE with its first repayment.
Proceed(a) ==
    /\ \/ loan[a] = "APPROVED" /\ loan' = [loan EXCEPT ![a] = "DISBURSED"]
       \/ loan[a] = "DISBURSED" /\ loan' = [loan EXCEPT ![a] = "ACTIVE"]
    /\ UNCHANGED <<application, underwriting, manual, contracting, faults>>

Next == Underwrite \/ Review \/ Contract \/ \E a \in Applications : Proceed(a)

Spec == Init /\ [][Next]_vars

FairSpec == Spec /\ App!StepsEnd /\ Off!StepsEnd /\ \A a \in Applications : App!Resent(a)

-----------------------------------------------------------------------------
(* Properties. *)

\* Evidence that keeps the underwriting policy.
Good(e) == e.verdict = "CLEAR" /\ e.loans <= MaxActiveLoans

\* What the evaluation of an application has found.
FoundGood(a) == a \in WithPolicy /\ App!IsEvaluated(a) /\ Good(evaluated[a])
FoundBad(a)  == a \in WithPolicy /\ App!IsEvaluated(a) /\ ~Good(evaluated[a])
Referred(a)  ==
    App!IsEvaluated(a) /\ (a \in WithPolicy => a \notin Automatic /\ Good(evaluated[a]))

\* An application is REJECTED by an evaluation of evidence against its policy, or by a
\* manual decision; it is APPROVED by an evaluation of good evidence, if its product
\* allows that, or by a manual decision, a conditional one only with no condition
\* PENDING, whoever resolved which of them meanwhile.  What is reviewed or decided
\* manually was referred: its evidence was good, or there was no policy to tell.
StatusHasItsGrounds ==
    \A a \in Applications :
        /\ application[a] = "APPROVED" =>
              \/ decision[a] = "NONE" /\ a \in Automatic /\ FoundGood(a)
              \/ decision[a] = "APPROVED"
              \/ decision[a] = "CONDITIONAL_APPROVAL" /\ Manual!Cleared(a)
        /\ application[a] = "REJECTED" =>
              \/ decision[a] = "NONE" /\ FoundBad(a)
              \/ decision[a] = "REJECTED"
        /\ application[a] = "UNDER_REVIEW" \/ decision[a] # "NONE" => Referred(a)
        /\ review[a] = "DECIDED" <=> decision[a] # "NONE" /\ application[a] # "UNDER_REVIEW"

\* Clearing the last PENDING condition approves the application: a conditional approval
\* is never left with all conditions resolved, the case pending, and nobody at work on
\* it, although two requests may resolve its last two conditions at the same time.
ClearedIsApproved ==
    \A a \in Applications :
        decision[a] = "CONDITIONAL_APPROVAL" /\ Manual!Cleared(a) => application[a] = "APPROVED"

\* However reviews, requests and evaluations interleave, an application's status has
\* its grounds, and grounds to approve it have their effect.
StatusIsGrounded == TypeOK /\ StatusHasItsGrounds /\ ClearedIsApproved

\* An application has a loan exactly when one offer, and only one, is ACCEPTED; an
\* offer in force is the only one and the newest.
OneOfferOneLoan ==
    \A a \in Applications :
        /\ (loan[a] # "NONE") <=> (\E v \in DOMAIN offers[a] : offers[a][v] = "ACCEPTED")
        /\ \A v, w \in DOMAIN offers[a] : offers[a][v] = "ACCEPTED" /\ offers[a][w] = "ACCEPTED" => v = w
        /\ \A v \in DOMAIN offers[a] : offers[a][v] = "ISSUED" => v = Len(offers[a])

\* Why a submitted application may never be evaluated: nothing collects its evidence
\* again once it is there, be it unfit or expired.
DeadEnd(a) == evidence[a].version > 0 /\ (evidence[a].verdict = "ACTION_REQUIRED" \/ a \in expired)

\* Every other submitted application is evaluated in the end.
SubmittedIsEvaluated ==
    \A a \in Applications :
        application[a] = "SUBMITTED" ~> App!IsEvaluated(a) \/ DeadEnd(a)

\* Issues and acceptances come to an end, although they lock the same rows in
\* opposite orders.
RequestsEnd == \A q \in Requests : Off!At(q, "supersede") \/ Off!At(q, "lockApplication") ~> Off!At(q, "idle")

\* Neither submissions nor contracting wait for ever.
EverythingEnds == SubmittedIsEvaluated /\ RequestsEnd
===============================================================================
