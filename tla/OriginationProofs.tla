--------------------------- MODULE OriginationProofs ---------------------------
(***************************************************************************)
(* Proofs about Origination and about Product, for any applications,       *)
(* reviewers, conditions, offers, versions, approvals and requests.        *)
(*                                                                         *)
(* Origination.  The case of an application tells how far its status,      *)
(* decision and conditions are; a condition is resolved knowing whether    *)
(* others are PENDING, which stays so because no two requests resolve      *)
(* conditions of one application.  That there is one loan for one accepted *)
(* offer needs no lock, but the number of offers does: an application is   *)
(* locked for one issue at a time.  Whatever was counted for an            *)
(* application without a loan, and wherever that is kept, is at least the  *)
(* number of loans that were not missed since.                             *)
(*                                                                         *)
(* Product.  That one version is in force at most follows from the index;  *)
(* that replacing it never leaves the product without needs to know that   *)
(* the rows a publication has locked are still current when it commits,    *)
(* which no other publication can change because locks are disjoint.       *)
(***************************************************************************)
EXTENDS OriginationHistory, Product, FiniteSetTheorems, SequenceTheorems, TLAPS

-----------------------------------------------------------------------------
(* The inductive invariant. *)

\* Calls work on applications, evaluations on evidence that was stored.
CallSound(c) ==
    /\ ~App!At(c, "idle") =>
          call[c].application \in Applications /\ application[call[c].application] # "NONE"
    /\ App!At(c, "decide") =>
          /\ call[c].evidence.version > 0
          /\ call[c].evidence.version <= evidence[call[c].application].version
          /\ call[c].evidence.version = evidence[call[c].application].version =>
                call[c].evidence = evidence[call[c].application]

\* An application is evaluated when it leaves SUBMITTED, on evidence that was stored.
EvaluationSound(a) ==
    /\ App!IsEvaluated(a) <=> application[a] \notin {"NONE", "SUBMITTED"}
    /\ App!IsEvaluated(a) /\ evaluated[a].version = evidence[a].version => evaluated[a] = evidence[a]
    /\ application[a] = "NONE" => evidence[a].version = 0

\* How far a review is, and what has been recommended and decided by then.
CaseSound(a) ==
    /\ review[a] = "NONE" => decision[a] = "NONE"
    /\ review[a] \in {"OPEN", "ASSIGNED"} => application[a] = "UNDER_REVIEW" /\ decision[a] = "NONE"
    /\ review[a] = "PENDING_APPROVAL" =>
          /\ application[a] = "UNDER_REVIEW"
          /\ recommendation[a] # "NONE"
          /\ decision[a] # "NONE" =>
                decision[a] = "CONDITIONAL_APPROVAL" /\ recommendation[a] = "CONDITIONAL_APPROVAL"
          /\ recommendation[a] = "CONDITIONAL_APPROVAL" => ~Manual!Cleared(a)
    /\ review[a] = "DECIDED" =>
          \/ decision[a] \in {"APPROVED", "REJECTED"} /\ application[a] = decision[a]
          \/ decision[a] = "CONDITIONAL_APPROVAL" /\ application[a] = "APPROVED" /\ Manual!Cleared(a)

\* The status an evaluation gave has its grounds, and so has a review.
Grounded(a) ==
    /\ application[a] = "UNDER_REVIEW" \/ review[a] # "NONE" => Referred(a)
    /\ review[a] = "NONE" =>
          /\ application[a] = "APPROVED" => a \in Automatic /\ FoundGood(a)
          /\ application[a] = "REJECTED" => FoundBad(a)

Resolving == {r \in Resolvers : ~Manual!At(r, "idle")}

\* A request resolves a condition of a conditional approval, and knows whether it is the
\* last one;
ResolutionSound(r) ==
    LET row == resolving[r].row IN
    /\ row \in Applications \X Conditions
    /\ review[row[1]] = "PENDING_APPROVAL" /\ decision[row[1]] = "CONDITIONAL_APPROVAL"
    /\ Manual!At(r, "commit") => (resolving[r].final <=> Manual!LastResolved(row))

\* no two requests resolve conditions of the same application.
OneResolution ==
    \A r, s \in Resolving : r # s => resolving[r].row[1] # resolving[s].row[1]

\* Transactions know which rows they have locked.
RequestSound(q) ==
    /\ Off!At(q, "supersede") =>
          /\ request[q].row \in Applications /\ application[request[q].row] = "APPROVED"
          /\ Len(offers[request[q].row]) < MaxOffers
    /\ request[q].at \in {"lockApplication", "accept"} => request[q].row \in Off!Offers

\* An application is locked for one issue at a time.
OneIssue ==
    \A p, q \in Requests :
        p # q /\ Off!At(p, "supersede") /\ Off!At(q, "supersede") => request[p].row # request[q].row

\* Only an approved application has offers; the loan of one of them is the only one.
ContractSound(a) ==
    /\ offers[a] # <<>> => application[a] = "APPROVED"
    /\ (loan[a] # "NONE") <=> (\E v \in DOMAIN offers[a] : offers[a][v] = "ACCEPTED")
    /\ \A v, w \in DOMAIN offers[a] : offers[a][v] = "ACCEPTED" /\ offers[a][w] = "ACCEPTED" => v = w
    /\ \A v \in DOMAIN offers[a] : offers[a][v] = "ISSUED" => v = Len(offers[a])

Underwritten ==
    (\A c \in Calls : CallSound(c)) /\ (\A a \in Applications : EvaluationSound(a))
Reviewed ==
    (\A a \in Applications : CaseSound(a)) /\ (\A r \in Resolving : ResolutionSound(r)) /\ OneResolution
Contracted ==
    (\A q \in Requests : RequestSound(q)) /\ OneIssue /\ (\A a \in Applications : ContractSound(a))

AllGrounded == \A a \in Applications : Grounded(a)

IInv == TypeOK /\ Underwritten /\ Reviewed /\ Contracted /\ AllGrounded

-----------------------------------------------------------------------------
(* The history. *)

\* Until collections overlap one call at most collects evidence for an application, and
\* only before there is some.
AloneSound(a) ==
    /\ Cardinality(Collecting(a)) <= 1
    /\ evidence[a].version <= 1
    /\ Collecting(a) # {} => evidence[a].version = 0

\* The number of loans found for an application, by a call, its evidence or its evaluation.
Holds(a, n) ==
    \/ App!HasEvidence(a) /\ n = evidence[a].loans
    \/ App!IsEvaluated(a) /\ n = evaluated[a].loans
    \/ \E c \in Working(a) : (App!At(c, "store") \/ App!At(c, "decide")) /\ n = call[c].evidence.loans

\* It counts the loans but for those missed.
SeenSound(a) ==
    loan[a] = "NONE" => \A n \in Nat : Holds(a, n) => Cardinality(Loans \ missed[a]) <= n

HInv ==
    /\ IInv
    /\ overlapped \subseteq Applications
    /\ \A a \in Applications \ overlapped : AloneSound(a)
    /\ missed \in [Applications -> SUBSET Applications]
    /\ \A a \in Applications : SeenSound(a)

-----------------------------------------------------------------------------
(* Underwriting. *)

\* Module Application counts as this one does.
LEMMA SameCardinality == \A S : App!Cardinality(S) = Cardinality(S)
  BY DEF App!Cardinality, Cardinality

LEMMA EvidenceTypes ==
  /\ App!NoEvidence \in App!Evidence
  /\ App!Idle \in [at : App!Points, application : Applications \cup {NoApplication}, evidence : App!Evidence]
<1>1. Cardinality(Applications) \in Nat /\ App!Cardinality(Applications) = Cardinality(Applications)
  BY FiniteAssumption, FS_CardinalityType, SameCardinality
<1>2. App!NoEvidence \in App!Evidence
  BY <1>1 DEF App!NoEvidence, App!Evidence, App!Verdicts
<1>3. QED
  BY <1>2 DEF App!Idle, App!Points

\* The policy counts loans of the customer only.
LEMMA CountedAreApplications == App!Cardinality(App!Counted) \in 0..App!Cardinality(Applications)
<1>1. App!Counted \subseteq Applications
  BY DEF App!Counted
<1>2. IsFiniteSet(App!Counted) /\ Cardinality(App!Counted) <= Cardinality(Applications)
  BY <1>1, FiniteAssumption, FS_Subset, ZenonT(60)
<1>3. Cardinality(App!Counted) \in Nat /\ Cardinality(Applications) \in Nat
  BY <1>2, FiniteAssumption, FS_CardinalityType
<1>4. QED
  BY <1>2, <1>3, SameCardinality

\* What a submission finds or records.
LEMMA SubmitStep ==
  ASSUME TypeOK, Underwritten, NEW c \in Calls, NEW a \in Applications, App!Submit(c, a)
  PROVE  App!TypeOK' /\ Underwritten'
<1>2. App!TypeOK'
  BY EvidenceTypes DEF App!Submit, App!Begin, TypeOK, App!TypeOK, App!Points
<1>3. \A d \in Calls : CallSound(d)'
  BY DEF App!Submit, App!Begin, TypeOK, App!TypeOK, Underwritten, CallSound, App!At
<1>4. \A b \in Applications : EvaluationSound(b)'
  BY DEF App!Submit, TypeOK, App!TypeOK, Underwritten, EvaluationSound, App!IsEvaluated
<1>5. QED
  BY <1>2, <1>3, <1>4 DEF Underwritten

LEMMA CollectStep ==
  ASSUME TypeOK, Underwritten, NEW c \in Calls, App!Collect(c)
  PROVE  App!TypeOK' /\ Underwritten'
<1>1. PICK v \in App!Verdicts :
         App!Begin(c, "store", call[c].application,
                   [verdict |-> v, loans |-> App!Cardinality(App!Counted), version |-> 0])
  BY DEF App!Collect
<1>2. [verdict |-> v, loans |-> App!Cardinality(App!Counted), version |-> 0] \in App!Evidence
  BY CountedAreApplications DEF App!Evidence
<1>3. App!TypeOK'
  BY <1>1, <1>2 DEF App!Collect, App!Begin, TypeOK, App!TypeOK, App!Points
<1>4. \A d \in Calls : CallSound(d)'
  BY <1>1 DEF App!Collect, App!Begin, TypeOK, App!TypeOK, Underwritten, CallSound, App!At
<1>5. \A b \in Applications : EvaluationSound(b)'
  BY DEF App!Collect, Underwritten, EvaluationSound, App!IsEvaluated
<1>6. QED
  BY <1>3, <1>4, <1>5 DEF Underwritten

LEMMA StoreStep ==
  ASSUME TypeOK, Underwritten, NEW c \in Calls, App!Store(c)
  PROVE  App!TypeOK' /\ Underwritten'
<1> DEFINE a == call[c].application
           e == [call[c].evidence EXCEPT !.version = evidence[a].version + 1]
<1>1. a \in Applications
  BY DEF App!Store, App!At, Underwritten, CallSound
<1>2. call[c].evidence \in App!Evidence /\ evidence[a] \in App!Evidence
  BY <1>1 DEF TypeOK, App!TypeOK
<1>3. e \in App!Evidence /\ e.version = evidence[a].version + 1
  BY <1>2 DEF App!Evidence
<1>4. /\ evidence' = [evidence EXCEPT ![a] = e]
      /\ expired' = expired \ {a} /\ call' = [call EXCEPT ![c] = App!Idle]
      /\ UNCHANGED <<application, evaluated, loan, faults>>
  BY DEF App!Store, App!End
<1> HIDE DEF a, e
<1>6. \A b \in Applications : evidence[b].version \in Nat
  BY DEF TypeOK, App!TypeOK, App!Evidence
<1>7. \A b \in Applications : evidence'[b].version >= evidence[b].version /\ evidence'[b] \in App!Evidence
  BY <1>1, <1>3, <1>4, <1>6 DEF TypeOK, App!TypeOK
<1>8. App!TypeOK'
  <2>1. evidence' \in [Applications -> App!Evidence]
    BY <1>3, <1>4 DEF TypeOK, App!TypeOK
  <2>2. \A b \in Applications : evaluated[b].version <= evidence'[b].version
    BY <1>6, <1>7 DEF TypeOK, App!TypeOK, App!Evidence
  <2>3. QED
    BY <1>4, EvidenceTypes, <2>1, <2>2 DEF TypeOK, App!TypeOK
<1>9. \A d \in Calls : CallSound(d)'
  <2>1. TAKE d \in Calls
  <2>2. CASE d = c
    BY <1>4, <2>2 DEF TypeOK, App!TypeOK, CallSound, App!At, App!Idle
  <2>3. CASE d # c
    <3>1. /\ call'[d] = call[d] /\ CallSound(d)
          /\ call[d] \in [at : App!Points, application : Applications \cup {NoApplication},
                           evidence : App!Evidence]
      BY <1>4, <2>3 DEF TypeOK, App!TypeOK, Underwritten
    <3>2. call[d].evidence.version \in Nat
      BY <3>1 DEF App!Evidence
    <3>3. CASE call[d].application = a
      BY <1>3, <1>4, <1>6, <1>7, <3>1, <3>2, <3>3 DEF TypeOK, App!TypeOK, CallSound, App!At
    <3>4. CASE call[d].application # a
      BY <1>4, <1>6, <3>1, <3>2, <3>4 DEF TypeOK, App!TypeOK, CallSound, App!At
    <3>5. QED
      BY <3>3, <3>4
  <2>4. QED
    BY <2>2, <2>3
<1>10. \A b \in Applications : EvaluationSound(b)'
  <2>1. \A b \in Applications \ {a} : evidence'[b] = evidence[b]
    BY <1>4 DEF TypeOK, App!TypeOK
  <2>2. application[a] # "NONE"
    BY DEF App!Store, App!At, Underwritten, CallSound, a
  <2>3. evidence'[a] = e /\ evaluated[a].version \in Nat /\ evaluated[a].version < e.version
    BY <1>1, <1>3, <1>4, <1>6 DEF TypeOK, App!TypeOK, App!Evidence
  <2>4. \A b \in Applications : b = a => EvaluationSound(b)'
    BY <1>1, <1>4, <2>2, <2>3 DEF Underwritten, EvaluationSound, App!IsEvaluated
  <2>5. \A b \in Applications \ {a} : EvaluationSound(b)'
    BY <1>4, <2>1 DEF Underwritten, EvaluationSound, App!IsEvaluated
  <2>6. QED
    BY <2>4, <2>5
<1>11. QED
  BY <1>8, <1>9, <1>10 DEF Underwritten

LEMMA FailStep ==
  ASSUME TypeOK, Underwritten, NEW c \in Calls, App!Fail(c)
  PROVE  App!TypeOK' /\ Underwritten'
<1>1. App!TypeOK'
  BY EvidenceTypes, BoundsAssumption DEF App!Fail, App!End, TypeOK, App!TypeOK
<1>2. \A d \in Calls : CallSound(d)'
  BY DEF App!Fail, App!End, App!Idle, TypeOK, App!TypeOK, Underwritten, CallSound, App!At
<1>3. \A b \in Applications : EvaluationSound(b)'
  BY DEF App!Fail, Underwritten, EvaluationSound, App!IsEvaluated
<1>4. QED
  BY <1>1, <1>2, <1>3 DEF Underwritten

LEMMA EvaluateStep ==
  ASSUME TypeOK, Underwritten, NEW c \in Calls, NEW a \in Applications, App!Evaluate(c, a)
  PROVE  App!TypeOK' /\ Underwritten'
<1>1. evidence[a] \in App!Evidence /\ evidence[a].version \in Nat /\ evidence[a].version > 0
  BY DEF App!Evaluate, App!HasEvidence, TypeOK, App!TypeOK, App!Evidence
<1>2. App!TypeOK'
  BY <1>1 DEF App!Evaluate, App!Begin, TypeOK, App!TypeOK, App!Points
<1>3. \A d \in Calls : CallSound(d)'
  <2>1. application[a] # "NONE" /\ UNCHANGED <<application, evidence>>
    BY <1>1 DEF App!Evaluate, Underwritten, EvaluationSound
  <2>2. call' = [call EXCEPT ![c] = [at |-> "decide", application |-> a, evidence |-> evidence[a]]]
    BY DEF App!Evaluate, App!Begin
  <2>3. CallSound(c)'
    BY <1>1, <2>1, <2>2 DEF TypeOK, App!TypeOK, CallSound, App!At
  <2>4. \A d \in Calls \ {c} : CallSound(d)'
    BY <2>1, <2>2 DEF TypeOK, App!TypeOK, Underwritten, CallSound, App!At
  <2>5. QED
    BY <2>3, <2>4
<1>4. \A b \in Applications : EvaluationSound(b)'
  BY DEF App!Evaluate, Underwritten, EvaluationSound, App!IsEvaluated
<1>5. QED
  BY <1>2, <1>3, <1>4 DEF Underwritten

LEMMA DecideStep ==
  ASSUME TypeOK, Underwritten, NEW c \in Calls, App!Decide(c)
  PROVE  App!TypeOK' /\ Underwritten'
<1> DEFINE a == call[c].application
           e == call[c].evidence
<1>1. /\ a \in Applications /\ e \in App!Evidence /\ e.version \in Nat
      /\ e.version > 0 /\ e.version <= evidence[a].version
      /\ e.version = evidence[a].version => e = evidence[a]
  BY DEF App!Decide, App!At, Underwritten, CallSound, TypeOK, App!TypeOK, App!Evidence
<1>2. /\ \/ /\ application[a] = "SUBMITTED"
            /\ application' = [application EXCEPT ![a] = App!Outcome(a, e)]
            /\ evaluated' = [evaluated EXCEPT ![a] = e]
         \/ UNCHANGED <<application, evaluated>>
      /\ call' = [call EXCEPT ![c] = App!Idle]
      /\ UNCHANGED <<evidence, expired, loan, faults>>
  BY DEF App!Decide, App!End
<1>3. App!Outcome(a, e) \in {"UNDER_REVIEW", "APPROVED", "REJECTED"}
  BY DEF App!Outcome
<1> HIDE DEF a, e
<1>4. App!TypeOK'
  <2>1. /\ application' \in [Applications ->
              {"NONE", "SUBMITTED", "UNDER_REVIEW", "APPROVED", "REJECTED"}]
        /\ evaluated' \in [Applications -> App!Evidence]
    BY <1>1, <1>2, <1>3 DEF TypeOK, App!TypeOK
  <2>2. \A b \in Applications : evaluated'[b].version <= evidence[b].version
    BY <1>1, <1>2 DEF TypeOK, App!TypeOK
  <2>3. QED
    BY <1>2, <2>1, <2>2, EvidenceTypes DEF TypeOK, App!TypeOK
<1>5. \A d \in Calls : CallSound(d)'
  <2>1. \A b \in Applications : application[b] # "NONE" => application'[b] # "NONE"
    BY <1>2, <1>3 DEF TypeOK, App!TypeOK
  <2>2. CallSound(c)'
    BY <1>2 DEF App!Idle, TypeOK, App!TypeOK, CallSound, App!At
  <2>3. \A d \in Calls \ {c} : CallSound(d)'
    BY <1>2, <2>1 DEF TypeOK, App!TypeOK, Underwritten, CallSound, App!At
  <2>4. QED
    BY <2>2, <2>3
<1>6. \A b \in Applications : EvaluationSound(b)'
  <2>1. CASE UNCHANGED <<application, evaluated>>
    BY <1>2, <2>1 DEF Underwritten, EvaluationSound, App!IsEvaluated
  <2>2. CASE /\ application' = [application EXCEPT ![a] = App!Outcome(a, e)]
             /\ evaluated' = [evaluated EXCEPT ![a] = e]
    <3>1. /\ application'[a] = App!Outcome(a, e) /\ evaluated'[a] = e
          /\ \A b \in Applications \ {a} : application'[b] = application[b] /\ evaluated'[b] = evaluated[b]
      BY <1>1, <2>2 DEF TypeOK, App!TypeOK
    <3>2. \A b \in Applications : b = a => EvaluationSound(b)'
      BY <1>1, <1>2, <1>3, <3>1 DEF EvaluationSound, App!IsEvaluated
    <3>3. \A b \in Applications \ {a} : EvaluationSound(b)'
      BY <1>2, <3>1 DEF Underwritten, EvaluationSound, App!IsEvaluated
    <3>4. QED
      BY <3>2, <3>3
  <2>3. QED
    BY <1>2, <2>1, <2>2
<1>7. QED
  BY <1>4, <1>5, <1>6 DEF Underwritten

LEMMA ExpireStep ==
  ASSUME TypeOK, Underwritten, NEW a \in Applications, App!Expire(a)
  PROVE  App!TypeOK' /\ Underwritten'
<1>1. App!TypeOK'
  BY DEF App!Expire, TypeOK, App!TypeOK
<1>2. Underwritten'
  BY DEF App!Expire, Underwritten, CallSound, EvaluationSound, App!IsEvaluated, App!At
<1>3. QED
  BY <1>1, <1>2

\* What underwriting does to an application: it is recorded, or it is SUBMITTED and
\* gets the outcome of its evaluation.
Enters(a) ==
    \/ UNCHANGED <<application[a], evaluated[a]>>
    \/ application[a] = "NONE" /\ application'[a] = "SUBMITTED"
    \/ /\ application[a] = "SUBMITTED"
       /\ \/ application'[a] = "UNDER_REVIEW" /\ Referred(a)'
          \/ application'[a] = "APPROVED" /\ a \in Automatic /\ FoundGood(a)'
          \/ application'[a] = "REJECTED" /\ FoundBad(a)'

\* The evaluation decides by what it finds.
LEMMA OutcomeMeaning ==
  ASSUME TypeOK, Underwritten, NEW c \in Calls, App!Decide(c), NEW a \in Applications
  PROVE  Enters(a)
<1> DEFINE b == call[c].application
           e == call[c].evidence
<1>1. b \in Applications /\ e.version > 0
  BY DEF App!Decide, App!At, Underwritten, CallSound
<1>2. \/ /\ application[b] = "SUBMITTED"
         /\ application' = [application EXCEPT ![b] = App!Outcome(b, e)]
         /\ evaluated' = [evaluated EXCEPT ![b] = e]
      \/ UNCHANGED <<application, evaluated>>
  BY DEF App!Decide
<1> HIDE DEF b, e
<1>3. CASE a # b \/ UNCHANGED <<application, evaluated>>
  BY <1>2, <1>3 DEF Enters, TypeOK, App!TypeOK
<1>4. CASE /\ a = b /\ application[b] = "SUBMITTED"
           /\ application' = [application EXCEPT ![b] = App!Outcome(b, e)]
           /\ evaluated' = [evaluated EXCEPT ![b] = e]
  <2>1. application'[a] = App!Outcome(a, e) /\ evaluated'[a] = e
    BY <1>4 DEF TypeOK, App!TypeOK
  <2>2. App!Passes(e) <=> Good(e)
    BY DEF App!Passes, Good
  <2>3. CASE a \in WithPolicy /\ ~Good(e)
    BY <1>1, <1>4, <2>1, <2>2, <2>3 DEF App!Outcome, Enters, FoundBad, App!IsEvaluated
  <2>4. CASE Good(e) /\ a \in Automatic \cap WithPolicy
    BY <1>1, <1>4, <2>1, <2>2, <2>4 DEF App!Outcome, Enters, FoundGood, App!IsEvaluated
  <2>5. CASE a \notin WithPolicy \/ (a \notin Automatic /\ Good(e))
    BY <1>1, <1>4, <2>1, <2>2, <2>5 DEF App!Outcome, Enters, Referred, App!IsEvaluated
  <2>6. QED
    BY <2>3, <2>4, <2>5
<1>5. QED
  BY <1>2, <1>3, <1>4

LEMMA UnderwriteStep ==
  ASSUME TypeOK, Underwritten, App!Next
  PROVE  /\ App!TypeOK' /\ Underwritten'
         /\ UNCHANGED loan
         /\ \A a \in Applications : Enters(a)
<1>1. App!TypeOK' /\ Underwritten'
  BY SubmitStep, CollectStep, StoreStep, FailStep, EvaluateStep, DecideStep, ExpireStep
     DEF App!Next, App!Step
<1>2. UNCHANGED loan
  BY DEF App!Next, App!Step, App!Submit, App!Collect, App!Store, App!Fail, App!Evaluate, App!Decide,
         App!Expire
<1>3. ASSUME NEW c \in Calls, NEW a \in Applications, App!Submit(c, a)
      PROVE  \A b \in Applications : Enters(b)
  BY <1>3 DEF App!Submit, Enters, TypeOK, App!TypeOK
<1>4. \/ UNCHANGED <<application, evaluated>>
      \/ \E c \in Calls : App!Decide(c) \/ \E a \in Applications : App!Submit(c, a)
  BY DEF App!Next, App!Step, App!Collect, App!Store, App!Fail, App!Evaluate, App!Expire
<1>5. \A a \in Applications : Enters(a)
  BY <1>3, <1>4, OutcomeMeaning DEF Enters
<1>6. QED
  BY <1>1, <1>2, <1>5

\* What an evaluation has found stays while nothing is evaluated,
LEMMA SameFindings ==
  ASSUME NEW a \in Applications, UNCHANGED evaluated[a]
  PROVE  /\ FoundGood(a)' <=> FoundGood(a)
         /\ FoundBad(a)' <=> FoundBad(a)
         /\ Referred(a)' <=> Referred(a)
  BY DEF FoundGood, FoundBad, Referred, Good, App!IsEvaluated

\* and so do the grounds.
LEMMA SameGrounds ==
  ASSUME AllGrounded, UNCHANGED <<application, review, evaluated>>
  PROVE  AllGrounded'
<1>1. \A a \in Applications :
         FoundGood(a)' = FoundGood(a) /\ FoundBad(a)' = FoundBad(a) /\ Referred(a)' = Referred(a)
  BY DEF FoundGood, FoundBad, Referred, Good, App!IsEvaluated
<1>2. QED
  BY <1>1 DEF AllGrounded, Grounded

\* Reviews begin after that, and what is APPROVED stays so.
LEMMA UnderwriteKeeps ==
  ASSUME IInv, Underwrite
  PROVE  IInv'
<1>1. /\ App!TypeOK' /\ Underwritten' /\ UNCHANGED loan
      /\ \A a \in Applications : Enters(a)
      /\ UNCHANGED <<manual, contracting>>
  BY UnderwriteStep DEF IInv, Underwrite
<1>2. TypeOK'
  BY <1>1 DEF IInv, TypeOK, App!TypeOK, Manual!TypeOK, Off!TypeOK, manual, contracting
<1>3. \A a \in Applications : Manual!Cleared(a)' <=> Manual!Cleared(a)
  BY <1>1 DEF Manual!Cleared, Manual!Rows, manual
<1>4. \A a \in Applications : CaseSound(a)'
  BY <1>1, <1>3 DEF IInv, Reviewed, CaseSound, TypeOK, Manual!TypeOK, Enters, manual
<1>5. (\A r \in Resolving : ResolutionSound(r))' /\ OneResolution'
  BY <1>1 DEF IInv, Reviewed, Resolving, ResolutionSound, OneResolution, manual, Manual!At,
              Manual!LastResolved, Manual!Rows
<1>6. \A q \in Requests : RequestSound(q)'
  BY <1>1 DEF IInv, Contracted, RequestSound, contracting, Enters, Off!At
<1>7. OneIssue'
  BY <1>1 DEF IInv, Contracted, OneIssue, contracting, Off!At
<1>8. \A a \in Applications : ContractSound(a)'
  BY <1>1 DEF IInv, Contracted, ContractSound, contracting, Enters
<1>9. AllGrounded'
  <2>1. SUFFICES ASSUME NEW a \in Applications PROVE Grounded(a)'
    BY DEF AllGrounded
  <2>2. /\ Grounded(a) /\ CaseSound(a) /\ Enters(a) /\ UNCHANGED review[a]
        /\ review[a] \in {"NONE", "OPEN", "ASSIGNED", "PENDING_APPROVAL", "DECIDED"}
    BY <1>1 DEF IInv, AllGrounded, Reviewed, TypeOK, Manual!TypeOK, manual
  <2>3. CASE UNCHANGED <<application[a], evaluated[a]>>
    BY <2>2, <2>3, SameFindings DEF Grounded
  <2>4. CASE application[a] \in {"NONE", "SUBMITTED"}
    <3>1. review'[a] = "NONE"
      BY <2>2, <2>4 DEF CaseSound
    <3>2. QED
      BY <2>2, <2>3, <2>4, <3>1 DEF Grounded, Enters
  <2>5. QED
    BY <2>2, <2>3, <2>4 DEF Enters
<1>10. QED
  BY <1>1, <1>2, <1>4, <1>5, <1>6, <1>7, <1>8, <1>9 DEF IInv, Reviewed, Contracted

-----------------------------------------------------------------------------
(* Reviews. *)

\* An application has no condition PENDING.
LEMMA ClearedMeaning ==
  ASSUME Manual!TypeOK, NEW a \in Applications
  PROVE  Manual!Cleared(a) <=> \A k \in Conditions : condition[<<a, k>>] # "PENDING"
  BY DEF Manual!TypeOK, Manual!Cleared, Manual!Rows

LEMMA LastMeaning ==
  ASSUME Manual!TypeOK, NEW row \in Applications \X Conditions
  PROVE  Manual!LastResolved(row) <=>
            \A k \in Conditions : condition[<<row[1], k>>] = "PENDING" => k = row[2]
<1>1. row = <<row[1], row[2]>> /\ row[1] \in Applications /\ row[2] \in Conditions
  OBVIOUS
<1>2. DOMAIN condition = Applications \X Conditions
  BY DEF Manual!TypeOK
<1>3. Manual!LastResolved(row) <=>
         \A other \in Applications \X Conditions :
            other[1] = row[1] /\ condition[other] = "PENDING" => other = row
  BY <1>2 DEF Manual!LastResolved, Manual!Rows
<1>4. (\A other \in Applications \X Conditions :
            other[1] = row[1] /\ condition[other] = "PENDING" => other = row)
      <=> \A k \in Conditions : condition[<<row[1], k>>] = "PENDING" => k = row[2]
  BY <1>1
<1>5. QED
  BY <1>3, <1>4

\* What a review does to an application: it is decided while UNDER_REVIEW.
Decided(a) ==
    \/ application'[a] = application[a]
    \/ application[a] = "UNDER_REVIEW" /\ application'[a] \in {"APPROVED", "REJECTED"}

Conclusion == Manual!TypeOK' /\ App!TypeOK' /\ Reviewed' /\ \A a \in Applications : Decided(a)

\* A step of one application's case leaves those of the others as they are,
OtherCase(b) ==
    /\ UNCHANGED <<application[b], review[b], decision[b], recommendation[b]>>
    /\ \A k \in Conditions : UNCHANGED condition[<<b, k>>]

\* and with them what is known of them.
LEMMA OtherCases ==
  ASSUME Manual!TypeOK, Manual!TypeOK', NEW b \in Applications, OtherCase(b)
  PROVE  /\ CaseSound(b) => CaseSound(b)'
         /\ \A r \in Resolvers :
               /\ resolving[r].row \in Applications \X Conditions /\ resolving[r].row[1] = b
               /\ resolving'[r] = resolving[r] /\ ResolutionSound(r)
               => ResolutionSound(r)'
<1>1. DOMAIN condition = Applications \X Conditions /\ DOMAIN condition' = Applications \X Conditions
  BY DEF Manual!TypeOK
<1>2. \A row \in Applications \X Conditions : row[1] = b => condition'[row] = condition[row]
  BY DEF OtherCase
<1>3. Manual!Rows(b, "PENDING")' = Manual!Rows(b, "PENDING")
  BY <1>1, <1>2 DEF Manual!Rows
<1>4. CaseSound(b) => CaseSound(b)'
  BY <1>3 DEF CaseSound, OtherCase, Manual!Cleared
<1>5. ASSUME NEW r \in Resolvers, resolving[r].row \in Applications \X Conditions,
             resolving[r].row[1] = b, resolving'[r] = resolving[r], ResolutionSound(r)
      PROVE  ResolutionSound(r)'
  BY <1>3, <1>5 DEF ResolutionSound, OtherCase, Manual!At, Manual!LastResolved
<1>6. QED
  BY <1>4, <1>5

\* A step on a case that is not decided yet does not concern the resolutions.
LEMMA CaseStep ==
  ASSUME IInv, Manual!TypeOK', NEW a \in Applications, decision[a] = "NONE", UNCHANGED resolving,
         \A b \in Applications \ {a} : OtherCase(b),
         CaseSound(a)'
  PROVE  Reviewed'
<1>1. \A b \in Applications : CaseSound(b)'
  BY OtherCases DEF IInv, TypeOK, Reviewed
<1>2. Resolving' = Resolving
  BY DEF Resolving, Manual!At
<1>3. \A r \in Resolving : ResolutionSound(r)'
  <2>1. TAKE r \in Resolving
  <2>2. /\ ResolutionSound(r) /\ resolving[r].row \in Applications \X Conditions
        /\ resolving[r].row[1] \in Applications \ {a}
    BY DEF IInv, Reviewed, ResolutionSound
  <2>3. QED
    BY <2>2, OtherCases DEF IInv, TypeOK, Resolving
<1>4. OneResolution'
  BY <1>2 DEF IInv, Reviewed, OneResolution
<1>5. QED
  BY <1>1, <1>2, <1>3, <1>4 DEF Reviewed

LEMMA OpenStep ==
  ASSUME IInv, NEW a \in Applications, Manual!Open(a)
  PROVE  Manual!TypeOK' /\ Reviewed' /\ \A b \in Applications : Decided(b)
<1>1. Manual!TypeOK'
  BY DEF Manual!Open, IInv, TypeOK, Manual!TypeOK
<1>2. \A b \in Applications \ {a} : OtherCase(b)
  BY DEF Manual!Open, IInv, TypeOK, Manual!TypeOK, OtherCase
<1>3. CaseSound(a) /\ decision[a] = "NONE"
  BY DEF Manual!Open, IInv, Reviewed, CaseSound
<1>4. CaseSound(a)'
  BY <1>3 DEF Manual!Open, IInv, TypeOK, Manual!TypeOK, CaseSound
<1>5. Reviewed'
  BY <1>1, <1>2, <1>3, <1>4, CaseStep DEF Manual!Open
<1>6. QED
  BY <1>1, <1>5 DEF Manual!Open, Decided

LEMMA AssignStep ==
  ASSUME IInv, NEW a \in Applications, NEW r \in Reviewers, Manual!Assign(a, r)
  PROVE  Manual!TypeOK' /\ Reviewed' /\ \A b \in Applications : Decided(b)
<1>1. Manual!TypeOK'
  BY DEF Manual!Assign, Manual!Advance, IInv, TypeOK, Manual!TypeOK
<1>2. \A b \in Applications \ {a} : OtherCase(b)
  BY DEF Manual!Assign, Manual!Advance, IInv, TypeOK, Manual!TypeOK, OtherCase
<1>3. CaseSound(a) /\ decision[a] = "NONE"
  BY DEF Manual!Assign, IInv, Reviewed, CaseSound
<1>4. CaseSound(a)'
  BY <1>3 DEF Manual!Assign, Manual!Advance, IInv, TypeOK, Manual!TypeOK, CaseSound
<1>5. Reviewed'
  BY <1>1, <1>2, <1>3, <1>4, CaseStep DEF Manual!Assign
<1>6. QED
  BY <1>1, <1>5 DEF Manual!Assign, Decided

LEMMA LeaseExpiresStep ==
  ASSUME IInv, NEW a \in Applications, Manual!LeaseExpires(a)
  PROVE  Manual!TypeOK' /\ Reviewed' /\ \A b \in Applications : Decided(b)
<1>1. Manual!TypeOK'
  BY DEF Manual!LeaseExpires, IInv, TypeOK, Manual!TypeOK
<1>2. \A b \in Applications \ {a} : OtherCase(b)
  BY DEF Manual!LeaseExpires, OtherCase
<1>3. CaseSound(a) /\ decision[a] = "NONE"
  BY DEF Manual!LeaseExpires, IInv, Reviewed, CaseSound
<1>4. CaseSound(a)'
  BY <1>3 DEF Manual!LeaseExpires, CaseSound, Manual!Cleared, Manual!Rows
<1>5. Reviewed'
  BY <1>1, <1>2, <1>3, <1>4, CaseStep DEF Manual!LeaseExpires
<1>6. QED
  BY <1>1, <1>5 DEF Manual!LeaseExpires, Decided

\* A conditional recommendation leaves a condition PENDING.
LEMMA RecommendStep ==
  ASSUME IInv, NEW a \in Applications, NEW kind \in Manual!Kinds, NEW conditions \in SUBSET Conditions,
         Manual!Recommend(a, kind, conditions)
  PROVE  Manual!TypeOK' /\ Reviewed' /\ \A b \in Applications : Decided(b)
<1>1. DOMAIN condition = Applications \X Conditions
  BY DEF IInv, TypeOK, Manual!TypeOK
<1>2. Manual!TypeOK'
  BY <1>1 DEF Manual!Recommend, Manual!Advance, IInv, TypeOK, Manual!TypeOK, Manual!Kinds
<1>3. \A b \in Applications \ {a} : OtherCase(b)
  <2>1. TAKE b \in Applications \ {a}
  <2>2. \A k \in Conditions : condition'[<<b, k>>] = condition[<<b, k>>]
    BY <1>1 DEF Manual!Recommend
  <2>3. QED
    BY <2>2 DEF Manual!Recommend, Manual!Advance, IInv, TypeOK, Manual!TypeOK, OtherCase
<1>4. CaseSound(a) /\ decision[a] = "NONE"
  BY DEF Manual!Recommend, IInv, Reviewed, CaseSound
<1>5. kind = "CONDITIONAL_APPROVAL" => ~Manual!Cleared(a)'
  <2>1. SUFFICES ASSUME kind = "CONDITIONAL_APPROVAL" PROVE ~Manual!Cleared(a)'
    OBVIOUS
  <2>2. PICK k \in conditions : TRUE
    BY <2>1 DEF Manual!Recommend
  <2>3. condition'[<<a, k>>] = "PENDING" /\ <<a, k>> \in DOMAIN condition'
    BY <1>1 DEF Manual!Recommend
  <2>4. QED
    BY <2>3 DEF Manual!Cleared, Manual!Rows
<1>6. CaseSound(a)'
  <2>1. /\ review'[a] = "PENDING_APPROVAL" /\ recommendation'[a] = kind
        /\ application'[a] = "UNDER_REVIEW" /\ decision'[a] = "NONE"
    BY <1>4 DEF Manual!Recommend, Manual!Advance, IInv, TypeOK, Manual!TypeOK, CaseSound
  <2>2. QED
    BY <1>5, <2>1 DEF CaseSound, Manual!Kinds
<1>7. Reviewed'
  BY <1>2, <1>3, <1>4, <1>6, CaseStep DEF Manual!Recommend
<1>8. QED
  BY <1>2, <1>7 DEF Manual!Recommend, Decided

LEMMA AdvanceTypes ==
  ASSUME Manual!TypeOK, NEW a \in Applications, NEW status \in {"PENDING_APPROVAL", "DECIDED"},
         Manual!Advance(a, status)
  PROVE  /\ review' \in [Applications -> {"NONE", "OPEN", "ASSIGNED", "PENDING_APPROVAL", "DECIDED"}]
         /\ lockVersion' \in [Applications -> Nat]
  BY DEF Manual!Advance, Manual!TypeOK

\* A decision is final and decides the case, unless it is conditional on what is PENDING.
LEMMA ManualDecideStep ==
  ASSUME IInv, NEW a \in Applications, Manual!Decide(a)
  PROVE  /\ Manual!TypeOK' /\ Reviewed' /\ \A b \in Applications : Decided(b)
<1>1. CaseSound(a) /\ decision[a] = "NONE" /\ review[a] = "PENDING_APPROVAL"
  BY DEF Manual!Decide, IInv, Reviewed
<1>2. recommendation[a] \in Manual!Kinds
  BY <1>1 DEF IInv, TypeOK, Manual!TypeOK, CaseSound
<1>3. Manual!TypeOK'
  <2>1. /\ review' \in [Applications -> {"NONE", "OPEN", "ASSIGNED", "PENDING_APPROVAL", "DECIDED"}]
        /\ lockVersion' \in [Applications -> Nat]
    <3>1. Manual!Advance(a, "PENDING_APPROVAL") \/ Manual!Advance(a, "DECIDED")
      BY DEF Manual!Decide
    <3>2. QED
      BY <3>1, AdvanceTypes DEF IInv, TypeOK
  <2>2. decision' \in [Applications -> Manual!Kinds \cup {"NONE"}]
    BY <1>2 DEF Manual!Decide, IInv, TypeOK, Manual!TypeOK
  <2>3. UNCHANGED <<reviewer, leased, recommendation, condition, resolving, faults>>
    BY DEF Manual!Decide
  <2>4. QED
    BY <2>1, <2>2, <2>3 DEF IInv, TypeOK, Manual!TypeOK
<1>4. \A b \in Applications \ {a} : OtherCase(b)
  BY DEF Manual!Decide, Manual!Advance, IInv, TypeOK, Manual!TypeOK, App!TypeOK, OtherCase
<1>5. Manual!Cleared(a)' <=> Manual!Cleared(a)
  BY DEF Manual!Decide, Manual!Cleared, Manual!Rows
<1>6. CaseSound(a)'
  BY <1>1, <1>2, <1>5
     DEF Manual!Decide, Manual!Advance, Manual!Kinds, IInv, TypeOK, Manual!TypeOK, App!TypeOK, CaseSound
<1>7. Reviewed'
  BY <1>1, <1>3, <1>4, <1>6, CaseStep DEF Manual!Decide
<1>8. Decided(a)
  BY <1>1, <1>2 DEF Manual!Decide, Manual!Kinds, IInv, TypeOK, App!TypeOK, CaseSound, Decided
<1>9. QED
  BY <1>3, <1>4, <1>7, <1>8 DEF OtherCase, Decided

-----------------------------------------------------------------------------
(* Resolutions. *)

\* A request that begins finds nobody at work on the application.
LEMMA ResolveStep ==
  ASSUME IInv, NEW r \in Resolvers, NEW row \in Applications \X Conditions, Manual!Resolve(r, row)
  PROVE  Manual!TypeOK' /\ Reviewed' /\ \A b \in Applications : Decided(b)
<1>1. Manual!TypeOK'
  BY DEF Manual!Resolve, Manual!case, IInv, TypeOK, Manual!TypeOK
<1>2. /\ UNCHANGED <<application, review, decision, recommendation, condition>>
      /\ resolving' = [resolving EXCEPT ![r] = [at |-> "write", row |-> row, final |-> FALSE]]
  BY DEF Manual!Resolve, Manual!case
<1>3. \A b \in Applications : OtherCase(b)
  BY <1>2 DEF OtherCase
<1>4. \A b \in Applications : CaseSound(b)'
  BY <1>1, <1>3, OtherCases DEF IInv, TypeOK, Reviewed
<1>5. review[row[1]] = "PENDING_APPROVAL" /\ decision[row[1]] = "CONDITIONAL_APPROVAL"
  <2>1. row[1] \in Applications
    OBVIOUS
  <2>2. CaseSound(row[1]) /\ review[row[1]] \in {"NONE", "OPEN", "ASSIGNED", "PENDING_APPROVAL", "DECIDED"}
    BY <2>1 DEF IInv, Reviewed, TypeOK, Manual!TypeOK
  <2>3. QED
    BY <2>1, <2>2 DEF CaseSound, Manual!Resolve
<1>6. resolving'[r] = [at |-> "write", row |-> row, final |-> FALSE]
      /\ \A s \in Resolvers \ {r} : resolving'[s] = resolving[s]
  BY <1>2 DEF IInv, TypeOK, Manual!TypeOK
<1>7. ResolutionSound(r)'
  BY <1>2, <1>5, <1>6 DEF ResolutionSound, Manual!At
<1>8. \A s \in Resolving' : s = r \/ (s \in Resolving /\ resolving'[s] = resolving[s])
  BY <1>6 DEF Resolving, Manual!At
<1>9. \A s \in Resolving' : ResolutionSound(s)'
  <2>1. TAKE s \in Resolving'
  <2>2. CASE s = r
    BY <1>7, <2>2
  <2>3. CASE s # r
    <3>1. s \in Resolving /\ resolving'[s] = resolving[s] /\ ResolutionSound(s)
          /\ resolving[s].row \in Applications \X Conditions /\ resolving[s].row[1] \in Applications
      BY <1>8, <2>3 DEF IInv, Reviewed, ResolutionSound
    <3>2. QED
      BY <3>1, <1>1, <1>3, OtherCases DEF IInv, TypeOK, Resolving
  <2>4. QED
    BY <2>2, <2>3
<1>10. \A s \in Resolving : resolving[s].row[1] # row[1]
  <2>1. SUFFICES ASSUME NEW s \in Resolving, resolving[s].row[1] = row[1] PROVE FALSE
    OBVIOUS
  <2>2. s \in Manual!Busy
    BY DEF Resolving, Manual!Busy
  <2>3. Manual!Locks(row) \cap Manual!Locks(resolving[s].row) = {}
    BY <2>2 DEF Manual!Resolve, Manual!Free
  <2>4. <<row[1]>> \in Manual!Locks(row) /\ <<row[1]>> \in Manual!Locks(resolving[s].row)
    BY <2>1 DEF Manual!Locks
  <2>5. QED
    BY <2>3, <2>4
<1>11. OneResolution'
  BY <1>6, <1>8, <1>10 DEF IInv, Reviewed, OneResolution
<1>12. QED
  BY <1>1, <1>2, <1>4, <1>9, <1>11 DEF Reviewed, Decided

\* What a request reads of the other conditions stays so until it commits.
LEMMA WriteStep ==
  ASSUME IInv, NEW r \in Resolvers, Manual!Write(r)
  PROVE  Manual!TypeOK' /\ Reviewed' /\ \A b \in Applications : Decided(b)
<1> DEFINE row == resolving[r].row
           last == Manual!LastResolved(row)
<1>1. /\ UNCHANGED <<application, Manual!case, recommendation, condition, decision, faults>>
      /\ resolving' = [resolving EXCEPT ![r].at = "commit", ![r].final = last]
      /\ r \in Resolving
  BY DEF Manual!Write, Resolving, Manual!At
<1>2. last \in BOOLEAN
  BY DEF Manual!LastResolved
<1>3. /\ resolving'[r].at = "commit" /\ resolving'[r].row = row /\ resolving'[r].final = last
      /\ \A s \in Resolvers \ {r} : resolving'[s] = resolving[s]
  BY <1>1 DEF IInv, TypeOK, Manual!TypeOK
<1>4. Manual!TypeOK'
  <2>1. resolving'[r] \in [at : {"idle", "write", "commit"},
                           row : (Applications \X Conditions) \cup {<<>>}, final : BOOLEAN]
    BY <1>1, <1>2 DEF IInv, TypeOK, Manual!TypeOK
  <2> HIDE DEF last
  <2>2. QED
    BY <1>1, <2>1 DEF IInv, TypeOK, Manual!TypeOK, Manual!case
<1>5. \A b \in Applications : OtherCase(b)
  BY <1>1 DEF OtherCase, Manual!case
<1>6. \A b \in Applications : CaseSound(b)'
  BY <1>4, <1>5, OtherCases DEF IInv, TypeOK, Reviewed
<1>7. Resolving' = Resolving
  BY <1>1, <1>3 DEF Resolving, Manual!At
<1>8. \A s \in Resolving : ResolutionSound(s) /\ resolving[s].row \in Applications \X Conditions
                           /\ resolving[s].row[1] \in Applications
  BY DEF IInv, Reviewed, ResolutionSound
<1>9. ResolutionSound(r)'
  <2>1. Manual!LastResolved(row)' <=> last
    BY <1>1, <1>3 DEF Manual!LastResolved, Manual!Rows
  <2> HIDE DEF last
  <2>2. QED
    BY <1>1, <1>3, <1>8, <2>1 DEF ResolutionSound, Manual!case
<1>10. \A s \in Resolving' : ResolutionSound(s)'
  BY <1>3, <1>4, <1>5, <1>7, <1>8, <1>9, OtherCases DEF IInv, TypeOK, Resolving
<1>11. OneResolution'
  BY <1>3, <1>7 DEF IInv, Reviewed, OneResolution, Resolving
<1>12. QED
  BY <1>1, <1>4, <1>6, <1>10, <1>11 DEF Reviewed, Decided

\* A request at its end no longer counts.
LEMMA LeavesResolution ==
  ASSUME IInv, NEW r \in Resolvers, resolving' = [resolving EXCEPT ![r] = Manual!Idle]
  PROVE  /\ resolving' \in [Resolvers -> [at : {"idle", "write", "commit"},
                               row : (Applications \X Conditions) \cup {<<>>}, final : BOOLEAN]]
         /\ Resolving' = Resolving \ {r}
         /\ \A s \in Resolving' : resolving'[s] = resolving[s]
         /\ OneResolution'
<1>1. Manual!Idle.at = "idle" /\ Manual!Idle \in [at : {"idle", "write", "commit"},
                               row : (Applications \X Conditions) \cup {<<>>}, final : BOOLEAN]
  BY DEF Manual!Idle
<1>2. resolving \in [Resolvers -> [at : {"idle", "write", "commit"},
                               row : (Applications \X Conditions) \cup {<<>>}, final : BOOLEAN]]
  BY DEF IInv, TypeOK, Manual!TypeOK
<1>3. /\ resolving' \in [Resolvers -> [at : {"idle", "write", "commit"},
                            row : (Applications \X Conditions) \cup {<<>>}, final : BOOLEAN]]
      /\ resolving'[r] = Manual!Idle
      /\ \A s \in Resolvers \ {r} : resolving'[s] = resolving[s]
  BY <1>1, <1>2
<1>4. Resolving' = Resolving \ {r}
  BY <1>1, <1>3 DEF Resolving, Manual!At
<1>5. QED
  BY <1>3, <1>4 DEF IInv, Reviewed, OneResolution, Resolving

\* The last resolution approves the application, the others leave a condition PENDING.
LEMMA CommitStep ==
  ASSUME IInv, NEW r \in Resolvers, Manual!Commit(r)
  PROVE  Manual!TypeOK' /\ Reviewed' /\ \A b \in Applications : Decided(b)
<1>0. /\ r \in Resolving /\ ResolutionSound(r)
      /\ resolving[r].row \in Applications \X Conditions /\ resolving[r].row[1] \in Applications
  BY DEF Manual!Commit, Resolving, Manual!At, IInv, Reviewed, ResolutionSound
<1> PICK row \in Applications \X Conditions : row = resolving[r].row
  BY <1>0
<1> PICK a \in Applications : a = row[1]
  BY <1>0
<1>1. /\ review[a] = "PENDING_APPROVAL" /\ decision[a] = "CONDITIONAL_APPROVAL"
      /\ resolving[r].final <=> Manual!LastResolved(row)
  BY <1>0 DEF Manual!Commit, ResolutionSound
<1>2. CaseSound(a) /\ application[a] = "UNDER_REVIEW" /\ recommendation[a] = "CONDITIONAL_APPROVAL"
  BY <1>1 DEF IInv, Reviewed, CaseSound
<1>3. /\ condition' = [condition EXCEPT ![row] = "RESOLVED"]
      /\ \/ /\ resolving[r].final
            /\ application' = [application EXCEPT ![a] = "APPROVED"]
            /\ Manual!Advance(a, "DECIDED")
         \/ /\ ~resolving[r].final
            /\ UNCHANGED <<application, review, lockVersion>>
      /\ resolving' = [resolving EXCEPT ![r] = Manual!Idle]
      /\ UNCHANGED <<reviewer, leased, recommendation, decision, faults>>
  BY <1>2 DEF Manual!Commit, Manual!End
<1>4. row = <<a, row[2]>> /\ row[2] \in Conditions
  OBVIOUS
<1>5. /\ condition' \in [Applications \X Conditions -> {"NONE", "PENDING", "RESOLVED"}]
      /\ condition'[row] = "RESOLVED"
      /\ \A other \in Applications \X Conditions : other # row => condition'[other] = condition[other]
  BY <1>1, <1>3 DEF IInv, TypeOK, Manual!TypeOK
<1>6. Manual!TypeOK'
  <2>1. /\ review' \in [Applications -> {"NONE", "OPEN", "ASSIGNED", "PENDING_APPROVAL", "DECIDED"}]
        /\ lockVersion' \in [Applications -> Nat]
    BY <1>1, <1>3, AdvanceTypes DEF IInv, TypeOK, Manual!TypeOK
  <2>2. QED
    BY <1>3, <1>5, <2>1, LeavesResolution DEF IInv, TypeOK, Manual!TypeOK
<1>7. /\ \A b \in Applications \ {a} : application'[b] = application[b] /\ review'[b] = review[b]
      /\ resolving[r].final => application'[a] = "APPROVED" /\ review'[a] = "DECIDED"
      /\ ~resolving[r].final => application'[a] = application[a] /\ review'[a] = review[a]
  BY <1>1, <1>3 DEF Manual!Advance, IInv, TypeOK, Manual!TypeOK, App!TypeOK
<1>8. \A b \in Applications \ {a} : OtherCase(b)
  BY <1>3, <1>4, <1>5, <1>7 DEF OtherCase
<1>9. Manual!Cleared(a)' <=> resolving[r].final
  <2>1. DOMAIN condition' = Applications \X Conditions
    BY <1>5
  <2>2. Manual!Cleared(a)' <=> \A k \in Conditions : condition'[<<a, k>>] # "PENDING"
    BY <1>1, <2>1 DEF Manual!Cleared, Manual!Rows
  <2>3. Manual!LastResolved(row) <=>
           \A k \in Conditions : condition[<<row[1], k>>] = "PENDING" => k = row[2]
    BY <1>1, LastMeaning DEF IInv, TypeOK
  <2>4. \A k \in Conditions : k # row[2] => condition'[<<a, k>>] = condition[<<a, k>>]
    BY <1>1, <1>4, <1>5
  <2>5. condition'[<<a, row[2]>>] = "RESOLVED"
    BY <1>4, <1>5
  <2>6. QED
    BY <1>1, <2>2, <2>3, <2>4, <2>5
<1>10. CaseSound(a)'
  BY <1>1, <1>2, <1>3, <1>7, <1>9 DEF CaseSound
<1>11. \A b \in Applications : CaseSound(b)'
  BY <1>6, <1>8, <1>10, OtherCases DEF IInv, TypeOK, Reviewed
<1>12. /\ Resolving' = Resolving \ {r} /\ OneResolution'
       /\ \A s \in Resolving' : resolving'[s] = resolving[s]
  BY <1>3, LeavesResolution
<1>13. \A s \in Resolving' : ResolutionSound(s)'
  <2>1. TAKE s \in Resolving'
  <2>2. /\ s \in Resolvers /\ resolving'[s] = resolving[s] /\ ResolutionSound(s)
        /\ resolving[s].row \in Applications \X Conditions
        /\ resolving[s].row[1] \in Applications \ {a}
    BY <1>0, <1>12 DEF IInv, Reviewed, ResolutionSound, OneResolution, Resolving
  <2>3. QED
    BY <1>6, <1>8, <2>2, OtherCases DEF IInv, TypeOK
<1>14. \A b \in Applications : Decided(b)
  BY <1>2, <1>7 DEF Decided
<1>15. QED
  BY <1>6, <1>11, <1>12, <1>13, <1>14 DEF Reviewed

LEMMA ResolutionFails ==
  ASSUME IInv, NEW r \in Resolvers, Manual!Fail(r)
  PROVE  Manual!TypeOK' /\ Reviewed' /\ \A b \in Applications : Decided(b)
<1>1. /\ UNCHANGED <<application, review, lockVersion, reviewer, leased, recommendation, condition, decision>>
      /\ resolving' = [resolving EXCEPT ![r] = Manual!Idle]
      /\ faults < MaxFaults /\ faults' = faults + 1
  BY DEF Manual!Fail, Manual!End, Manual!case
<1>2. /\ resolving' \in [Resolvers -> [at : {"idle", "write", "commit"},
                             row : (Applications \X Conditions) \cup {<<>>}, final : BOOLEAN]]
      /\ Resolving' = Resolving \ {r}
      /\ \A s \in Resolving' : resolving'[s] = resolving[s]
      /\ OneResolution'
  BY <1>1, LeavesResolution
<1>3. faults' \in 0..MaxFaults
  BY <1>1, BoundsAssumption DEF IInv, TypeOK, Manual!TypeOK
<1>4. Manual!TypeOK'
  BY <1>1, <1>2, <1>3 DEF IInv, TypeOK, Manual!TypeOK
<1>5. \A b \in Applications : OtherCase(b)
  BY <1>1 DEF OtherCase
<1>6. \A b \in Applications : CaseSound(b)'
  BY <1>4, <1>5, OtherCases DEF IInv, TypeOK, Reviewed
<1>7. \A s \in Resolving' : ResolutionSound(s)'
  <2>1. TAKE s \in Resolving'
  <2>2. /\ s \in Resolvers /\ resolving'[s] = resolving[s] /\ ResolutionSound(s)
        /\ resolving[s].row \in Applications \X Conditions /\ resolving[s].row[1] \in Applications
    BY <1>2 DEF IInv, Reviewed, ResolutionSound, Resolving
  <2>3. QED
    BY <1>4, <1>5, <2>2, OtherCases DEF IInv, TypeOK
<1>8. QED
  BY <1>1, <1>2, <1>4, <1>6, <1>7 DEF Reviewed, Decided

\* A case is opened on what is UNDER_REVIEW, and nothing is decided without a case.
Opens(a) ==
    \/ UNCHANGED review[a] /\ (review[a] = "NONE" => UNCHANGED application[a])
    \/ review'[a] # "NONE" /\ (review[a] # "NONE" \/ application[a] = "UNDER_REVIEW")

LEMMA ReviewOpens ==
  ASSUME IInv, Manual!Next, NEW a \in Applications
  PROVE  Opens(a)
<1>1. /\ review \in [Applications -> {"NONE", "OPEN", "ASSIGNED", "PENDING_APPROVAL", "DECIDED"}]
      /\ application \in [Applications -> {"NONE", "SUBMITTED", "UNDER_REVIEW", "APPROVED", "REJECTED"}]
  BY DEF IInv, TypeOK, App!TypeOK, Manual!TypeOK
<1>2. ASSUME NEW b \in Applications,
             \/ Manual!Open(b) \/ Manual!LeaseExpires(b) \/ Manual!Decide(b)
             \/ \E r \in Reviewers : Manual!Assign(b, r)
             \/ \E kind, conditions : Manual!Recommend(b, kind, conditions)
      PROVE  Opens(a)
  BY <1>1, <1>2 DEF Manual!Open, Manual!LeaseExpires, Manual!Decide, Manual!Assign, Manual!Recommend,
                    Manual!Advance, Opens
<1>3. ASSUME NEW r \in Resolvers, Manual!Commit(r)
      PROVE  Opens(a)
  <2>1. PICK b \in Applications : b = resolving[r].row[1] /\ review[b] = "PENDING_APPROVAL"
    BY <1>3 DEF Manual!Commit, Manual!At, IInv, Reviewed, Resolving, ResolutionSound
  <2>2. \/ UNCHANGED <<application, review>>
        \/ /\ application' = [application EXCEPT ![b] = "APPROVED"]
           /\ Manual!Advance(b, "DECIDED")
    BY <1>3, <2>1 DEF Manual!Commit
  <2>3. QED
    BY <1>1, <2>1, <2>2 DEF Manual!Advance, Opens
<1>4. ASSUME NEW r \in Resolvers,
             Manual!Write(r) \/ Manual!Fail(r) \/ \E row \in Applications \X Conditions : Manual!Resolve(r, row)
      PROVE  Opens(a)
  BY <1>4 DEF Manual!Write, Manual!Fail, Manual!Resolve, Manual!case, Opens
<1>5. QED
  BY <1>2, <1>3, <1>4 DEF Manual!Next, Manual!Step

\* A review decides what is UNDER_REVIEW and leaves everything else as it is.
LEMMA ReviewKeeps ==
  ASSUME IInv, Review
  PROVE  IInv'
<1>1. Manual!Next /\ UNCHANGED <<loan, underwriting, contracting>>
  BY DEF Review
<1>2. Manual!TypeOK' /\ Reviewed' /\ \A b \in Applications : Decided(b)
  BY <1>1, OpenStep, AssignStep, LeaseExpiresStep, RecommendStep, ManualDecideStep, ResolveStep,
     WriteStep, CommitStep, ResolutionFails DEF Manual!Next, Manual!Step
<1>3. application' = [a \in Applications |-> application'[a]]
  <2>1. application \in [Applications -> {"NONE", "SUBMITTED", "UNDER_REVIEW", "APPROVED", "REJECTED"}]
    BY DEF IInv, TypeOK, App!TypeOK
  <2>2. \/ UNCHANGED application
        \/ \E a, status : application' = [application EXCEPT ![a] = status]
    BY <1>1 DEF Manual!Next, Manual!Step, Manual!Open, Manual!Assign, Manual!LeaseExpires,
           Manual!Recommend, Manual!Decide, Manual!Resolve, Manual!Write, Manual!Commit, Manual!Fail
  <2>3. QED
    BY <2>1, <2>2
<1>4. application' \in [Applications -> {"NONE", "SUBMITTED", "UNDER_REVIEW", "APPROVED", "REJECTED"}]
  <2>1. \A a \in Applications :
           application'[a] \in {"NONE", "SUBMITTED", "UNDER_REVIEW", "APPROVED", "REJECTED"}
    BY <1>2 DEF Decided, IInv, TypeOK, App!TypeOK
  <2>2. QED
    BY <1>3, <2>1
<1>5. TypeOK'
  BY <1>1, <1>2, <1>4 DEF IInv, TypeOK, App!TypeOK, Manual!TypeOK, Off!TypeOK, underwriting, contracting
<1>6. Underwritten'
  <2>1. \A c \in Calls : CallSound(c)'
    BY <1>1, <1>2 DEF IInv, Underwritten, CallSound, App!At, Decided, underwriting
  <2>2. \A a \in Applications : EvaluationSound(a)'
    BY <1>1, <1>2 DEF IInv, Underwritten, EvaluationSound, App!IsEvaluated, Decided, underwriting
  <2>3. QED
    BY <2>1, <2>2 DEF Underwritten
<1>7. Contracted'
  <2>1. \A q \in Requests : RequestSound(q)'
    BY <1>1, <1>2 DEF IInv, Contracted, RequestSound, Off!At, Decided, contracting
  <2>2. \A a \in Applications : ContractSound(a)'
    BY <1>1, <1>2 DEF IInv, Contracted, ContractSound, Decided, contracting
  <2>3. OneIssue'
    BY <1>1 DEF IInv, Contracted, OneIssue, Off!At, contracting
  <2>4. QED
    BY <2>1, <2>2, <2>3 DEF Contracted
<1>8. AllGrounded'
  <2>1. SUFFICES ASSUME NEW a \in Applications PROVE Grounded(a)'
    BY DEF AllGrounded
  <2>2. Grounded(a) /\ Opens(a) /\ Decided(a) /\ UNCHANGED evaluated[a]
    BY <1>1, <1>2, ReviewOpens DEF IInv, AllGrounded, underwriting
  <2>3. QED
    BY <2>2, SameFindings DEF Grounded, Opens, Decided
<1>9. QED
  BY <1>2, <1>5, <1>6, <1>7, <1>8 DEF IInv

-----------------------------------------------------------------------------
(* Contracting. *)

LEMMA OfferTypes ==
  /\ Off!Idle \in [at : Off!Points, row : Applications \cup Off!Offers \cup {NoRow}]
  /\ \A o \in Off!Offers : o[1] \in Applications /\ o[2] \in 1..MaxOffers
  BY DEF Off!Idle, Off!Points, Off!Offers

\* A request that is idle again.
LEMMA EndStep ==
  ASSUME IInv, NEW q \in Requests, request' = [request EXCEPT ![q] = Off!Idle]
  PROVE  /\ request' \in [Requests -> [at : Off!Points, row : Applications \cup Off!Offers \cup {NoRow}]]
         /\ OneIssue'
         /\ \A p \in Requests : request'[p].at # "idle" => p # q /\ request'[p] = request[p]
<1>1. /\ request \in [Requests -> [at : Off!Points, row : Applications \cup Off!Offers \cup {NoRow}]]
      /\ OneIssue
  BY DEF IInv, TypeOK, Off!TypeOK, Contracted
<1>2. \A p \in Requests : request'[p].at # "idle" => p # q /\ request'[p] = request[p]
  BY <1>1 DEF Off!Idle
<1>3. OneIssue'
  BY <1>1, <1>2 DEF OneIssue, Off!At
<1>4. QED
  BY <1>1, <1>2, <1>3, OfferTypes

\* What is known of an application whose offers and loan stay as they are.
LEMMA OtherContracts ==
  ASSUME NEW a \in Applications, UNCHANGED <<application[a], offers[a], loan[a]>>, ContractSound(a)
  PROVE  ContractSound(a)'
  BY DEF ContractSound

LEMMA IssueStep ==
  ASSUME IInv, NEW q \in Requests, NEW a \in Applications, Off!Issue(q, a, Offerable(a))
  PROVE  Off!TypeOK' /\ Contracted'
<1>1. request \in [Requests -> [at : Off!Points, row : Applications \cup Off!Offers \cup {NoRow}]]
  BY DEF IInv, TypeOK, Off!TypeOK
<1>2. /\ UNCHANGED <<application, offers, lapsed, loan>>
      /\ application[a] = "APPROVED" /\ Len(offers[a]) < MaxOffers
      /\ request' = [request EXCEPT ![q] = [at |-> "supersede", row |-> a]]
  BY DEF Off!Issue, Off!GoTo
<1>3. Off!TypeOK'
  BY <1>1, <1>2 DEF IInv, TypeOK, Off!TypeOK, Off!Points
<1>4. \A p \in Requests : RequestSound(p)'
  BY <1>1, <1>2 DEF IInv, Contracted, RequestSound, Off!At
<1>5. \A p \in Requests : Off!At(p, "supersede") => request[p].row # a
  BY DEF Off!Issue, Off!Free, Off!Held, Off!At
<1>6. OneIssue'
  BY <1>1, <1>2, <1>5 DEF IInv, Contracted, OneIssue, Off!At
<1>7. QED
  BY <1>2, <1>3, <1>4, <1>6, OtherContracts DEF IInv, Contracted

\* An acceptance goes on to its next lock.
LEMMA LockStep ==
  ASSUME IInv, NEW q \in Requests, NEW o \in Off!Offers, NEW point \in {"lockApplication", "accept"},
         Off!GoTo(q, point, o), UNCHANGED <<application, offers, lapsed, loan>>
  PROVE  Off!TypeOK' /\ Contracted'
<1>1. request \in [Requests -> [at : Off!Points, row : Applications \cup Off!Offers \cup {NoRow}]]
  BY DEF IInv, TypeOK, Off!TypeOK
<1>2. request' = [request EXCEPT ![q] = [at |-> point, row |-> o]]
  BY DEF Off!GoTo
<1>3. Off!TypeOK'
  BY <1>1, <1>2 DEF IInv, TypeOK, Off!TypeOK, Off!Points
<1>4. \A p \in Requests : RequestSound(p)'
  BY <1>1, <1>2 DEF IInv, Contracted, RequestSound, Off!At
<1>5. OneIssue'
  BY <1>1, <1>2 DEF IInv, Contracted, OneIssue, Off!At
<1>6. QED
  BY <1>3, <1>4, <1>5, OtherContracts DEF IInv, Contracted

LEMMA RolledBackStep ==
  ASSUME IInv, NEW q \in Requests, Off!RolledBack(q)
  PROVE  Off!TypeOK' /\ Contracted'
<1>1. request' = [request EXCEPT ![q] = Off!Idle] /\ UNCHANGED <<application, offers, lapsed, loan>>
  BY DEF Off!RolledBack, Off!End
<1>2. Off!TypeOK'
  BY <1>1, EndStep DEF IInv, TypeOK, Off!TypeOK
<1>3. (\A p \in Requests : RequestSound(p)') /\ OneIssue'
  BY <1>1, EndStep DEF IInv, Contracted, RequestSound, Off!At
<1>4. QED
  BY <1>1, <1>2, <1>3, OtherContracts DEF IInv, Contracted

LEMMA LapseStep ==
  ASSUME IInv, NEW o \in Off!Offers, Off!Lapse(o)
  PROVE  Off!TypeOK' /\ Contracted'
  BY OtherContracts
     DEF Off!Lapse, IInv, TypeOK, Off!TypeOK, Contracted, RequestSound, OneIssue, Off!At

\* A new version replaces the offer in force and none that is accepted.
LEMMA RecordOfferStep ==
  ASSUME IInv, NEW q \in Requests, Off!RecordOffer(q)
  PROVE  Off!TypeOK' /\ Contracted'
<1>1. /\ request[q].row \in Applications /\ application[request[q].row] = "APPROVED"
      /\ Len(offers[request[q].row]) < MaxOffers /\ Off!At(q, "supersede")
  BY DEF Off!RecordOffer, IInv, Contracted, RequestSound
<1> PICK a \in Applications : a = request[q].row
  BY <1>1
<1>2. /\ offers \in [Applications -> Seq(Off!Statuses)] /\ offers[a] \in Seq(Off!Statuses)
      /\ \A b \in Applications : Len(offers[b]) <= MaxOffers
  BY DEF IInv, TypeOK, Off!TypeOK
<1> DEFINE old == [v \in DOMAIN offers[a] |-> Off!Supersede(offers[a][v])]
           new == Append(old, "ISSUED")
<1>3. /\ offers' = [offers EXCEPT ![a] = new]
      /\ request' = [request EXCEPT ![q] = Off!Idle]
      /\ UNCHANGED <<application, lapsed, loan>>
  BY DEF Off!RecordOffer, Off!End
<1>4. DOMAIN offers[a] = 1..Len(offers[a]) /\ Len(offers[a]) \in Nat
      /\ \A v \in DOMAIN offers[a] : offers[a][v] \in Off!Statuses
  BY <1>2
<1>5. old \in Seq(Off!Statuses) /\ Len(old) = Len(offers[a])
  BY <1>4 DEF Off!Supersede, Off!Statuses
<1>6. /\ new \in Seq(Off!Statuses) /\ Len(new) = Len(offers[a]) + 1 /\ DOMAIN new = 1..Len(offers[a]) + 1
      /\ new[Len(offers[a]) + 1] = "ISSUED"
      /\ \A v \in 1..Len(offers[a]) : new[v] = Off!Supersede(offers[a][v])
  <2>1. \A v \in 1..Len(offers[a]) : old[v] = Off!Supersede(offers[a][v])
    BY <1>4
  <2> HIDE DEF old
  <2>2. QED
    BY <1>4, <1>5, <2>1 DEF Off!Statuses
<1> HIDE DEF new, old
<1>7. \A b \in Applications : offers'[b] = IF b = a THEN new ELSE offers[b]
  BY <1>2, <1>3
<1>8. \A b \in Applications : Len(offers'[b]) <= MaxOffers
  BY <1>1, <1>2, <1>4, <1>6, <1>7, BoundsAssumption
<1>9. Off!TypeOK'
  <2>1. offers' \in [Applications -> Seq(Off!Statuses)]
    BY <1>2, <1>3, <1>6
  <2>2. QED
    BY <1>3, <1>8, <2>1, EndStep DEF IInv, TypeOK, Off!TypeOK
<1>10. \A p \in Requests : RequestSound(p)'
  <2>1. TAKE p \in Requests
  <2>2. CASE request'[p].at = "idle"
    BY <2>2 DEF RequestSound, Off!At
  <2>3. CASE request'[p].at # "idle"
    <3>1. p # q /\ request'[p] = request[p] /\ RequestSound(p)
      BY <1>3, <2>3, EndStep DEF IInv, Contracted
    <3>2. Off!At(p, "supersede") => request[p].row # a
      BY <1>1, <3>1 DEF IInv, Contracted, OneIssue
    <3>3. QED
      BY <1>3, <1>7, <3>1, <3>2 DEF RequestSound, Off!At
  <2>4. QED
    BY <2>2, <2>3
<1>11. ContractSound(a)'
  <2>1. ContractSound(a) /\ application'[a] = "APPROVED" /\ loan'[a] = loan[a] /\ offers'[a] = new
    BY <1>1, <1>3, <1>7 DEF IInv, Contracted
  <2>2. \A v \in DOMAIN new : new[v] = "ACCEPTED" <=> v \in DOMAIN offers[a] /\ offers[a][v] = "ACCEPTED"
    BY <1>4, <1>6 DEF Off!Supersede
  <2>3. \A v \in DOMAIN new : new[v] = "ISSUED" => v = Len(new)
    BY <1>4, <1>6 DEF Off!Supersede
  <2>4. \A v \in DOMAIN offers[a] : v \in DOMAIN new
    BY <1>4, <1>6
  <2>5. (loan[a] # "NONE") <=> \E v \in DOMAIN new : new[v] = "ACCEPTED"
    BY <2>1, <2>2, <2>4 DEF ContractSound
  <2>6. \A v, w \in DOMAIN new : new[v] = "ACCEPTED" /\ new[w] = "ACCEPTED" => v = w
    BY <2>1, <2>2 DEF ContractSound
  <2>7. QED
    BY <2>1, <2>3, <2>5, <2>6 DEF ContractSound
<1>12. \A b \in Applications : ContractSound(b)'
  BY <1>3, <1>7, <1>11, OtherContracts DEF IInv, Contracted
<1>13. OneIssue'
  BY <1>3, EndStep
<1>14. QED
  BY <1>9, <1>10, <1>12, <1>13 DEF Contracted

\* The offer in force is accepted when there is no loan, which no other one is then.
LEMMA RecordAcceptanceStep ==
  ASSUME IInv, NEW q \in Requests, Off!RecordAcceptance(q)
  PROVE  Off!TypeOK' /\ Contracted'
<1>1. request[q].row \in Off!Offers
  BY DEF Off!RecordAcceptance, Off!At, IInv, Contracted, RequestSound
<1> PICK o \in Off!Offers : o = request[q].row
  BY <1>1
<1> PICK a \in Applications : a = o[1]
  BY OfferTypes
<1> PICK n \in 1..MaxOffers : n = o[2]
  BY OfferTypes
<1>2. /\ \/ /\ o \in Off!InForce(a) /\ loan[a] = "NONE"
            /\ offers' = [offers EXCEPT ![a][n] = "ACCEPTED"]
            /\ loan' = [loan EXCEPT ![a] = "APPROVED"]
         \/ UNCHANGED <<offers, loan>>
      /\ request' = [request EXCEPT ![q] = Off!Idle]
      /\ UNCHANGED <<application, lapsed>>
  BY DEF Off!RecordAcceptance, Off!End, Off!HasNoLoan
<1>3. CASE UNCHANGED <<offers, loan>>
  <2>1. Off!TypeOK'
    BY <1>2, <1>3, EndStep DEF IInv, TypeOK, Off!TypeOK
  <2>2. (\A p \in Requests : RequestSound(p)') /\ OneIssue'
    BY <1>2, <1>3, EndStep DEF IInv, Contracted, RequestSound, Off!At
  <2>3. QED
    BY <1>2, <1>3, <2>1, <2>2, OtherContracts DEF IInv, Contracted
<1>4. CASE /\ o \in Off!InForce(a) /\ loan[a] = "NONE"
           /\ offers' = [offers EXCEPT ![a][n] = "ACCEPTED"]
           /\ loan' = [loan EXCEPT ![a] = "APPROVED"]
  <2>1. /\ offers \in [Applications -> Seq(Off!Statuses)] /\ offers[a] \in Seq(Off!Statuses)
        /\ \A b \in Applications : Len(offers[b]) <= MaxOffers
        /\ loan \in [Applications -> {"NONE", "APPROVED", "DISBURSED", "ACTIVE"}]
    BY DEF IInv, TypeOK, Off!TypeOK
  <2>2. n \in DOMAIN offers[a] /\ offers[a][n] = "ISSUED"
    BY <1>4, <2>1, BoundsAssumption DEF Off!InForce
  <2> DEFINE new == [offers[a] EXCEPT ![n] = "ACCEPTED"]
  <2>3. /\ new \in Seq(Off!Statuses) /\ Len(new) = Len(offers[a]) /\ DOMAIN new = DOMAIN offers[a]
        /\ \A v \in DOMAIN offers[a] : new[v] = IF v = n THEN "ACCEPTED" ELSE offers[a][v]
    BY <2>1, <2>2 DEF Off!Statuses
  <2>4. offers' = [offers EXCEPT ![a] = new]
    BY <1>4
  <2> HIDE DEF new
  <2>5. \A b \in Applications : /\ offers'[b] = IF b = a THEN new ELSE offers[b]
                                /\ Len(offers'[b]) = Len(offers[b])
    BY <2>1, <2>3, <2>4
  <2>6. Off!TypeOK'
    <3>1. offers' \in [Applications -> Seq(Off!Statuses)]
      BY <2>1, <2>3, <2>4
    <3>2. loan' \in [Applications -> {"NONE", "APPROVED", "DISBURSED", "ACTIVE"}]
      BY <1>4, <2>1
    <3>3. QED
      BY <1>2, <2>1, <2>5, <3>1, <3>2, EndStep DEF IInv, TypeOK, Off!TypeOK
  <2>7. \A p \in Requests : RequestSound(p)'
    BY <1>2, <2>5, EndStep DEF IInv, Contracted, RequestSound, Off!At
  <2>8. ContractSound(a)'
    <3>1. ContractSound(a) /\ offers'[a] = new /\ loan'[a] = "APPROVED" /\ application'[a] = application[a]
      BY <1>2, <1>4, <2>1, <2>5 DEF IInv, Contracted
    <3>2. offers[a] # <<>>
      BY <2>2
    <3>3. \A v \in DOMAIN offers[a] : offers[a][v] # "ACCEPTED"
      BY <1>4, <3>1 DEF ContractSound
    <3>4. QED
      BY <2>2, <2>3, <3>1, <3>2, <3>3 DEF ContractSound
  <2>9. \A b \in Applications \ {a} : ContractSound(b)'
    BY <1>2, <1>4, <2>1, <2>5, OtherContracts DEF IInv, Contracted
  <2>10. QED
    BY <1>2, <2>6, <2>7, <2>8, <2>9, EndStep DEF Contracted
<1>5. QED
  BY <1>2, <1>3, <1>4

LEMMA ContractKeeps ==
  ASSUME IInv, Contract
  PROVE  IInv'
<1>1. UNCHANGED <<application, underwriting, manual, faults>>
  BY DEF Contract, Off!Issue, Off!Accept, Off!Step, Off!RecordOffer, Off!LockApplication,
         Off!RecordAcceptance, Off!RolledBack, Off!Lapse
<1>2. ASSUME NEW q \in Requests, NEW o \in Off!Offers, Off!Accept(q, o)
      PROVE  Off!TypeOK' /\ Contracted'
  BY <1>2, LockStep DEF Off!Accept
<1>3. ASSUME NEW q \in Requests, Off!LockApplication(q)
      PROVE  Off!TypeOK' /\ Contracted'
  <2>1. request[q].row \in Off!Offers
    BY <1>3 DEF Off!LockApplication, Off!At, IInv, Contracted, RequestSound
  <2>2. QED
    BY <1>3, <2>1, LockStep DEF Off!LockApplication
<1>4. Off!TypeOK' /\ Contracted'
  BY <1>2, <1>3, IssueStep, RecordOfferStep, RecordAcceptanceStep, RolledBackStep, LapseStep
     DEF Contract, Off!Step
<1>5. TypeOK'
  BY <1>1, <1>4 DEF IInv, TypeOK, App!TypeOK, Manual!TypeOK, Off!TypeOK, underwriting, manual
<1>6. Underwritten'
  BY <1>1 DEF IInv, Underwritten, CallSound, EvaluationSound, App!IsEvaluated, App!At, underwriting
<1>7. Reviewed'
  BY <1>1 DEF IInv, Reviewed, CaseSound, Resolving, ResolutionSound, OneResolution, Manual!At,
              Manual!LastResolved, Manual!Cleared, Manual!Rows, manual
<1>8. AllGrounded'
  BY <1>1, SameGrounds DEF IInv, underwriting, manual
<1>9. QED
  BY <1>4, <1>5, <1>6, <1>7, <1>8 DEF IInv

LEMMA ProceedKeeps ==
  ASSUME IInv, NEW a \in Applications, Proceed(a)
  PROVE  IInv'
<1>1. /\ UNCHANGED <<application, underwriting, manual, contracting, faults>>
      /\ loan' \in [Applications -> {"NONE", "APPROVED", "DISBURSED", "ACTIVE"}]
      /\ \A b \in Applications : loan'[b] = "NONE" <=> loan[b] = "NONE"
  BY DEF Proceed, IInv, TypeOK, App!TypeOK
<1>2. TypeOK'
  BY <1>1 DEF IInv, TypeOK, App!TypeOK, Manual!TypeOK, Off!TypeOK, underwriting, manual, contracting
<1>3. Underwritten'
  BY <1>1 DEF IInv, Underwritten, CallSound, EvaluationSound, App!IsEvaluated, App!At, underwriting
<1>4. Reviewed'
  BY <1>1 DEF IInv, Reviewed, CaseSound, Resolving, ResolutionSound, OneResolution, Manual!At,
              Manual!LastResolved, Manual!Cleared, Manual!Rows, manual
<1>5. Contracted'
  BY <1>1 DEF IInv, Contracted, RequestSound, OneIssue, ContractSound, Off!At, contracting
<1>6. AllGrounded'
  BY <1>1, SameGrounds DEF IInv, underwriting, manual
<1>7. QED
  BY <1>2, <1>3, <1>4, <1>5, <1>6 DEF IInv

-----------------------------------------------------------------------------
(* The composition. *)

LEMMA InitStep == Init => IInv
<1> SUFFICES ASSUME Init PROVE IInv
  OBVIOUS
<1>1. App!TypeOK
  <2>1. \A a \in Applications : evaluated[a].version <= evidence[a].version
    BY DEF Init, App!Init, App!NoEvidence
  <2>2. QED
    BY <2>1, EvidenceTypes, BoundsAssumption DEF Init, App!Init, App!TypeOK
<1>2. Manual!TypeOK
  BY BoundsAssumption DEF Init, Manual!Init, Manual!TypeOK, Manual!Idle
<1>3. Off!TypeOK
  BY <1>1, BoundsAssumption, OfferTypes DEF Init, Off!Init, Off!TypeOK, App!TypeOK
<1>4. Underwritten
  BY DEF Init, App!Init, App!Idle, App!NoEvidence, App!At, Underwritten, CallSound, EvaluationSound,
         App!IsEvaluated
<1>5. Reviewed
  BY DEF Init, App!Init, Manual!Init, Manual!Idle, Manual!At, Reviewed, CaseSound, Resolving,
         OneResolution
<1>6. Contracted
  BY DEF Init, App!Init, Off!Init, Off!Idle, Off!At, Contracted, RequestSound, OneIssue, ContractSound
<1>7. AllGrounded
  BY DEF Init, App!Init, Manual!Init, AllGrounded, Grounded
<1>8. QED
  BY <1>1, <1>2, <1>3, <1>4, <1>5, <1>6, <1>7 DEF IInv, TypeOK

LEMMA NextStep == IInv /\ [Next]_vars => IInv'
<1> SUFFICES ASSUME IInv, [Next]_vars PROVE IInv'
  OBVIOUS
<1>1. CASE UNCHANGED vars
  <2>1. TypeOK'
    BY <1>1 DEF IInv, TypeOK, App!TypeOK, Manual!TypeOK, Off!TypeOK, vars, underwriting, manual, contracting
  <2>2. Underwritten'
    BY <1>1 DEF IInv, Underwritten, CallSound, EvaluationSound, App!IsEvaluated, App!At, vars, underwriting
  <2>3. Reviewed'
    BY <1>1 DEF IInv, Reviewed, CaseSound, Resolving, ResolutionSound, OneResolution, Manual!At,
                Manual!LastResolved, Manual!Cleared, Manual!Rows, vars, manual
  <2>4. Contracted'
    BY <1>1 DEF IInv, Contracted, RequestSound, OneIssue, ContractSound, Off!At, vars, contracting
  <2>5. AllGrounded'
    BY <1>1, SameGrounds DEF IInv, vars, underwriting, manual
  <2>6. QED
    BY <2>1, <2>2, <2>3, <2>4, <2>5 DEF IInv
<1>2. QED
  BY <1>1, UnderwriteKeeps, ReviewKeeps, ContractKeeps, ProceedKeeps DEF Next

LEMMA OriginationInvariance == Spec => []IInv
  BY InitStep, NextStep, PTL DEF Spec

\* The status of an application has its grounds, whatever the order of evaluations,
\* decisions and resolutions of conditions.
THEOREM GroundsHold == Spec => []StatusIsGrounded
<1>1. IInv => StatusIsGrounded
  <2> SUFFICES ASSUME IInv PROVE StatusIsGrounded
    OBVIOUS
  <2>1. ASSUME NEW a \in Applications
        PROVE  /\ CaseSound(a) /\ Grounded(a)
               /\ review[a] \in {"NONE", "OPEN", "ASSIGNED", "PENDING_APPROVAL", "DECIDED"}
    BY DEF IInv, AllGrounded, Reviewed, TypeOK, Manual!TypeOK
  <2>2. ASSUME NEW a \in Applications, application[a] = "APPROVED"
        PROVE  \/ decision[a] = "NONE" /\ a \in Automatic /\ FoundGood(a)
               \/ decision[a] = "APPROVED"
               \/ decision[a] = "CONDITIONAL_APPROVAL" /\ Manual!Cleared(a)
    BY <2>1, <2>2 DEF CaseSound, Grounded
  <2>3. ASSUME NEW a \in Applications, application[a] = "REJECTED"
        PROVE  (decision[a] = "NONE" /\ FoundBad(a)) \/ decision[a] = "REJECTED"
    BY <2>1, <2>3 DEF CaseSound, Grounded
  <2>4. ASSUME NEW a \in Applications, application[a] = "UNDER_REVIEW" \/ decision[a] # "NONE"
        PROVE  Referred(a)
    BY <2>1, <2>4 DEF CaseSound, Grounded
  <2>5. ASSUME NEW a \in Applications
        PROVE  review[a] = "DECIDED" <=> decision[a] # "NONE" /\ application[a] # "UNDER_REVIEW"
    BY <2>1 DEF CaseSound
  <2>6. ASSUME NEW a \in Applications, decision[a] = "CONDITIONAL_APPROVAL", Manual!Cleared(a)
        PROVE  application[a] = "APPROVED"
    BY <2>1, <2>6 DEF CaseSound
  <2>7. QED
    BY <2>2, <2>3, <2>4, <2>5, <2>6 DEF IInv, StatusIsGrounded, StatusHasItsGrounds, ClearedIsApproved
<1>2. QED
  BY <1>1, OriginationInvariance, PTL

\* However issues and acceptances interleave, an application has one loan at most, of the
\* one offer that was accepted.
THEOREM OneOfferHolds == Spec => []OneOfferOneLoan
<1>1. IInv => OneOfferOneLoan
  BY DEF IInv, Contracted, ContractSound, OneOfferOneLoan
<1>2. QED
  BY <1>1, OriginationInvariance, PTL

-----------------------------------------------------------------------------
(* Evidence that is gathered once. *)

LEMMA CollectingFinite ==
  ASSUME NEW a \in Applications
  PROVE  IsFiniteSet(Collecting(a)) /\ Cardinality(Collecting(a)) \in Nat
<1>1. Collecting(a) \subseteq Calls
  BY DEF Collecting, Working
<1>2. QED
  BY <1>1, FiniteAssumption, FS_Subset, FS_CardinalityType

\* One call at most collects evidence where collections have not overlapped.
LEMMA AtMostOne ==
  ASSUME NEW a \in Applications, Cardinality(Collecting(a)) <= 1,
         NEW c \in Collecting(a), NEW d \in Collecting(a)
  PROVE  c = d
<1>1. IsFiniteSet(Collecting(a)) /\ {c, d} \subseteq Collecting(a)
  BY CollectingFinite
<1>2. c # d => Cardinality({c, d}) = 2
  <2>1. IsFiniteSet({c}) /\ Cardinality({c}) = 1
    BY FS_Singleton
  <2>2. c # d => Cardinality({c} \cup {d}) = Cardinality({c}) + 1
    BY <2>1, FS_AddElement
  <2>3. {c} \cup {d} = {c, d}
    OBVIOUS
  <2>4. QED
    BY <2>1, <2>2, <2>3
<1>3. IsFiniteSet({c, d}) /\ Cardinality({c, d}) <= Cardinality(Collecting(a))
  BY <1>1, FS_Subset
<1>4. Cardinality({c, d}) \in Nat /\ Cardinality(Collecting(a)) \in Nat
  BY <1>1, <1>3, FS_CardinalityType
<1>5. QED
  BY <1>2, <1>3, <1>4

\* What changes the evidence of an application, or the calls that gather it.
LEMMA AloneStep ==
  ASSUME IInv, [Next]_vars, NEW a \in Applications, AloneSound(a), Cardinality(Collecting(a))' <= 1
  PROVE  AloneSound(a)'
<1> DEFINE Gathers(c) == call[c].application = a /\ call[c].at \in {"collect", "store"}
<1>1. \A c \in Calls : Gathers(c) => c \in Collecting(a) /\ evidence[a].version = 0
  BY DEF AloneSound, Collecting, Working, App!At
<1>2. evidence[a].version \in Nat /\ \A b \in Applications : evidence[b].version \in Nat
  BY DEF IInv, TypeOK, App!TypeOK, App!Evidence
<1>3. call \in [Calls -> [at : App!Points, application : Applications \cup {NoApplication},
                          evidence : App!Evidence]]
      /\ evidence \in [Applications -> App!Evidence] /\ NoApplication \notin Applications
  BY ActorsAssumption DEF IInv, TypeOK, App!TypeOK
<1>4. SUFFICES /\ evidence'[a].version <= 1
               /\ \A c \in Calls : Gathers(c)' => evidence'[a].version = 0
  BY DEF AloneSound, Collecting, Working, App!At
<1>5. CASE UNCHANGED <<evidence, call>>
  BY <1>1, <1>5 DEF AloneSound
<1>6. ASSUME NEW c \in Calls, NEW b \in Applications, App!Submit(c, b)
      PROVE  UNCHANGED evidence /\ \A d \in Calls : Gathers(d)' => evidence[a].version = 0
  <2>1. evidence[b].version = 0
    BY <1>2, <1>6 DEF App!Submit, App!Collects, App!HasEvidence, IInv, Underwritten, EvaluationSound
  <2>2. QED
    BY <1>1, <1>3, <1>6, <2>1 DEF App!Submit, App!Begin
<1>7. ASSUME NEW c \in Calls, App!Collect(c)
      PROVE  UNCHANGED evidence /\ \A d \in Calls : Gathers(d)' => Gathers(d)
  BY <1>3, <1>7 DEF App!Collect, App!Begin, App!At
<1>8. ASSUME NEW c \in Calls,
             App!Fail(c) \/ App!Decide(c) \/ \E b \in Applications : App!Evaluate(c, b)
      PROVE  UNCHANGED evidence /\ \A d \in Calls : Gathers(d)' => Gathers(d)
  BY <1>3, <1>8 DEF App!Evaluate, App!Fail, App!Decide, App!Begin, App!End, App!Idle
<1>9. ASSUME NEW c \in Calls, App!Store(c)
      PROVE  /\ evidence'[a].version <= 1
             /\ \A d \in Calls : Gathers(d)' => evidence'[a].version = 0
  <2>1. \A d \in Calls : Gathers(d)' => Gathers(d) /\ d # c
    BY <1>3, <1>9 DEF App!Store, App!End, App!Idle
  <2>2. CASE call[c].application # a
    <3>1. evidence'[a] = evidence[a]
      BY <1>3, <1>9, <2>2 DEF App!Store
    <3>2. QED
      BY <1>1, <2>1, <3>1 DEF AloneSound
  <2>3. CASE call[c].application = a
    <3>1. Gathers(c) /\ evidence[a].version = 0
      BY <1>1, <1>9, <2>3 DEF App!Store, App!At
    <3>2. evidence' = [evidence EXCEPT ![a] = [call[c].evidence EXCEPT !.version = 1]]
      BY <1>9, <2>3, <3>1 DEF App!Store
    <3>3. evidence'[a].version = 1
      BY <1>3, <3>2 DEF App!Evidence
    <3>4. \A d \in Calls : Gathers(d) => d = c
      BY <1>1, <3>1, AtMostOne DEF AloneSound
    <3>5. QED
      BY <2>1, <3>3, <3>4
  <2>4. QED
    BY <2>2, <2>3
<1>10. CASE App!Next
  <2>1. \/ UNCHANGED <<evidence, call>>
        \/ \E c \in Calls : \/ \E b \in Applications : App!Submit(c, b) \/ App!Evaluate(c, b)
                            \/ App!Collect(c) \/ App!Store(c) \/ App!Decide(c) \/ App!Fail(c)
    BY <1>10 DEF App!Next, App!Step, App!Expire
  <2>2. \/ UNCHANGED <<evidence, call>>
        \/ \E c \in Calls : App!Store(c)
        \/ UNCHANGED evidence /\ \A d \in Calls : Gathers(d)' => evidence[a].version = 0
    BY <1>1, <1>6, <1>7, <1>8, <2>1
  <2>3. CASE UNCHANGED evidence /\ \A d \in Calls : Gathers(d)' => evidence[a].version = 0
    BY <2>3 DEF AloneSound
  <2>4. QED
    BY <1>5, <1>9, <2>2, <2>3
<1>11. CASE UNCHANGED underwriting
  BY <1>5, <1>11 DEF underwriting
<1>12. QED
  BY <1>10, <1>11 DEF Next, Underwrite, Review, Contract, Proceed, vars

-----------------------------------------------------------------------------
(* Loans that evidence shows. *)

\* What was found for an application was counted for it.
LEMMA HeldIsCounted ==
  ASSUME IInv, NEW a \in Applications, NEW n, Holds(a, n)
  PROVE  IsCounted(a)
<1>1. evidence[a].version \in Nat /\ evaluated[a].version \in Nat
      /\ evaluated[a].version <= evidence[a].version
  BY DEF IInv, TypeOK, App!TypeOK, App!Evidence
<1>2. ASSUME NEW c \in Working(a), App!At(c, "decide")
      PROVE  evidence[a].version > 0
  <2>1. c \in Calls /\ call[c].application = a /\ call[c].evidence.version \in Nat
    BY <1>2 DEF Working, IInv, TypeOK, App!TypeOK, App!Evidence
  <2>2. QED
    BY <1>1, <1>2, <2>1 DEF IInv, Underwritten, CallSound
<1>3. QED
  BY <1>1, <1>2 DEF Holds, IsCounted, App!HasEvidence, App!IsEvaluated

\* The number found for an application by a step is one that was found before, or has
\* just been counted.
Found(a, n) ==
    /\ UNCHANGED loan
    /\ n = Cardinality(App!Counted)
    /\ \E c \in Working(a) : App!At(c, "collect") /\ (App!At(c, "store"))'

LEMMA UnderwriteHolds ==
  ASSUME IInv, App!Next, UNCHANGED loan, NEW a \in Applications, NEW n, Holds(a, n)'
  PROVE  Holds(a, n) \/ Found(a, n)
<1>1. /\ call \in [Calls -> [at : App!Points, application : Applications \cup {NoApplication},
                             evidence : App!Evidence]]
      /\ evidence \in [Applications -> App!Evidence] /\ NoApplication \notin Applications
      /\ evaluated \in [Applications -> App!Evidence]
  BY ActorsAssumption DEF IInv, TypeOK, App!TypeOK
<1>2. ASSUME NEW c \in Calls, NEW b \in Applications, App!Submit(c, b)
      PROVE  Holds(a, n)
  BY <1>1, <1>2 DEF App!Submit, App!Begin, Holds, Working, App!At, App!HasEvidence, App!IsEvaluated
<1>3. ASSUME NEW c \in Calls, App!Collect(c)
      PROVE  Holds(a, n) \/ Found(a, n)
  <2>1. PICK v \in App!Verdicts :
           call' = [call EXCEPT ![c] = [at |-> "store", application |-> call[c].application,
               evidence |-> [verdict |-> v, loans |-> App!Cardinality(App!Counted), version |-> 0]]]
    BY <1>3 DEF App!Collect, App!Begin
  <2>2. UNCHANGED <<evaluated, evidence>> /\ App!At(c, "collect")
    BY <1>3 DEF App!Collect
  <2>3. /\ call'[c].evidence.loans = Cardinality(App!Counted) /\ (App!At(c, "store"))'
        /\ call'[c].application = call[c].application
    BY <1>1, <2>1, SameCardinality DEF App!At
  <2>4. \A d \in Calls \ {c} : call'[d] = call[d]
    BY <1>1, <2>1
  <2>5. QED
    BY <2>2, <2>3, <2>4 DEF Holds, Found, Working, App!At, App!HasEvidence, App!IsEvaluated
<1>4. ASSUME NEW c \in Calls, App!Store(c)
      PROVE  Holds(a, n)
  <2>1. PICK b \in Applications : b = call[c].application
    BY <1>4 DEF App!Store, App!At, IInv, Underwritten, CallSound
  <2>2. /\ call' = [call EXCEPT ![c] = App!Idle]
        /\ evidence' = [evidence EXCEPT ![b] = [call[c].evidence EXCEPT !.version = evidence[b].version + 1]]
        /\ UNCHANGED evaluated
    BY <1>4, <2>1 DEF App!Store, App!End
  <2>3. c \in Working(b) /\ App!At(c, "store") /\ call[c].evidence \in App!Evidence
    BY <1>1, <1>4, <2>1 DEF Working, App!Store
  <2>4. /\ evidence'[b].loans = call[c].evidence.loans
        /\ \A d \in Applications \ {b} : evidence'[d] = evidence[d]
    BY <1>1, <2>2, <2>3 DEF App!Evidence
  <2>5. \A d \in Calls : call'[d].at # "idle" => call'[d] = call[d]
    BY <1>1, <2>2 DEF App!Idle
  <2>6. QED
    BY <2>2, <2>3, <2>4, <2>5 DEF Holds, Working, App!At, App!HasEvidence, App!IsEvaluated
<1>5. ASSUME NEW c \in Calls, App!Fail(c)
      PROVE  Holds(a, n)
  BY <1>1, <1>5 DEF App!Fail, App!End, App!Idle, Holds, Working, App!At, App!HasEvidence, App!IsEvaluated
<1>6. ASSUME NEW c \in Calls, NEW b \in Applications, App!Evaluate(c, b)
      PROVE  Holds(a, n)
  <2>1. /\ call' = [call EXCEPT ![c] = [at |-> "decide", application |-> b, evidence |-> evidence[b]]]
        /\ UNCHANGED <<evaluated, evidence>> /\ App!HasEvidence(b)
    BY <1>6 DEF App!Evaluate, App!Begin
  <2>2. QED
    BY <1>1, <2>1 DEF Holds, Working, App!At, App!HasEvidence, App!IsEvaluated
<1>7. ASSUME NEW c \in Calls, App!Decide(c)
      PROVE  Holds(a, n)
  <2>1. PICK b \in Applications : b = call[c].application
    BY <1>7 DEF App!Decide, App!At, IInv, Underwritten, CallSound
  <2>2. /\ call' = [call EXCEPT ![c] = App!Idle]
        /\ UNCHANGED evidence
        /\ UNCHANGED evaluated \/ evaluated' = [evaluated EXCEPT ![b] = call[c].evidence]
    BY <1>7, <2>1 DEF App!Decide, App!End
  <2>3. c \in Working(b) /\ App!At(c, "decide")
    BY <1>7, <2>1 DEF Working, App!Decide
  <2>4. \A d \in Calls : call'[d].at # "idle" => call'[d] = call[d]
    BY <1>1, <2>2 DEF App!Idle
  <2>5. /\ evaluated'[b] \in {evaluated[b], call[c].evidence}
        /\ \A d \in Applications \ {b} : evaluated'[d] = evaluated[d]
    BY <1>1, <2>2
  <2>6. QED
    BY <2>2, <2>3, <2>4, <2>5 DEF Holds, Working, App!At, App!HasEvidence, App!IsEvaluated
<1>8. ASSUME NEW b \in Applications, App!Expire(b)
      PROVE  Holds(a, n)
  BY <1>8 DEF App!Expire, Holds, Working, App!At, App!HasEvidence, App!IsEvaluated
<1>9. QED
  BY <1>2, <1>3, <1>4, <1>5, <1>6, <1>7, <1>8 DEF App!Next, App!Step

LEMMA HoldsStep ==
  ASSUME IInv, [Next]_vars, NEW a \in Applications, NEW n, Holds(a, n)'
  PROVE  Holds(a, n) \/ Found(a, n)
<1>1. CASE Underwrite
  <2>1. App!Next /\ UNCHANGED loan
    BY <1>1, UnderwriteStep DEF Underwrite, IInv
  <2>2. QED
    BY <2>1, UnderwriteHolds
<1>2. CASE UNCHANGED underwriting
  BY <1>2 DEF underwriting, Holds, Working, App!At, App!HasEvidence, App!IsEvaluated
<1>3. QED
  BY <1>1, <1>2 DEF Next, Review, Contract, Proceed, vars

\* Only an acceptance makes a loan, on an application that is approved.
LEMMA LoanStep ==
  ASSUME IInv, [Next]_vars, NEW a \in Applications
  PROVE  /\ loan'[a] = "NONE" => loan[a] = "NONE"
         /\ loan[a] = "NONE" /\ loan'[a] # "NONE" => application[a] = "APPROVED"
<1>1. loan \in [Applications -> {"NONE", "APPROVED", "DISBURSED", "ACTIVE"}]
  BY DEF IInv, TypeOK, App!TypeOK
<1>2. ASSUME NEW q \in Requests, Off!RecordAcceptance(q), ~UNCHANGED loan
      PROVE  \E b \in Applications : loan[b] = "NONE" /\ application[b] = "APPROVED"
                                     /\ loan' = [loan EXCEPT ![b] = "APPROVED"]
  <2>1. request[q].row \in Off!Offers
    BY <1>2 DEF Off!RecordAcceptance, Off!At, IInv, Contracted, RequestSound
  <2> PICK o \in Off!Offers : o = request[q].row
    BY <2>1
  <2> PICK b \in Applications : b = o[1]
    BY OfferTypes
  <2>2. o \in Off!InForce(b) /\ loan[b] = "NONE" /\ loan' = [loan EXCEPT ![b] = "APPROVED"]
    BY <1>2 DEF Off!RecordAcceptance, Off!HasNoLoan
  <2>3. o[2] \in 1..MaxOffers /\ o[2] <= Len(offers[b]) /\ offers[b] \in Seq(Off!Statuses)
    BY <2>2, OfferTypes DEF Off!InForce, IInv, TypeOK, Off!TypeOK
  <2>4. offers[b] # <<>>
    BY <2>3
  <2>5. application[b] = "APPROVED"
    BY <2>4 DEF IInv, Contracted, ContractSound
  <2>6. QED
    BY <2>2, <2>5
<1>3. CASE Contract
  <2>1. UNCHANGED loan \/ \E q \in Requests : Off!RecordAcceptance(q)
    BY <1>3 DEF Contract, Off!Issue, Off!Accept, Off!Step, Off!RecordOffer, Off!LockApplication,
                Off!RolledBack, Off!Lapse
  <2>2. QED
    BY <1>1, <1>2, <2>1
<1>4. CASE Underwrite
  BY <1>4, UnderwriteStep DEF Underwrite, IInv
<1>5. ASSUME NEW b \in Applications, Proceed(b)
      PROVE  loan'[a] = "NONE" <=> loan[a] = "NONE"
  BY <1>1, <1>5 DEF Proceed
<1>6. QED
  BY <1>3, <1>4, <1>5 DEF Next, Review, vars

LEMMA LoansFinite ==
  ASSUME NEW S
  PROVE  IsFiniteSet(Loans \ S) /\ Cardinality(Loans \ S) \in Nat
<1>1. Loans \ S \subseteq Applications
  BY DEF Loans
<1>2. QED
  BY <1>1, FiniteAssumption, FS_Subset, FS_CardinalityType

\* Once the loans are counted for an application, those made are missed; those DISBURSED
\* are when they are counted.
LEMMA SeenStep ==
  ASSUME IInv, Next, NEW a \in Applications, SeenSound(a), missed \in [Applications -> SUBSET Applications],
         missed' = [b \in Applications |->
             IF loan[b] = "NONE" THEN missed[b] \cup MissedNow(b) ELSE missed[b]]
  PROVE  SeenSound(a)'
<1>1. SUFFICES ASSUME loan'[a] = "NONE", NEW n \in Nat, Holds(a, n)'
               PROVE  Cardinality(Loans' \ missed'[a]) <= n
  BY DEF SeenSound
<1>2. loan[a] = "NONE" /\ missed'[a] = missed[a] \cup MissedNow(a)
  BY <1>1, LoanStep
<1>3. Loans' \subseteq Applications
  BY DEF Loans
<1>4. CASE Holds(a, n)
  <2>1. Cardinality(Loans \ missed[a]) <= n
    BY <1>2, <1>4 DEF SeenSound
  <2>2. Loans' \ missed'[a] \subseteq Loans \ missed[a]
    <3>1. SUFFICES ASSUME NEW b \in Loans', b \notin missed'[a]
                   PROVE  b \in Loans /\ b \notin missed[a]
      OBVIOUS
    <3>2. b \in Applications /\ loan'[b] # "NONE" /\ b \notin missed[a] /\ b \notin MissedNow(a)
      BY <1>2, <3>1 DEF Loans
    <3>3. loan[b] # "NONE"
      BY <1>4, <3>2, HeldIsCounted DEF MissedNow
    <3>4. QED
      BY <3>2, <3>3 DEF Loans
  <2>3. Cardinality(Loans' \ missed'[a]) <= Cardinality(Loans \ missed[a])
    BY <2>2, LoansFinite, FS_Subset
  <2>4. Cardinality(Loans' \ missed'[a]) \in Nat /\ Cardinality(Loans \ missed[a]) \in Nat
    <3>1. IsFiniteSet(Loans' \ missed'[a])
      BY <2>2, LoansFinite, FS_Subset
    <3>2. QED
      BY <3>1, LoansFinite, FS_CardinalityType
  <2>5. QED
    BY <2>1, <2>3, <2>4
<1>5. CASE Found(a, n)
  <2>1. n = Cardinality(App!Counted)
    BY <1>5 DEF Found
  <2>2. Loans' \ missed'[a] \subseteq App!Counted
    <3>1. SUFFICES ASSUME NEW b \in Loans', b \notin missed'[a]
                   PROVE  b \in App!Counted
      OBVIOUS
    <3>2. b \in Applications /\ loan[b] # "NONE" /\ b \notin MissedNow(a)
      BY <1>2, <1>5, <3>1 DEF Loans, Found
    <3>3. loan[b] # "DISBURSED"
      BY <1>5, <3>2 DEF MissedNow, Found
    <3>4. QED
      BY <3>2, <3>3 DEF App!Counted, IInv, TypeOK, App!TypeOK
  <2>3. IsFiniteSet(App!Counted)
    <3>1. App!Counted \subseteq Applications
      BY DEF App!Counted
    <3>2. QED
      BY <3>1, FiniteAssumption, FS_Subset
  <2>4. QED
    BY <2>1, <2>2, <2>3, FS_Subset
<1>6. QED
  BY <1>1, <1>4, <1>5, HoldsStep

\* A loan is made on what the evaluation has counted.
LEMMA LoanIsWithinPolicy ==
  ASSUME IInv, [Next]_vars, NEW a \in WithPolicy, SeenSound(a), loan[a] = "NONE", loan'[a] # "NONE"
  PROVE  Cardinality(Loans \ missed[a]) <= MaxActiveLoans
<1>1. a \in Applications
  BY ActorsAssumption
<1>2. application[a] = "APPROVED"
  BY <1>1, LoanStep
<1>3. App!IsEvaluated(a) /\ Good(evaluated[a])
  <2>1. Grounded(a)
    BY <1>1 DEF IInv, AllGrounded
  <2>2. QED
    BY <1>2, <2>1 DEF Grounded, FoundGood, Referred
<1>4. evaluated[a].loans \in Nat /\ evaluated[a].loans <= MaxActiveLoans
  <2>1. Cardinality(Applications) \in Nat
    BY FiniteAssumption, FS_CardinalityType
  <2>2. evaluated[a].loans \in 0..Cardinality(Applications)
    BY <1>1, SameCardinality DEF IInv, TypeOK, App!TypeOK, App!Evidence
  <2>3. QED
    BY <1>3, <2>1, <2>2 DEF Good
<1>5. Holds(a, evaluated[a].loans)
  BY <1>3 DEF Holds
<1>6. Cardinality(Loans \ missed[a]) <= evaluated[a].loans
  BY <1>1, <1>4, <1>5 DEF SeenSound
<1>7. QED
  BY <1>4, <1>6, LoansFinite, BoundsAssumption

-----------------------------------------------------------------------------
(* The history. *)

LEMMA HistoryInitStep == HistoryInit => HInv
<1> SUFFICES ASSUME HistoryInit PROVE HInv
  OBVIOUS
<1>1. IInv /\ overlapped = {} /\ missed = [a \in Applications |-> {}]
  BY InitStep DEF HistoryInit
<1>2. ASSUME NEW a \in Applications
      PROVE  /\ Working(a) = {} /\ Collecting(a) = {}
             /\ evidence[a].version = 0 /\ evaluated[a].version = 0
  BY ActorsAssumption DEF HistoryInit, Init, App!Init, App!Idle, App!NoEvidence, Working, Collecting
<1>3. \A a \in Applications : AloneSound(a)
  BY <1>2, FS_EmptySet DEF AloneSound
<1>4. \A a \in Applications : SeenSound(a)
  BY <1>2 DEF SeenSound, Holds, App!HasEvidence, App!IsEvaluated
<1>5. QED
  BY <1>1, <1>3, <1>4 DEF HInv

LEMMA HistoryStep == HInv /\ [HistoryNext]_<<vars, history>> => HInv'
<1> SUFFICES ASSUME HInv, [HistoryNext]_<<vars, history>> PROVE HInv'
  OBVIOUS
<1>1. IInv /\ [Next]_vars
  BY DEF HInv, HistoryNext
<1>2. IInv'
  BY <1>1, NextStep
<1>3. CASE UNCHANGED <<vars, history>>
  <2>1. \A a \in Applications : Collecting(a)' = Collecting(a) /\ Working(a)' = Working(a)
    BY <1>3 DEF Collecting, Working, App!At, vars, underwriting
  <2>2. \A a \in Applications \ overlapped : AloneSound(a)'
    BY <1>3, <2>1 DEF HInv, AloneSound, vars, underwriting
  <2>3. \A a \in Applications : SeenSound(a)'
    BY <1>3 DEF HInv, SeenSound, Holds, Loans, Working, App!At, App!HasEvidence, App!IsEvaluated,
                vars, underwriting, history
  <2>4. QED
    BY <1>2, <1>3, <2>2, <2>3 DEF HInv, history
<1>4. CASE HistoryNext
  <2>1. overlapped' = overlapped \cup {a \in Applications : Cardinality(Collecting(a))' > 1}
    BY <1>4 DEF HistoryNext
  <2>2. \A a \in Applications : Cardinality(Collecting(a))' \in Nat
    <3>1. TAKE a \in Applications
    <3>2. Collecting(a)' \subseteq Calls
      BY DEF Collecting, Working
    <3>3. QED
      BY <3>2, FiniteAssumption, FS_Subset, FS_CardinalityType
  <2>3. /\ overlapped' \subseteq Applications
        /\ \A a \in Applications \ overlapped' : AloneSound(a) /\ Cardinality(Collecting(a))' <= 1
    BY <2>1, <2>2 DEF HInv
  <2>4. \A a \in Applications \ overlapped' : AloneSound(a)'
    BY <1>1, <2>3, AloneStep
  <2>5. missed' = [a \in Applications |->
           IF loan[a] = "NONE" THEN missed[a] \cup MissedNow(a) ELSE missed[a]]
    BY <1>4 DEF HistoryNext
  <2>6. \A a \in Applications : MissedNow(a) \in SUBSET Applications
    BY DEF MissedNow
  <2>7. missed' \in [Applications -> SUBSET Applications]
    BY <2>5, <2>6 DEF HInv
  <2>8. \A a \in Applications : SeenSound(a)'
    BY <1>1, <1>4, <2>5, SeenStep DEF HInv, HistoryNext
  <2>9. QED
    BY <1>2, <2>3, <2>4, <2>7, <2>8 DEF HInv
<1>5. QED
  BY <1>3, <1>4

LEMMA HistoryInvariance == HistorySpec => []HInv
  BY HistoryInitStep, HistoryStep, PTL DEF HistorySpec

\* Where collections do not overlap, an application is evaluated on the only evidence it gets,
\* whatever fails and is sent again.
THEOREM LatestHolds == HistorySpec => []EvaluatedOnLatest
<1>1. HInv => EvaluatedOnLatest
  <2> SUFFICES ASSUME HInv, NEW a \in Applications \ overlapped
               PROVE  /\ evidence[a].version <= 1
                      /\ App!IsEvaluated(a) => evaluated[a] = evidence[a]
    BY DEF EvaluatedOnLatest
  <2>1. evidence[a].version <= 1 /\ evidence[a].version \in Nat
    BY DEF HInv, AloneSound, IInv, TypeOK, App!TypeOK, App!Evidence
  <2>2. /\ evaluated[a].version \in Nat /\ evaluated[a].version <= evidence[a].version
        /\ EvaluationSound(a)
    BY DEF HInv, IInv, TypeOK, App!TypeOK, App!Evidence, Underwritten
  <2>3. QED
    BY <2>1, <2>2 DEF EvaluationSound, App!IsEvaluated
<1>2. QED
  BY <1>1, HistoryInvariance, PTL

\* The policy's limit on the customer's other loans is kept by every loan made under a
\* policy, but for the loans its evidence could not show.
THEOREM PolicyHolds == HistorySpec => WithinPolicy
<1>1. HInv /\ [HistoryNext]_<<vars, history>> =>
         [\A a \in WithPolicy :
             loan[a] = "NONE" /\ loan'[a] # "NONE" =>
                 Cardinality(Loans \ missed[a]) <= MaxActiveLoans]_<<vars, history>>
  <2> SUFFICES ASSUME HInv, [HistoryNext]_<<vars, history>>,
                      NEW a \in WithPolicy, loan[a] = "NONE", loan'[a] # "NONE"
               PROVE  Cardinality(Loans \ missed[a]) <= MaxActiveLoans
    OBVIOUS
  <2>1. IInv /\ [Next]_vars /\ SeenSound(a)
    BY ActorsAssumption DEF HInv, HistoryNext
  <2>2. QED
    BY <2>1, LoanIsWithinPolicy
<1>2. QED
  BY <1>1, HistoryInvariance, PTL DEF HistorySpec, WithinPolicy

-----------------------------------------------------------------------------
(* Product: the inductive invariant. *)

ProductTypes ==
    /\ product \in {"NONE", "DRAFT", "ACTIVE"}
    /\ versions \in Seq(Version)
    /\ events \subseteq DOMAIN versions
    /\ consumed \in [Approvals -> Keys \cup {None}]
    /\ attempt \in [Attempts -> Call]
    /\ deaths \in 0..MaxDeaths

Inserting == {c \in Attempts : At(c, "insert")}

\* Every creation under way has room for its version.
RoomInv == Len(versions) + Cardinality(Inserting) <= MaxVersions

KeysInv == \A v, w \in DOMAIN versions : versions[v].key = versions[w].key => v = w

AttemptInv(c) ==
    /\ At(c, "insert") => attempt[c].key \in Keys
    /\ attempt[c].at \in {"approve", "retire", "wait", "publish"} =>
          attempt[c].key \in Keys /\ attempt[c].approval \in Approvals /\ attempt[c].version \in DOMAIN versions
    /\ attempt[c].at \in {"retire", "wait", "publish"} =>
          VersionOf[attempt[c].approval] = attempt[c].version /\ consumed[attempt[c].approval] # None
    /\ attempt[c].held # {} => At(c, "publish")

HeldInv ==
    /\ \A c \in Attempts : attempt[c].held \subseteq Current
    /\ \A c, d \in Attempts : c # d => attempt[c].held \cap attempt[d].held = {}

VersionInv(v) ==
    /\ versions[v].status = "PUBLISHED" <=> versions[v].current
    /\ versions[v].status # "DRAFT" =>
          /\ versions[v].approval # None /\ VersionOf[versions[v].approval] = v
          /\ consumed[versions[v].approval] # None
          /\ v \in events

InForceInv ==
    /\ \A v, w \in Current : v = w
    /\ Current # {} => product = "ACTIVE"

ProductInv ==
    /\ ProductTypes
    /\ RoomInv
    /\ KeysInv
    /\ \A c \in Attempts : AttemptInv(c)
    /\ HeldInv
    /\ \A v \in DOMAIN versions : VersionInv(v)
    /\ InForceInv

\* What no step takes back.
Kept ==
    /\ DOMAIN versions \subseteq DOMAIN versions'
    /\ \A a \in Approvals : consumed[a] # None => consumed'[a] # None

\* The step is one of attempt c alone.
Alone(c) == \A d \in Attempts \ {c} : attempt'[d] = attempt[d]

-----------------------------------------------------------------------------
LEMMA IdleAttempt == Idle \in Call
  BY ProductAssumption DEF Idle, Call, Points, Numbers

LEMMA DomainIs ==
  ASSUME ProductTypes
  PROVE  /\ DOMAIN versions = 1..Len(versions) /\ Len(versions) \in Nat
         /\ \A v \in DOMAIN versions : versions[v] \in Version
<1>1. versions \in Seq(Version)
  BY DEF ProductTypes
<1>2. QED
  BY <1>1, LenProperties

LEMMA InsertingCounted == IsFiniteSet(Inserting) /\ Cardinality(Inserting) \in Nat
<1>1. IsFiniteSet(Inserting)
  BY ProductAssumption, FS_Subset DEF Inserting
<1>2. QED
  BY <1>1, FS_CardinalityType

LEMMA InsertingCountedNext == IsFiniteSet(Inserting') /\ Cardinality(Inserting') \in Nat
<1>1. IsFiniteSet(Inserting')
  BY ProductAssumption, FS_Subset DEF Inserting, At
<1>2. QED
  BY <1>1, FS_CardinalityType

\* Versions of the table are within the numbers a request may name.
LEMMA WithinNumbers ==
  ASSUME ProductTypes, RoomInv
  PROVE  Len(versions) <= MaxVersions /\ DOMAIN versions \subseteq Numbers
<1>1. Len(versions) <= MaxVersions
  BY InsertingCounted, DomainIs, ProductAssumption DEF RoomInv
<1>2. QED
  BY <1>1, DomainIs, ProductAssumption DEF Numbers

\* The first state.
LEMMA ProductInitStep == ProductInit => ProductInv
<1> SUFFICES ASSUME ProductInit PROVE ProductInv
  OBVIOUS
<1>1. versions \in Seq(Version) /\ Len(versions) = 0 /\ DOMAIN versions = {}
  BY EmptySeq DEF ProductInit
<1>2. ProductTypes
  BY <1>1, IdleAttempt, ProductAssumption DEF ProductInit, ProductTypes
<1>3. RoomInv
  <2>1. Inserting = {}
    BY DEF ProductInit, Inserting, At, Idle
  <2>2. QED
    BY <1>1, <2>1, FS_EmptySet, ProductAssumption DEF RoomInv
<1>4. KeysInv /\ (\A v \in DOMAIN versions : VersionInv(v)) /\ InForceInv
  BY <1>1 DEF KeysInv, InForceInv, Current
<1>5. (\A c \in Attempts : AttemptInv(c)) /\ HeldInv
  BY DEF ProductInit, AttemptInv, HeldInv, At, Idle
<1>6. QED
  BY <1>2, <1>3, <1>4, <1>5 DEF ProductInv

-----------------------------------------------------------------------------
(* Steps that leave the table of versions alone. *)

LEMMA AttemptsKept ==
  ASSUME ProductTypes, Kept, \A d \in Attempts : AttemptInv(d), NEW c \in Attempts, AttemptInv(c)', Alone(c)
  PROVE  \A d \in Attempts : AttemptInv(d)'
<1> SUFFICES ASSUME NEW d \in Attempts PROVE AttemptInv(d)'
  OBVIOUS
<1>1. CASE d = c
  BY <1>1
<1>2. CASE d # c
  BY <1>2 DEF AttemptInv, Kept, Alone, At, ProductTypes
<1>3. QED
  BY <1>1, <1>2

\* With no creation begun there is room as before.
LEMMA RoomKept ==
  ASSUME ProductInv, NEW c \in Attempts, Alone(c), attempt'[c].at # "insert", UNCHANGED versions
  PROVE  RoomInv'
<1>1. Inserting' \subseteq Inserting
  BY DEF Inserting, At, Alone
<1>2. Cardinality(Inserting') <= Cardinality(Inserting)
  BY <1>1, InsertingCounted, FS_Subset
<1>3. Len(versions) \in Nat
  BY DomainIs DEF ProductInv
<1>4. QED
  BY <1>2, <1>3, InsertingCounted, InsertingCountedNext, ProductAssumption DEF ProductInv, RoomInv

LEMMA TableKept ==
  ASSUME ProductInv, Kept, UNCHANGED <<versions, product, events>>, consumed' \in [Approvals -> Keys \cup {None}]
  PROVE  /\ KeysInv' /\ InForceInv'
         /\ \A v \in (DOMAIN versions)' : VersionInv(v)'
<1>1. KeysInv' /\ InForceInv'
  BY DEF ProductInv, KeysInv, InForceInv, Current
<1>2. ASSUME NEW v \in DOMAIN versions PROVE VersionInv(v)'
  <2>1. versions[v].approval \in Approvals \cup {None}
    BY DomainIs DEF ProductInv, Version
  <2>2. QED
    BY <2>1 DEF ProductInv, VersionInv, Kept
<1>3. QED
  BY <1>1, <1>2

\* A step that moves one attempt, which has nothing locked afterwards.
LEMMA QuietStep ==
  ASSUME ProductInv, Kept, NEW c \in Attempts, Alone(c), UNCHANGED <<versions, product, events>>,
         consumed' \in [Approvals -> Keys \cup {None}], deaths' \in 0..MaxDeaths,
         attempt' \in [Attempts -> Call], AttemptInv(c)', attempt'[c].at # "insert", attempt'[c].held = {}
  PROVE  ProductInv'
<1>1. ProductTypes'
  BY DEF ProductInv, ProductTypes
<1>2. HeldInv'
  BY DEF ProductInv, HeldInv, Current, Alone
<1>3. \A d \in Attempts : AttemptInv(d)'
  BY AttemptsKept DEF ProductInv
<1>4. QED
  BY <1>1, <1>2, <1>3, RoomKept, TableKept DEF ProductInv

LEMMA AttemptEnds ==
  ASSUME ProductInv, NEW c \in Attempts, End(c), UNCHANGED <<versions, product, events, consumed>>,
         deaths' \in 0..MaxDeaths
  PROVE  ProductInv'
<1>1. attempt' \in [Attempts -> Call] /\ attempt'[c] = Idle /\ Alone(c)
  BY IdleAttempt DEF End, ProductInv, ProductTypes, Alone
<1>2. Kept
  BY DEF Kept
<1>3. AttemptInv(c)' /\ attempt'[c].at # "insert" /\ attempt'[c].held = {}
  BY <1>1 DEF AttemptInv, At, Idle
<1>4. QED
  BY <1>1, <1>2, <1>3, QuietStep DEF ProductInv, ProductTypes

LEMMA CreateProductStep == ASSUME ProductInv, CreateProduct PROVE ProductInv'
<1>1. Current = {} /\ UNCHANGED <<versions, events, consumed, attempt, deaths>> /\ product' = "DRAFT"
  BY DEF CreateProduct, ProductInv, InForceInv
<1>2. ProductTypes' /\ KeysInv' /\ RoomInv'
  BY <1>1 DEF ProductInv, ProductTypes, KeysInv, RoomInv, Inserting, At
<1>3. InForceInv' /\ HeldInv'
  BY <1>1 DEF ProductInv, InForceInv, HeldInv, Current
<1>4. ASSUME NEW c \in Attempts PROVE AttemptInv(c)'
  BY <1>1 DEF ProductInv, AttemptInv, At
<1>5. ASSUME NEW v \in DOMAIN versions PROVE VersionInv(v)'
  BY <1>1 DEF ProductInv, VersionInv
<1>6. QED
  BY <1>1, <1>2, <1>3, <1>4, <1>5 DEF ProductInv

LEMMA CreateVersionStep ==
  ASSUME ProductInv, NEW c \in Attempts, NEW k \in Keys, CreateVersion(c, k) PROVE ProductInv'
<1> DEFINE new == [Idle EXCEPT !.at = "insert", !.key = k]
<1>1. new \in Call /\ new.at = "insert" /\ new.key = k /\ new.held = {}
  <2>1. Idle.held = {}
    BY DEF Idle
  <2>2. QED
    BY <2>1, IdleAttempt DEF Call, Points
<1>2. attempt' = [attempt EXCEPT ![c] = new]
  BY DEF CreateVersion
<1> HIDE DEF new
<1>3. attempt' \in [Attempts -> Call] /\ attempt'[c] = new /\ Alone(c)
  BY <1>1, <1>2 DEF ProductInv, ProductTypes, Alone
<1>4. /\ UNCHANGED <<product, versions, events, consumed, deaths>> /\ At(c, "idle")
      /\ Len(versions) + Cardinality(Inserting) < MaxVersions
  BY DEF CreateVersion, Inserting
<1>5. Kept
  BY <1>4 DEF Kept
<1>6. ProductTypes'
  BY <1>3, <1>4 DEF ProductInv, ProductTypes
<1>7. RoomInv'
  <2>1. Inserting' = Inserting \cup {c}
    BY <1>1, <1>3 DEF Inserting, At, Alone
  <2>2. Cardinality(Inserting') = IF c \in Inserting THEN Cardinality(Inserting)
                                                     ELSE Cardinality(Inserting) + 1
    BY <2>1, InsertingCounted, FS_AddElement
  <2>3. Len(versions) \in Nat
    BY DomainIs DEF ProductInv
  <2>4. QED
    BY <1>4, <2>2, <2>3, InsertingCounted, ProductAssumption DEF RoomInv
<1>8. AttemptInv(c)'
  BY <1>1, <1>3 DEF AttemptInv, At
<1>9. HeldInv'
  BY <1>1, <1>3, <1>4 DEF ProductInv, HeldInv, Current, Alone
<1>10. \A d \in Attempts : AttemptInv(d)'
  BY <1>3, <1>5, <1>8, AttemptsKept DEF ProductInv
<1>11. QED
  BY <1>4, <1>5, <1>6, <1>7, <1>9, <1>10, TableKept DEF ProductInv, ProductTypes

LEMMA PublishStep ==
  ASSUME ProductInv, NEW c \in Attempts, NEW v \in Numbers, NEW a \in Approvals, NEW k \in Keys,
         Publish(c, v, a, k)
  PROVE  ProductInv'
<1> DEFINE new == [Idle EXCEPT !.at = "approve", !.key = k, !.version = v, !.approval = a]
<1>1. /\ new \in Call /\ new.at = "approve" /\ new.key = k /\ new.version = v
      /\ new.approval = a /\ new.held = {}
  <2>1. Idle.held = {}
    BY DEF Idle
  <2>2. v \in 0..MaxVersions
    BY ProductAssumption DEF Numbers
  <2>3. QED
    BY <2>1, <2>2, IdleAttempt DEF Call, Points
<1>2. attempt' = [attempt EXCEPT ![c] = new] /\ v \in DOMAIN versions
      /\ UNCHANGED <<product, versions, events, consumed, deaths>>
  BY DEF Publish
<1> HIDE DEF new
<1>3. attempt' \in [Attempts -> Call] /\ attempt'[c] = new /\ Alone(c)
  BY <1>1, <1>2 DEF ProductInv, ProductTypes, Alone
<1>4. Kept
  BY <1>2 DEF Kept
<1>5. AttemptInv(c)'
  BY <1>1, <1>2, <1>3 DEF AttemptInv, At
<1>6. QED
  BY <1>1, <1>2, <1>3, <1>4, <1>5, QuietStep DEF ProductInv, ProductTypes

LEMMA ApproveStep == ASSUME ProductInv, NEW c \in Attempts, Approve(c) PROVE ProductInv'
<1>1. /\ At(c, "approve") /\ attempt[c].approval \in Approvals /\ attempt[c].key \in Keys
      /\ attempt[c].version \in DOMAIN versions /\ attempt[c].held = {}
      /\ UNCHANGED <<product, versions, events, deaths>>
  BY DEF Approve, ProductInv, AttemptInv, At
<1>2. ASSUME Grants(attempt[c].approval, attempt[c].version, attempt[c].key),
             consumed' = [consumed EXCEPT ![attempt[c].approval] = attempt[c].key], GoTo(c, "retire")
      PROVE  ProductInv'
  <2>1. /\ attempt' \in [Attempts -> Call] /\ Alone(c)
        /\ attempt'[c].at = "retire" /\ attempt'[c].key = attempt[c].key /\ attempt'[c].version = attempt[c].version
        /\ attempt'[c].approval = attempt[c].approval /\ attempt'[c].held = {}
    BY <1>1, <1>2 DEF GoTo, ProductInv, ProductTypes, Call, Points, Alone
  <2>2. attempt[c].key # None
    BY <1>1, ProductAssumption
  <2>3. /\ consumed' \in [Approvals -> Keys \cup {None}] /\ Kept
        /\ consumed'[attempt[c].approval] # None
    BY <1>1, <1>2, <2>2 DEF ProductInv, ProductTypes, Kept
  <2>4. AttemptInv(c)'
    BY <1>1, <1>2, <2>1, <2>3 DEF AttemptInv, At, Grants
  <2>5. QED
    BY <1>1, <2>1, <2>3, <2>4, QuietStep DEF ProductInv, ProductTypes
<1>3. ASSUME End(c), UNCHANGED consumed PROVE ProductInv'
  BY <1>1, <1>3, AttemptEnds DEF ProductInv, ProductTypes
<1>4. QED
  BY <1>2, <1>3 DEF Approve

LEMMA RetireStep == ASSUME ProductInv, NEW c \in Attempts, Retire(c) PROVE ProductInv'
<1>1. /\ At(c, "retire") /\ attempt[c].held = {}
      /\ UNCHANGED <<versions, product, events, consumed, deaths>>
  BY DEF Retire, ProductInv, AttemptInv, At
<1>2. Current \in SUBSET Numbers
  BY WithinNumbers DEF ProductInv, Current
<1>3. attempt' = [attempt EXCEPT ![c] = [attempt[c] EXCEPT !.at = "wait", !.seen = Current]]
  BY DEF Retire, ProductInv, ProductTypes
<1> DEFINE new == [attempt[c] EXCEPT !.at = "wait", !.seen = Current]
<1>4. /\ new \in Call /\ new.at = "wait" /\ new.key = attempt[c].key /\ new.version = attempt[c].version
      /\ new.approval = attempt[c].approval /\ new.held = {}
  BY <1>1, <1>2 DEF ProductInv, ProductTypes, Call, Points
<1> HIDE DEF new
<1>5. attempt' \in [Attempts -> Call] /\ attempt'[c] = new /\ Alone(c)
  BY <1>3, <1>4 DEF new, ProductInv, ProductTypes, Alone
<1>6. Kept
  BY <1>1 DEF Kept
<1>7. AttemptInv(c)'
  BY <1>1, <1>4, <1>5 DEF ProductInv, AttemptInv, At
<1>8. QED
  BY <1>1, <1>4, <1>5, <1>6, <1>7, QuietStep DEF ProductInv, ProductTypes

LEMMA PublicationLocks == ASSUME ProductInv, NEW c \in Attempts, Lock(c) PROVE ProductInv'
<1>1. /\ At(c, "wait") /\ \A v \in attempt[c].seen : ~Locked(c, v)
      /\ UNCHANGED <<versions, product, events, consumed, deaths>>
  BY DEF Lock
<1>2. attempt[c].seen \cap Current \in SUBSET Numbers
  BY WithinNumbers DEF ProductInv, Current
<1>3. attempt' = [attempt EXCEPT ![c] = [attempt[c] EXCEPT !.at = "publish", !.held = attempt[c].seen \cap Current]]
  BY DEF Lock, ProductInv, ProductTypes
<1> DEFINE new == [attempt[c] EXCEPT !.at = "publish", !.held = attempt[c].seen \cap Current]
<1>4. /\ new \in Call /\ new.at = "publish" /\ new.key = attempt[c].key /\ new.version = attempt[c].version
      /\ new.approval = attempt[c].approval /\ new.held = attempt[c].seen \cap Current
  BY <1>2 DEF ProductInv, ProductTypes, Call, Points
<1> HIDE DEF new
<1>5. attempt' \in [Attempts -> Call] /\ attempt'[c] = new /\ Alone(c)
  BY <1>3, <1>4 DEF new, ProductInv, ProductTypes, Alone
<1>6. Kept
  BY <1>1 DEF Kept
<1>7. AttemptInv(c)'
  BY <1>1, <1>4, <1>5 DEF ProductInv, AttemptInv, At
<1>8. \A d \in Attempts : AttemptInv(d)'
  BY <1>5, <1>6, <1>7, AttemptsKept DEF ProductInv
<1>9. HeldInv'
  <2>1. Current' = Current
    BY <1>1 DEF Current
  <2>2. \A d \in Attempts \ {c} : attempt'[c].held \cap attempt[d].held = {}
    BY <1>1, <1>4, <1>5 DEF Locked
  <2>3. QED
    BY <1>4, <1>5, <2>1, <2>2 DEF ProductInv, HeldInv, Alone
<1>10. ProductTypes'
  BY <1>1, <1>5 DEF ProductInv, ProductTypes
<1>11. RoomInv'
  BY <1>1, <1>4, <1>5, RoomKept
<1>12. QED
  BY <1>1, <1>6, <1>8, <1>9, <1>10, <1>11, TableKept DEF ProductInv, ProductTypes

LEMMA AbortStep == ASSUME ProductInv, NEW c \in Attempts, Abort(c) PROVE ProductInv'
<1>1. deaths' \in 0..MaxDeaths
  BY ProductAssumption DEF Abort, ProductInv, ProductTypes
<1>2. QED
  BY <1>1, AttemptEnds DEF Abort

-----------------------------------------------------------------------------
(* Steps that write versions. *)

LEMMA InsertVersionStep == ASSUME ProductInv, NEW c \in Attempts, InsertVersion(c) PROVE ProductInv'
<1>1. At(c, "insert") /\ End(c) /\ UNCHANGED <<product, events, consumed, deaths>>
  BY DEF InsertVersion
<1>2. CASE UNCHANGED versions
  BY <1>1, <1>2, AttemptEnds DEF ProductInv, ProductTypes
<1>3. ASSUME KeyFree(attempt[c].key),
             versions' = Append(versions, [key |-> attempt[c].key, status |-> "DRAFT",
                                           current |-> FALSE, approval |-> None])
      PROVE  ProductInv'
  <2> DEFINE new == [key |-> attempt[c].key, status |-> "DRAFT", current |-> FALSE, approval |-> None]
             n   == Len(versions)
  <2>1. new \in Version /\ new.key = attempt[c].key /\ new.status = "DRAFT" /\ new.current = FALSE
    BY <1>1 DEF ProductInv, AttemptInv, At, Version
  <2> HIDE DEF new
  <2>2. DOMAIN versions = 1..n /\ n \in Nat
    BY DomainIs DEF ProductInv
  <2>3. /\ versions' \in Seq(Version) /\ Len(versions)' = n + 1
        /\ (DOMAIN versions)' = 1..(n + 1)
        /\ \A v \in 1..n : versions'[v] = versions[v]
        /\ versions'[n + 1] = new
    <3>1. versions' = Append(versions, new) /\ versions \in Seq(Version)
      BY <1>3 DEF new, ProductInv, ProductTypes
    <3>2. QED
      BY <2>1, <2>2, <3>1
  <2>4. (DOMAIN versions)' = DOMAIN versions \cup {n + 1}
    BY <2>2, <2>3
  <2>5. attempt' \in [Attempts -> Call] /\ attempt'[c] = Idle /\ Alone(c)
    BY <1>1, IdleAttempt DEF End, ProductInv, ProductTypes, Alone
  <2>6. Kept
    BY <1>1, <2>4 DEF Kept
  <2>7. ProductTypes'
    BY <1>1, <2>3, <2>4, <2>5 DEF ProductInv, ProductTypes
  <2>8. RoomInv'
    <3>1. Inserting' = Inserting \ {c} /\ c \in Inserting
      BY <1>1, <2>5 DEF Inserting, At, Alone, Idle
    <3>2. Cardinality(Inserting') = Cardinality(Inserting) - 1
      BY <3>1, InsertingCounted, FS_RemoveElement
    <3>3. QED
      BY <2>2, <2>3, <3>2, InsertingCounted, ProductAssumption DEF ProductInv, RoomInv
  <2>9. KeysInv'
    <3>1. \A v \in DOMAIN versions : versions[v].key # new.key
      BY <1>3, <2>1 DEF KeyFree
    <3>2. QED
      BY <2>2, <2>3, <2>4, <3>1 DEF ProductInv, KeysInv
  <2>10. Current' = Current
    BY <2>1, <2>2, <2>3, <2>4 DEF Current
  <2>11. \A d \in Attempts : AttemptInv(d)'
    <3>1. AttemptInv(c)'
      BY <2>5 DEF AttemptInv, At, Idle
    <3>2. QED
      BY <2>5, <2>6, <3>1, AttemptsKept DEF ProductInv
  <2>12. HeldInv'
    <3>1. attempt'[c].held = {}
      BY <2>5 DEF Idle
    <3>2. QED
      BY <2>5, <2>10, <3>1 DEF ProductInv, HeldInv, Alone
  <2>13. ASSUME NEW v \in (DOMAIN versions)' PROVE VersionInv(v)'
    <3>1. CASE v \in DOMAIN versions
      BY <1>1, <2>2, <2>3, <3>1 DEF ProductInv, VersionInv
    <3>2. CASE v = n + 1
      BY <2>1, <2>3, <3>2 DEF VersionInv
    <3>3. QED
      BY <2>4, <3>1, <3>2
  <2>14. InForceInv'
    BY <1>1, <2>10 DEF ProductInv, InForceInv
  <2>15. QED
    BY <2>7, <2>8, <2>9, <2>11, <2>12, <2>13, <2>14 DEF ProductInv
<1>4. QED
  BY <1>2, <1>3 DEF InsertVersion

\* A range tells its end.
LEMMA SameInterval == ASSUME NEW m \in Nat, NEW n \in Nat, 1..m = 1..n PROVE m = n
<1>1. ASSUME m < n PROVE FALSE
  <2>1. n \in 1..n /\ n \notin 1..m
    BY <1>1
  <2>2. QED
    BY <2>1
<1>2. ASSUME n < m PROVE FALSE
  <2>1. m \in 1..m /\ m \notin 1..n
    BY <1>2
  <2>2. QED
    BY <2>1
<1>3. QED
  BY <1>1, <1>2

\* What a publication that goes through leaves of the table.
LEMMA CommitEffect ==
  ASSUME ProductInv, NEW c \in Attempts, At(c, "publish"), ~Frozen(c), ~Taken(c),
         versions' = [v \in DOMAIN versions |->
                CASE v = attempt[c].version ->
                       [versions[v] EXCEPT !.status = "PUBLISHED", !.current = TRUE,
                                           !.approval = attempt[c].approval]
                  [] v \in attempt[c].held -> [versions[v] EXCEPT !.status = "RETIRED", !.current = FALSE]
                  [] OTHER -> versions[v]]
  PROVE  /\ versions' \in Seq(Version) /\ (DOMAIN versions)' = DOMAIN versions
         /\ Len(versions)' = Len(versions)
         /\ attempt[c].version \in DOMAIN versions /\ attempt[c].version \notin attempt[c].held
         /\ versions[attempt[c].version].status = "DRAFT"
         /\ Current = attempt[c].held
         /\ \A v \in DOMAIN versions :
               /\ versions'[v].key = versions[v].key
               /\ v = attempt[c].version => versions'[v].status = "PUBLISHED" /\ versions'[v].current
                                         /\ versions'[v].approval = attempt[c].approval
               /\ v \in attempt[c].held => versions'[v].status = "RETIRED" /\ ~versions'[v].current
                                        /\ versions'[v].approval = versions[v].approval
               /\ v # attempt[c].version /\ v \notin attempt[c].held => versions'[v] = versions[v]
<1> DEFINE own == attempt[c].version
<1>1. own \in DOMAIN versions /\ attempt[c].approval \in Approvals /\ versions[own].status = "DRAFT"
  BY DEF ProductInv, AttemptInv, At, Frozen
<1>2. own \notin attempt[c].held /\ Current = attempt[c].held
  BY <1>1 DEF ProductInv, HeldInv, Current, Taken
<1>3. DOMAIN versions = 1..Len(versions) /\ Len(versions) \in Nat
      /\ \A v \in DOMAIN versions : versions[v] \in Version
  BY DomainIs DEF ProductInv
<1>4. ASSUME NEW v \in DOMAIN versions
      PROVE  /\ versions'[v] \in Version
             /\ versions'[v].key = versions[v].key
             /\ v = own => versions'[v].status = "PUBLISHED" /\ versions'[v].current
                           /\ versions'[v].approval = attempt[c].approval
             /\ v \in attempt[c].held => versions'[v].status = "RETIRED" /\ ~versions'[v].current
                                      /\ versions'[v].approval = versions[v].approval
             /\ v # own /\ v \notin attempt[c].held => versions'[v] = versions[v]
  <2>1. CASE v = own
    <3>1. versions'[v] = [versions[v] EXCEPT !.status = "PUBLISHED", !.current = TRUE,
                                             !.approval = attempt[c].approval]
      BY <1>2, <2>1
    <3>2. versions[v] \in Version
      BY <1>3
    <3>3. QED
      BY <1>1, <1>2, <2>1, <3>1, <3>2 DEF Version
  <2>2. CASE v # own /\ v \in attempt[c].held
    <3>1. versions'[v] = [versions[v] EXCEPT !.status = "RETIRED", !.current = FALSE]
      BY <2>2
    <3>2. versions[v] \in Version
      BY <1>3
    <3>3. QED
      BY <2>2, <3>1, <3>2 DEF Version
  <2>3. CASE v # own /\ v \notin attempt[c].held
    BY <1>3, <2>3
  <2>4. QED
    BY <2>1, <2>2, <2>3
<1>5. versions' \in [1..Len(versions) -> Version]
  BY <1>3, <1>4
<1>6. versions' \in Seq(Version)
  BY <1>3, <1>5, SeqDef
<1>7. (DOMAIN versions)' = DOMAIN versions /\ Len(versions)' = Len(versions)
  <2>1. (DOMAIN versions)' = 1..Len(versions)
    BY <1>5
  <2>2. (DOMAIN versions)' = 1..Len(versions') /\ Len(versions') \in Nat
    BY <1>6, LenProperties
  <2>3. Len(versions) \in Nat
    BY <1>3
  <2>4. Len(versions') = Len(versions)
    BY <2>1, <2>2, <2>3, SameInterval
  <2>5. QED
    BY <1>3, <2>1, <2>4
<1>8. QED
  BY <1>1, <1>2, <1>4, <1>6, <1>7

LEMMA PublicationCommits == ASSUME ProductInv, NEW c \in Attempts, Commit(c) PROVE ProductInv'
<1>1. At(c, "publish") /\ ~Locked(c, attempt[c].version) /\ End(c) /\ UNCHANGED <<consumed, deaths>>
  BY DEF Commit
<1>2. CASE versions' = RolledBack(c) /\ UNCHANGED <<product, events>>
  BY <1>1, <1>2, AttemptEnds DEF RolledBack, ProductInv, ProductTypes
<1>3. ASSUME ~Frozen(c), ~Taken(c), product' = "ACTIVE", events' = events \cup {attempt[c].version},
             versions' = [v \in DOMAIN versions |->
                CASE v = attempt[c].version ->
                       [versions[v] EXCEPT !.status = "PUBLISHED", !.current = TRUE,
                                           !.approval = attempt[c].approval]
                  [] v \in attempt[c].held -> [versions[v] EXCEPT !.status = "RETIRED", !.current = FALSE]
                  [] OTHER -> versions[v]]
      PROVE  ProductInv'
  <2> DEFINE own == attempt[c].version
  <2>1. /\ versions' \in Seq(Version) /\ (DOMAIN versions)' = DOMAIN versions
        /\ Len(versions)' = Len(versions)
        /\ own \in DOMAIN versions /\ own \notin attempt[c].held
        /\ versions[own].status = "DRAFT"
        /\ Current = attempt[c].held
        /\ \A v \in DOMAIN versions :
              /\ versions'[v].key = versions[v].key
              /\ v = own => versions'[v].status = "PUBLISHED" /\ versions'[v].current
                            /\ versions'[v].approval = attempt[c].approval
              /\ v \in attempt[c].held => versions'[v].status = "RETIRED" /\ ~versions'[v].current
                                       /\ versions'[v].approval = versions[v].approval
              /\ v # own /\ v \notin attempt[c].held => versions'[v] = versions[v]
    BY <1>1, <1>3, CommitEffect
  <2>2. attempt[c].approval \in Approvals /\ VersionOf[attempt[c].approval] = own
        /\ consumed[attempt[c].approval] # None
    BY <1>1 DEF ProductInv, AttemptInv, At
  <2>3. attempt' \in [Attempts -> Call] /\ attempt'[c] = Idle /\ Alone(c)
    BY <1>1, IdleAttempt DEF End, ProductInv, ProductTypes, Alone
  <2>4. Kept
    BY <1>1, <2>1 DEF Kept
  <2>5. ProductTypes'
    BY <1>1, <1>3, <2>1, <2>3 DEF ProductInv, ProductTypes
  <2>6. RoomInv'
    <3>1. Inserting' \subseteq Inserting
      BY <2>3 DEF Inserting, At, Alone, Idle
    <3>2. Cardinality(Inserting') <= Cardinality(Inserting)
      BY <3>1, InsertingCounted, FS_Subset
    <3>3. Len(versions) \in Nat
      BY DomainIs DEF ProductInv
    <3>4. QED
      BY <2>1, <3>2, <3>3, InsertingCounted, InsertingCountedNext, ProductAssumption
         DEF ProductInv, RoomInv
  <2>7. KeysInv'
    BY <2>1 DEF ProductInv, KeysInv
  <2>8. Current' = {own}
    <3>1. ASSUME NEW v \in DOMAIN versions PROVE v \in Current' <=> v = own
      <4>1. CASE v = own
        BY <2>1, <4>1 DEF Current
      <4>2. CASE v \in attempt[c].held
        BY <2>1, <4>2 DEF Current
      <4>3. CASE v # own /\ v \notin attempt[c].held
        BY <2>1, <4>3 DEF Current
      <4>4. QED
        BY <4>1, <4>2, <4>3
    <3>2. QED
      BY <2>1, <3>1 DEF Current
  <2>9. \A d \in Attempts : AttemptInv(d)'
    <3>1. AttemptInv(c)'
      BY <2>3 DEF AttemptInv, At, Idle
    <3>2. QED
      BY <2>3, <2>4, <3>1, AttemptsKept DEF ProductInv
  <2>10. \A d \in Attempts : attempt'[d].held = {}
    BY <2>1, <2>3 DEF ProductInv, HeldInv, Alone, Idle
  <2>11. HeldInv'
    BY <2>10 DEF HeldInv
  <2>12. ASSUME NEW v \in DOMAIN versions PROVE VersionInv(v)'
    <3>1. CASE v = own
      <4>1. attempt[c].approval # None
        BY <2>2, ProductAssumption
      <4>2. QED
        BY <1>1, <1>3, <2>1, <2>2, <3>1, <4>1 DEF VersionInv
    <3>2. CASE v \in attempt[c].held
      <4>1. VersionInv(v) /\ versions[v].status = "PUBLISHED"
        BY <2>1, <3>2 DEF ProductInv, Current
      <4>2. QED
        BY <1>1, <1>3, <2>1, <3>2, <4>1 DEF VersionInv
    <3>3. CASE v # own /\ v \notin attempt[c].held
      <4>1. VersionInv(v) /\ versions'[v] = versions[v]
        BY <2>1, <3>3 DEF ProductInv
      <4>2. QED
        BY <1>1, <1>3, <4>1 DEF VersionInv
    <3>4. QED
      BY <3>1, <3>2, <3>3
  <2>13. InForceInv'
    BY <1>3, <2>8 DEF InForceInv
  <2>14. QED
    BY <2>1, <2>5, <2>6, <2>7, <2>9, <2>11, <2>12, <2>13 DEF ProductInv
<1>4. QED
  BY <1>2, <1>3 DEF Commit

-----------------------------------------------------------------------------
\* Every step keeps the invariant.
LEMMA ProductNextStep == ProductInv /\ [ProductNext]_productVars => ProductInv'
<1> SUFFICES ASSUME ProductInv, [ProductNext]_productVars PROVE ProductInv'
  OBVIOUS
<1>1. ASSUME NEW c \in Attempts, Step(c) \/ Abort(c) PROVE ProductInv'
  BY <1>1, InsertVersionStep, ApproveStep, RetireStep, PublicationLocks, PublicationCommits, AbortStep DEF Step
<1>2. ASSUME NEW c \in Attempts, NEW k \in Keys, CreateVersion(c, k) PROVE ProductInv'
  BY <1>2, CreateVersionStep
<1>3. ASSUME NEW c \in Attempts, NEW v \in Numbers, NEW a \in Approvals, NEW k \in Keys,
             Publish(c, v, a, k)
      PROVE  ProductInv'
  BY <1>3, PublishStep
<1>4. CASE UNCHANGED productVars
  BY <1>4 DEF ProductInv, ProductTypes, RoomInv, Inserting, KeysInv, AttemptInv, HeldInv, VersionInv, InForceInv,
              Current, At, productVars
<1>5. QED
  BY <1>1, <1>2, <1>3, <1>4, CreateProductStep DEF ProductNext

\* The invariant holds in every reachable state.
LEMMA ProductInvariance == ProductSpec => []ProductInv
  BY ProductInitStep, ProductNextStep, PTL DEF ProductSpec

\* Whatever publications race, one set of terms at most is in force, and everything
\* that ever was had been approved as it stands and announced.
THEOREM InForce == ProductSpec => []InForceAsApproved
<1>1. ProductInv => InForceAsApproved
  <2> SUFFICES ASSUME ProductInv PROVE InForceAsApproved
    OBVIOUS
  <2>1. ProductTypeOK
    BY WithinNumbers DEF ProductInv, ProductTypes, KeysInv, ProductTypeOK
  <2>2. Cardinality(Current) <= 1
    <3>1. CASE Current = {}
      BY <3>1, FS_EmptySet
    <3>2. CASE Current # {}
      <4>1. PICK v \in Current : Current = {v}
        BY <3>2 DEF ProductInv, InForceInv
      <4>2. Cardinality(Current) = 1
        BY <4>1, FS_Singleton
      <4>3. QED
        BY <4>2
    <3>3. QED
      BY <3>1, <3>2
  <2>3. OneInForce
    BY <2>2 DEF ProductInv, VersionInv, InForceInv, OneInForce
  <2>4. PublishedAsApproved
    BY DEF ProductInv, VersionInv, PublishedAsApproved
  <2>5. QED
    BY <2>1, <2>3, <2>4 DEF InForceAsApproved
<1>2. QED
  BY <1>1, ProductInvariance, PTL

\* The statuses a step leaves, and that terms in force are replaced in one step.
LEMMA TableStep ==
  ASSUME ProductInv, [ProductNext]_productVars, versions' # versions
  PROVE  /\ Current # {} => Current' # {}
         /\ \A v \in DOMAIN versions :
               versions[v].status # "DRAFT" => versions'[v].status \in {versions[v].status, "RETIRED"}
<1>1. ASSUME NEW c \in Attempts, InsertVersion(c)
      PROVE  \A v \in DOMAIN versions : versions'[v] = versions[v] /\ v \in (DOMAIN versions)'
  <2> DEFINE new == [key |-> attempt[c].key, status |-> "DRAFT", current |-> FALSE, approval |-> None]
  <2>1. versions' = Append(versions, new) \/ UNCHANGED versions
    BY <1>1 DEF InsertVersion
  <2>2. DOMAIN versions = 1..Len(versions) /\ Len(versions) \in Nat /\ versions \in Seq(Version)
    BY DomainIs DEF ProductInv, ProductTypes
  <2>3. new \in Version
    BY <1>1 DEF InsertVersion, ProductInv, AttemptInv, At, Version
  <2> HIDE DEF new
  <2>4. QED
    BY <2>1, <2>2, <2>3
<1>2. ASSUME NEW c \in Attempts, Commit(c), ~Frozen(c), ~Taken(c) ,
             versions' = [v \in DOMAIN versions |->
                CASE v = attempt[c].version ->
                       [versions[v] EXCEPT !.status = "PUBLISHED", !.current = TRUE,
                                           !.approval = attempt[c].approval]
                  [] v \in attempt[c].held -> [versions[v] EXCEPT !.status = "RETIRED", !.current = FALSE]
                  [] OTHER -> versions[v]]
      PROVE  /\ attempt[c].version \in Current'
             /\ \A v \in DOMAIN versions :
                   versions[v].status # "DRAFT" => versions'[v].status \in {versions[v].status, "RETIRED"}
  <2>1. At(c, "publish")
    BY <1>2 DEF Commit
  <2>2. QED
    BY <1>2, <2>1, CommitEffect DEF Current
<1>3. ASSUME NEW c \in Attempts, Commit(c)
      PROVE  /\ Current # {} => Current' # {}
             /\ \A v \in DOMAIN versions :
                   versions[v].status # "DRAFT" => versions'[v].status \in {versions[v].status, "RETIRED"}
  BY <1>2, <1>3 DEF Commit, RolledBack
<1>4. ASSUME NEW c \in Attempts, InsertVersion(c)
      PROVE  /\ Current # {} => Current' # {}
             /\ \A v \in DOMAIN versions :
                   versions[v].status # "DRAFT" => versions'[v].status \in {versions[v].status, "RETIRED"}
  BY <1>1, <1>4 DEF Current
<1>5. QED
  BY <1>3, <1>4
     DEF ProductNext, Step, CreateProduct, CreateVersion, Publish, Approve, Retire, Lock, Abort, productVars

\* Terms that were published are replaced in the step that ends them, and never again
\* drafts or current.
THEOREM TakenBackNever == ProductSpec => NeverTakenBack
<1> DEFINE Replaced == Current # {} => Current' # {}
           Once == \A v \in DOMAIN versions :
                      versions[v].status # "DRAFT" => versions'[v].status \in {versions[v].status, "RETIRED"}
<1>1. ProductInv /\ [ProductNext]_productVars => [Replaced]_versions /\ [Once]_versions
  BY TableStep
<1>2. QED
  BY <1>1, ProductInvariance, PTL DEF ProductSpec, NeverTakenBack, NeverWithdrawn, NeverRepublished

================================================================================
