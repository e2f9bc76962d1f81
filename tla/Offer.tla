--------------------------------- MODULE Offer ---------------------------------
(***************************************************************************)
(* LoanOfferService: offers on approved applications and their acceptance, *)
(* which makes the loan.  Both are transactions that lock rows, in         *)
(* opposite orders: an issue locks the application and then updates the    *)
(* offer in force, an acceptance locks its offer and then the application. *)
(*                                                                         *)
(* An offer is named by its application and its version.                   *)
(***************************************************************************)
EXTENDS Integers, Sequences

CONSTANTS
    Applications, \* applications of the customer
    Requests,     \* requests handled at the same time
    NoRow,        \* row an idle request holds
    MaxOffers     \* bound: offers issued on an application

VARIABLES
    application, \* loan_applications.status
    offers,      \* loan_offers.status of each version
    lapsed,      \* offers whose expires_at has passed
    loan,        \* status of the loan an application has led to
    request      \* the transactions in progress

vars == <<application, offers, lapsed, loan, request>>

Offers   == Applications \X (1..MaxOffers)
Statuses == {"ISSUED", "SUPERSEDED", "ACCEPTED"}
Points   == {"idle", "supersede", "lockApplication", "accept"}
Idle     == [at |-> "idle", row |-> NoRow]

TypeOK ==
    /\ offers \in [Applications -> Seq(Statuses)]
    /\ \A a \in Applications : Len(offers[a]) <= MaxOffers
    /\ lapsed \subseteq Offers
    /\ loan \in [Applications -> {"NONE", "APPROVED", "DISBURSED", "ACTIVE"}]
    /\ request \in [Requests -> [at : Points, row : Applications \cup Offers \cup {NoRow}]]

Init ==
    /\ offers = [a \in Applications |-> <<>>]
    /\ lapsed = {}
    /\ request = [q \in Requests |-> Idle]

-----------------------------------------------------------------------------
At(q, point) == request[q].at = point
GoTo(q, point, row) == request' = [request EXCEPT ![q] = [at |-> point, row |-> row]]
End(q) == request' = [request EXCEPT ![q] = Idle]

\* Rows a transaction has locked.
Held(q) ==
    CASE At(q, "idle")            -> {}
      [] At(q, "supersede")       -> {request[q].row}
      [] At(q, "lockApplication") -> {request[q].row}
      [] At(q, "accept")          -> {request[q].row, request[q].row[1]}

Free(row) == \A q \in Requests : row \notin Held(q)

\* Offers of an application in force: those an issue replaces.
InForce(a) == {o \in Offers : o[1] = a /\ o[2] <= Len(offers[a]) /\ offers[a][o[2]] = "ISSUED"}

\* The rows a transaction has to lock before it can go on.
Wanted(q) ==
    CASE At(q, "supersede")       -> InForce(request[q].row)
      [] At(q, "lockApplication") -> {request[q].row[1]}
      [] OTHER                    -> {}

\* An issue locks its application, which must be approved with no condition left
\* (offerable, given by the caller).
Issue(q, a, offerable) ==
    /\ At(q, "idle") /\ Free(a)
    /\ application[a] = "APPROVED" /\ offerable /\ Len(offers[a]) < MaxOffers
    /\ GoTo(q, "supersede", a)
    /\ UNCHANGED <<application, offers, lapsed, loan>>

\* What becomes of an earlier offer.
Supersede(status) == IF status = "ISSUED" THEN "SUPERSEDED" ELSE status

\* The offer in force is superseded and the next version issued, also after an
\* acceptance.
RecordOffer(q) ==
    LET a == request[q].row IN
    /\ At(q, "supersede") /\ \A o \in Wanted(q) : Free(o)
    /\ offers' = [offers EXCEPT ![a] =
           Append([v \in DOMAIN @ |-> Supersede(@[v])], "ISSUED")]
    /\ End(q)
    /\ UNCHANGED <<application, lapsed, loan>>

\* An acceptance locks its offer (one out of force or expired is refused at once),
Accept(q, o) ==
    /\ At(q, "idle") /\ Free(o)
    /\ o \in InForce(o[1]) \ lapsed
    /\ GoTo(q, "lockApplication", o)
    /\ UNCHANGED <<application, offers, lapsed, loan>>

\* then the application,
LockApplication(q) ==
    /\ At(q, "lockApplication") /\ \A row \in Wanted(q) : Free(row)
    /\ GoTo(q, "accept", request[q].row)
    /\ UNCHANGED <<application, offers, lapsed, loan>>

\* Mutant: an application may have several loans.
HasNoLoanIgnored(a) == TRUE

\* uq_loan_application_tenant.
HasNoLoan(a) == loan[a] = "NONE"

\* and makes the loan if the offer is in force and there is none; otherwise all is
\* rolled back, the mark of an expired offer as well.
RecordAcceptance(q) ==
    LET o == request[q].row  a == o[1] IN
    /\ At(q, "accept")
    /\ \/ /\ o \in InForce(a) \ lapsed /\ HasNoLoan(a)
          /\ offers' = [offers EXCEPT ![a][o[2]] = "ACCEPTED"]
          /\ loan' = [loan EXCEPT ![a] = "APPROVED"]
       \/ /\ o \notin InForce(a) \ lapsed \/ ~HasNoLoan(a)
          /\ UNCHANGED <<offers, loan>>
    /\ End(q)
    /\ UNCHANGED <<application, lapsed>>

\* Transactions that wait for each other.
Deadlocked(q) == \E p \in Requests \ {q} :
    Wanted(q) \cap Held(p) # {} /\ Wanted(p) \cap Held(q) # {}

\* The database ends one of them.
RolledBack(q) ==
    /\ Deadlocked(q)
    /\ End(q)
    /\ UNCHANGED <<application, offers, lapsed, loan>>

Lapse(o) ==
    /\ o \in InForce(o[1]) \ lapsed
    /\ lapsed' = lapsed \cup {o}
    /\ UNCHANGED <<application, offers, loan, request>>

Step(q) == RecordOffer(q) \/ LockApplication(q) \/ RecordAcceptance(q) \/ RolledBack(q)

\* Transactions go on; one that waits for a row is given it in the end, as the database
\* queues them.
StepsEnd == \A q \in Requests : SF_vars(Step(q))
===============================================================================
