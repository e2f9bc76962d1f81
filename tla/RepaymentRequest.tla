---------------------------- MODULE RepaymentRequest ----------------------------
(***************************************************************************)
(* CustomerLendingService.requestRepayment: a customer asks for a payment  *)
(* to be collected on a quote.  A call looks up the quote, has the         *)
(* customer's authorization verified with a token on the customer's behalf *)
(* (module Tokens), looks for a request under its key and for the quote,   *)
(* records one, has the payment initiated and records the answer, with a   *)
(* transaction of its own for each.                                        *)
(*                                                                         *)
(* A request is named by its idempotency key.  What else its hash covers   *)
(* is its reference.                                                       *)
(***************************************************************************)
EXTENDS Integers, FiniteSets

CONSTANTS
    Users, Service, Audiences, Lifetime, Margin, Capacity,
    Auth,       \* the audience that verifies authorizations
    Quotes,     \* loan_repayment_quotes
    Customer,   \* whose they are
    Debited,    \* those paid from a wallet or a bank account, which takes an authorization
    Keys,       \* idempotency keys of requests
    References, \* what their hashes tell apart
    NoName,     \* key, quote or reference of nothing
    Calls,      \* requests handled at the same time
    MaxFaults,  \* bound: calls that die and answers that fail
    MaxTime     \* bound: how far the clock goes

ASSUME NamesAssumption ==
    /\ Customer \in [Quotes -> Users] /\ Auth \in Audiences /\ Service \notin Users
    /\ Debited \subseteq Quotes
    /\ NoName \notin Quotes \cup Keys \cup References
ASSUME TimesAssumption ==
    Lifetime \in Nat /\ Margin \in Nat /\ Capacity \in Nat \ {0} /\ MaxFaults \in Nat /\ MaxTime \in Nat

VARIABLES
    cache, now, \* of Tokens
    current,    \* quotes that have not expired
    row,        \* loan_repayment_requests
    payment,    \* payment service: the status of the payment of each request
    verified,   \* Auth & Customer: whose authorization it has consumed for which quote
    answered,   \* which requests callers were told of, by quote and reference
    call,       \* the calls in progress
    abandoned,  \* requests whose call ended between recording them and their payment
    faults      \* faults so far

vars == <<cache, now, current, row, payment, verified, answered, call, abandoned, faults>>

T == INSTANCE Tokens

Points   == {"idle", "token", "fetch", "verify", "lookup", "forQuote", "insert", "initiate", "record"}
Payments == {"PENDING_COLLECTION", "PENDING_MATCH"}
NoRow    == [quote |-> NoName, reference |-> NoName, status |-> "NONE"]
NoToken  == [subject |-> Service, audience |-> Auth, expires |-> 0]
Idle     == [at |-> "idle", key |-> NoName, quote |-> NoName, reference |-> NoName,
             since |-> 0, token |-> NoToken]

Row == [quote : Quotes \cup {NoName}, reference : References \cup {NoName},
        status : {"NONE", "SUBMITTING"} \cup Payments]

TypeOK ==
    /\ \A entry \in cache : entry.token \in T!Token /\ entry.expiresAt \in Nat
    /\ Cardinality(cache) <= Capacity
    /\ now \in 0..MaxTime
    /\ current \subseteq Quotes
    /\ row \in [Keys -> Row]
    /\ payment \in [Keys -> Payments \cup {"NONE"}]
    /\ verified \subseteq Quotes \X T!Subjects
    /\ answered \subseteq Quotes \X References \X Keys
    /\ call \in [Calls -> [at : Points, key : Keys \cup {NoName}, quote : Quotes \cup {NoName},
                           reference : References \cup {NoName}, since : Nat, token : T!Token]]
    /\ abandoned \subseteq Keys
    /\ faults \in 0..MaxFaults

Init ==
    /\ cache = {} /\ now = 0
    /\ current = Quotes
    /\ row = [k \in Keys |-> NoRow]
    /\ payment = [k \in Keys |-> "NONE"]
    /\ verified = {} /\ answered = {}
    /\ call = [c \in Calls |-> Idle]
    /\ abandoned = {} /\ faults = 0

-----------------------------------------------------------------------------
At(c, point)   == call[c].at = point
GoTo(c, point) == call' = [call EXCEPT ![c].at = point]
End(c)         == call' = [call EXCEPT ![c] = Idle]
Owner(c)       == Customer[call[c].quote]

\* The quote is read; an expired one is refused, and one to debit without authorization.
Start(c, k, q, f) ==
    /\ At(c, "idle") /\ q \in current
    /\ \E point \in {"token", "lookup"} :
          /\ q \in Debited => point = "token"
          /\ call' = [call EXCEPT ![c] = [at |-> point, key |-> k, quote |-> q, reference |-> f,
                                          since |-> 0, token |-> NoToken]]
    /\ UNCHANGED <<cache, now, current, row, payment, verified, answered, abandoned, faults>>

\* A token for the customer comes from the cache or has to be fetched.
GetToken(c) ==
    LET hits == T!Hits(Owner(c), Auth) IN
    /\ At(c, "token")
    /\ \/ \E entry \in hits :
              call' = [call EXCEPT ![c].at = "verify", ![c].since = now, ![c].token = entry.token]
       \/ hits = {} /\ call' = [call EXCEPT ![c].at = "fetch", ![c].since = now]
    /\ UNCHANGED <<cache, now, current, row, payment, verified, answered, abandoned, faults>>

FetchToken(c) ==
    LET token == T!Issue(Owner(c), Auth) IN
    /\ At(c, "fetch")
    /\ T!Put(Owner(c), Auth, token, call[c].since)
    /\ call' = [call EXCEPT ![c].at = "verify", ![c].token = token]
    /\ UNCHANGED <<now, current, row, payment, verified, answered, abandoned, faults>>

\* The authorization is consumed for the user the token stands for; once per quote,
\* and answered with the same reference again.
Verify(c) ==
    /\ At(c, "verify")
    /\ verified' = verified \cup {<<call[c].quote, call[c].token.subject>>}
    /\ call' = [call EXCEPT ![c].at = "lookup", ![c].since = 0, ![c].token = NoToken]
    /\ UNCHANGED <<cache, now, current, row, payment, answered, abandoned, faults>>

\* The request recorded under key k is the one of call c.
SameRequest(k, c) == row[k].quote = call[c].quote /\ row[k].reference = call[c].reference

\* A request found is the answer, or an error if it is another one.
AnswerWith(k, c) ==
    /\ answered' = IF SameRequest(k, c)
                   THEN answered \cup {<<call[c].quote, call[c].reference, k>>} ELSE answered
    /\ End(c)

\* The request is looked for under its key,
Lookup(c) ==
    LET k == call[c].key IN
    /\ At(c, "lookup")
    /\ \/ row[k].status # "NONE" /\ AnswerWith(k, c)
       \/ row[k].status = "NONE" /\ GoTo(c, "forQuote") /\ UNCHANGED answered
    /\ UNCHANGED <<cache, now, current, row, payment, verified, abandoned, faults>>

ForQuote(q) == {k \in Keys : row[k].quote = q}

\* then by its quote, also again after an insertion that found the quote used,
LookupQuote(c) ==
    LET found == ForQuote(call[c].quote) IN
    /\ At(c, "forQuote")
    /\ \/ \E k \in found : AnswerWith(k, c)
       \/ found = {} /\ GoTo(c, "insert") /\ UNCHANGED answered
    /\ UNCHANGED <<cache, now, current, row, payment, verified, abandoned, faults>>

\* Mutant: the index on quotes is not there.
UnusedAlways(q) == TRUE

\* uq_repayment_request_quote.
Unused(q) == ForQuote(q) = {}

\* and recorded, unless its quote or its key has been used meanwhile.
Insert(c) ==
    LET k == call[c].key  q == call[c].quote IN
    /\ At(c, "insert")
    /\ \/ /\ row[k].status = "NONE" /\ Unused(q)
          /\ row' = [row EXCEPT ![k] = [quote |-> q, reference |-> call[c].reference,
                                        status |-> "SUBMITTING"]]
          /\ GoTo(c, "initiate")
       \/ row[k].status = "NONE" /\ ~Unused(q) /\ GoTo(c, "forQuote") /\ UNCHANGED row
       \/ row[k].status # "NONE" /\ End(c) /\ UNCHANGED row
    /\ UNCHANGED <<cache, now, current, payment, verified, answered, abandoned, faults>>

\* The payment service takes the payment.
Initiate(c) ==
    /\ At(c, "initiate")
    /\ \E p \in Payments : payment' = [payment EXCEPT ![call[c].key] = p]
    /\ GoTo(c, "record")
    /\ UNCHANGED <<cache, now, current, row, verified, answered, abandoned, faults>>

\* Mutant: only a payment that waits for its collection is recorded.
RecordedCollections(k) == IF payment[k] = "PENDING_COLLECTION" THEN payment[k] ELSE row[k].status

\* The status that is recorded with the payment.
Recorded(k) == payment[k]

Record(c) ==
    LET k == call[c].key IN
    /\ At(c, "record")
    /\ row' = [row EXCEPT ![k].status = Recorded(k)]
    /\ answered' = answered \cup {<<call[c].quote, call[c].reference, k>>}
    /\ End(c)
    /\ UNCHANGED <<cache, now, current, payment, verified, abandoned, faults>>

\* A call dies, or a service it waits for fails.
Abort(c) ==
    /\ ~At(c, "idle") /\ faults < MaxFaults
    /\ faults' = faults + 1
    /\ abandoned' = IF At(c, "initiate") \/ At(c, "record") THEN abandoned \cup {call[c].key}
                    ELSE abandoned
    /\ End(c)
    /\ UNCHANGED <<cache, now, current, row, payment, verified, answered>>

Expire(q) ==
    /\ q \in current
    /\ current' = current \ {q}
    /\ UNCHANGED <<cache, now, row, payment, verified, answered, call, abandoned, faults>>

Tick ==
    /\ now < MaxTime
    /\ now' = now + 1
    /\ UNCHANGED <<cache, current, row, payment, verified, answered, call, abandoned, faults>>

-----------------------------------------------------------------------------
Step(c) ==
    \/ GetToken(c) \/ FetchToken(c) \/ Verify(c) \/ Lookup(c) \/ LookupQuote(c)
    \/ Insert(c) \/ Initiate(c) \/ Record(c)

Next ==
    \/ \E c \in Calls : Step(c) \/ Abort(c)
    \/ \E c \in Calls, k \in Keys, q \in Quotes, f \in References : Start(c, k, q, f)
    \/ \E q \in Quotes : Expire(q)
    \/ Tick

Spec == Init /\ [][Next]_vars

\* What is ready runs, and calls of other services time out.
FairSpec == Spec /\ \A c \in Calls : WF_vars(Step(c))

-----------------------------------------------------------------------------
(* Properties. *)

\* However many calls race on a quote, under whatever keys, it backs one request and
\* one payment, which is the one the request shows.
OnePaymentPerQuote ==
    /\ \A k, l \in Keys : row[k].quote # NoName /\ row[k].quote = row[l].quote => k = l
    /\ \A k \in Keys : payment[k] # "NONE" => row[k].status \in {"SUBMITTING", payment[k]}
    /\ \A k \in Keys : row[k].status \in Payments => payment[k] = row[k].status

\* Everyone who is told of a request for a quote is told of the same one, and only
\* those who have asked for just that.
AnswersAgree ==
    \A x, y \in answered : x[1] = y[1] => x = y /\ row[x[3]].quote = x[1] /\ row[x[3]].reference = x[2]

\* Who asks, under whatever key and at the same time as whom, gets the quote's one request.
OneRequestPerQuote == OnePaymentPerQuote /\ AnswersAgree

\* Consuming a customer's authorization is always on that customer's behalf, although
\* the requests of all customers share one cache of tokens.
OnTheirBehalf == \A v \in verified : v[2] = Customer[v[1]]

\* A token is good for longer than the margin at the time it is asked for.
TokenOutlivesMargin == \A c \in Calls : At(c, "verify") => call[c].token.expires > call[c].since + Margin

\* A request does not stay SUBMITTING unless its one call died or had no answer:
\* nothing resumes it then, whoever asks again.
SubmittingEnds ==
    \A k \in Keys : row[k].status = "SUBMITTING" ~> row[k].status # "SUBMITTING" \/ k \in abandoned
================================================================================
