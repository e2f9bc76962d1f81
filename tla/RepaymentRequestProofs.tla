------------------------ MODULE RepaymentRequestProofs ------------------------
(***************************************************************************)
(* Proofs about RepaymentRequest, for any customers, quotes, keys, calls   *)
(* and cache.  That a quote has one request follows from the index; that   *)
(* it has one payment, and that the request shows it, needs to know that   *)
(* the call which recorded a request is the only one to pay it.  That the  *)
(* authorizations are consumed on the right customer's behalf rests on     *)
(* what the cache holds under each key.                                    *)
(***************************************************************************)
EXTENDS RepaymentRequest, FiniteSetTheorems, TLAPS

CallType == [at : Points, key : Keys \cup {NoName}, quote : Quotes \cup {NoName},
             reference : References \cup {NoName}, since : Nat, token : T!Token]

Types ==
    /\ \A entry \in cache : entry.token \in T!Token /\ entry.expiresAt \in Nat
    /\ IsFiniteSet(cache) /\ Cardinality(cache) <= Capacity
    /\ now \in 0..MaxTime
    /\ current \subseteq Quotes
    /\ row \in [Keys -> Row]
    /\ payment \in [Keys -> Payments \cup {"NONE"}]
    /\ verified \subseteq Quotes \X T!Subjects
    /\ answered \subseteq Quotes \X References \X Keys
    /\ call \in [Calls -> CallType]
    /\ abandoned \subseteq Keys
    /\ faults \in 0..MaxFaults

\* What the cache holds was issued for the subject of its key, and is good for at
\* least as long as the cache takes it to be.
CacheInv ==
    \A entry \in cache :
        /\ entry.key = T!Key(entry.token.subject, entry.token.audience)
        /\ entry.expiresAt <= entry.token.expires

Paying(c) == call[c].at \in {"initiate", "record"}

CallInv(c) ==
    /\ call[c].at # "idle" =>
          call[c].key \in Keys /\ call[c].quote \in Quotes /\ call[c].reference \in References
    /\ call[c].at = "fetch" => call[c].since <= now
    /\ call[c].at = "verify" =>
          /\ call[c].token.subject = Customer[call[c].quote]
          /\ Lifetime > Margin => call[c].token.expires > call[c].since + Margin
    /\ Paying(c) =>
          /\ row[call[c].key].status = "SUBMITTING"
          /\ row[call[c].key].quote = call[c].quote
          /\ row[call[c].key].reference = call[c].reference
    /\ call[c].at = "record" => payment[call[c].key] \in Payments

PayingInv == \A c, d \in Calls : Paying(c) /\ Paying(d) /\ call[c].key = call[d].key => c = d

RowInv(k) ==
    /\ row[k].status # "NONE" => row[k].quote \in Quotes /\ row[k].reference \in References
    /\ row[k].quote # NoName => row[k].status # "NONE"
    /\ payment[k] # "NONE" => row[k].status \in {"SUBMITTING", payment[k]}
    /\ row[k].status \in Payments => payment[k] = row[k].status

QuotesInv == \A k, l \in Keys : row[k].quote # NoName /\ row[k].quote = row[l].quote => k = l

AnsweredInv == \A x \in answered : row[x[3]].quote = x[1] /\ row[x[3]].reference = x[2]

IInv ==
    /\ Types
    /\ CacheInv
    /\ \A c \in Calls : CallInv(c)
    /\ PayingInv
    /\ \A k \in Keys : RowInv(k)
    /\ QuotesInv
    /\ AnsweredInv
    /\ OnTheirBehalf

-----------------------------------------------------------------------------
\* An idle call.
LEMMA IdleType == Idle \in CallType /\ NoToken \in T!Token
  BY NamesAssumption DEF Idle, CallType, Points, NoToken, T!Token, T!Subjects

\* Module Tokens counts with the operator of its own instance of FiniteSets.
LEMMA SameCardinality == \A S : T!Cardinality(S) = Cardinality(S)
  BY Zenon DEF T!Cardinality, Cardinality

\* The first state.
LEMMA InitIInv == Init => IInv
<1> SUFFICES ASSUME Init PROVE IInv
  OBVIOUS
<1>1. Types
  <2>1. IsFiniteSet(cache) /\ Cardinality(cache) <= Capacity
    BY FS_EmptySet, TimesAssumption DEF Init
  <2>2. NoRow \in Row
    BY DEF NoRow, Row
  <2> QED
    BY <2>1, <2>2, IdleType, TimesAssumption DEF Init, Types
<1>2. \A c \in Calls : CallInv(c) /\ ~Paying(c)
  BY DEF Init, CallInv, Paying, Idle
<1>3. CacheInv /\ OnTheirBehalf /\ AnsweredInv
  BY DEF Init, CacheInv, OnTheirBehalf, AnsweredInv
<1>4. \A k \in Keys : RowInv(k)
  BY DEF Init, RowInv, NoRow, Payments
<1>5. QuotesInv
  BY DEF Init, QuotesInv, NoRow
<1>6. PayingInv
  BY <1>2 DEF PayingInv
<1> QED
  BY <1>1, <1>2, <1>3, <1>4, <1>5, <1>6 DEF IInv

-----------------------------------------------------------------------------
(* Steps that leave the requests and payments alone. *)

rows == <<row, payment>>

\* What a call knows stays true while others move.
LEMMA CallKept ==
    ASSUME NEW d \in Calls, CallInv(d), call'[d] = call[d], call[d].since \in Nat,
           now \in Nat, now' \in Nat, now <= now',
           Paying(d) => row'[call[d].key] = row[call[d].key],
           payment'[call[d].key] \in Payments \/ payment'[call[d].key] = payment[call[d].key]
    PROVE  CallInv(d)' /\ (Paying(d))' = Paying(d)
  BY DEF CallInv, Paying

\* The calls after a step of one of them.
LEMMA CallsKept ==
    ASSUME IInv, UNCHANGED rows, now' \in Nat, now <= now', NEW c \in Calls, (CallInv(c))',
           Paying(c)' => Paying(c) /\ call'[c].key = call[c].key,
           \A d \in Calls \ {c} : call'[d] = call[d]
    PROVE  (\A d \in Calls : (CallInv(d))') /\ PayingInv'
<1>0. Types /\ (\A d \in Calls : CallInv(d)) /\ PayingInv
  BY DEF IInv
<1>1. \A d \in Calls : call[d] \in CallType /\ call[d].since \in Nat /\ now \in Nat
  BY <1>0, TimesAssumption DEF Types, CallType
<1>2. ASSUME NEW d \in Calls, d # c PROVE CallInv(d)' /\ (Paying(d))' = Paying(d)
  BY <1>0, <1>1, <1>2, CallKept DEF rows
<1>3. PayingInv'
  BY <1>0, <1>2 DEF PayingInv
<1> QED
  BY <1>2, <1>3

\* What is said of requests, payments and answers is not touched by the others.
LEMMA RowsKept ==
    ASSUME IInv, UNCHANGED rows
    PROVE  (\A k \in Keys : RowInv(k)') /\ QuotesInv'
  BY DEF IInv, rows, RowInv, QuotesInv

-----------------------------------------------------------------------------
\* Every step keeps the invariant.
LEMMA NextIInv == IInv /\ [Next]_vars => IInv'
<1> SUFFICES ASSUME IInv, [Next]_vars PROVE IInv'
  OBVIOUS
<1>0. /\ Types /\ CacheInv /\ (\A c \in Calls : CallInv(c)) /\ PayingInv
      /\ (\A k \in Keys : RowInv(k)) /\ QuotesInv /\ AnsweredInv /\ OnTheirBehalf
  BY DEF IInv
<1>n. now \in Nat /\ MaxTime \in Nat /\ \A d \in Calls : call[d] \in CallType
  BY <1>0, TimesAssumption DEF Types
<1>a. ASSUME NEW c \in Calls, End(c)
      PROVE  /\ call' \in [Calls -> CallType]
             /\ call'[c].at = "idle" /\ CallInv(c)' /\ ~Paying(c)'
             /\ \A d \in Calls \ {c} : call'[d] = call[d]
  <2>1. call' \in [Calls -> CallType] /\ call'[c] = Idle /\ \A d \in Calls \ {c} : call'[d] = call[d]
    BY <1>a, <1>0, IdleType DEF End, Types
  <2> QED
    BY <2>1 DEF Idle, CallInv, Paying
<1>b. ASSUME NEW c \in Calls, NEW p \in Points, GoTo(c, p)
      PROVE  /\ call' \in [Calls -> CallType]
             /\ call'[c] = [call[c] EXCEPT !.at = p]
             /\ call'[c].at = p /\ call'[c].key = call[c].key /\ call'[c].quote = call[c].quote
             /\ call'[c].reference = call[c].reference
             /\ \A d \in Calls \ {c} : call'[d] = call[d]
  BY <1>b, <1>0 DEF GoTo, Types, CallType
<1>c. ASSUME NEW c \in Calls, NEW k \in Keys, call[c].at # "idle", AnswerWith(k, c)
      PROVE  /\ answered' \subseteq Quotes \X References \X Keys
             /\ UNCHANGED row => AnsweredInv'
  BY <1>c, <1>0 DEF AnswerWith, SameRequest, Types, CallInv, AnsweredInv
<1> USE DEF At
<1>1. ASSUME NEW c \in Calls, NEW k \in Keys, NEW q \in Quotes, NEW f \in References, Start(c, k, q, f)
      PROVE  IInv'
  <2>1. /\ call' \in [Calls -> CallType] /\ call'[c].at \in {"token", "lookup"}
        /\ call'[c].key = k /\ call'[c].quote = q /\ call'[c].reference = f
        /\ \A d \in Calls \ {c} : call'[d] = call[d]
    <3>1. PICK p \in {"token", "lookup"} : call' = [call EXCEPT ![c] =
              [at |-> p, key |-> k, quote |-> q, reference |-> f, since |-> 0, token |-> NoToken]]
      BY <1>1 DEF Start
    <3>2. [at |-> p, key |-> k, quote |-> q, reference |-> f, since |-> 0, token |-> NoToken] \in CallType
      BY IdleType DEF CallType, Points
    <3> QED
      BY <3>1, <3>2, <1>0 DEF Types
  <2>2. CallInv(c)' /\ ~Paying(c)'
    BY <2>1 DEF CallInv, Paying
  <2>3. UNCHANGED <<cache, now, current, row, payment, verified, answered, abandoned, faults>>
    BY <1>1 DEF Start
  <2>4. (\A d \in Calls : (CallInv(d))') /\ PayingInv'
    BY <2>1, <2>2, <2>3, <1>n, CallsKept DEF rows
  <2>5. Types' /\ CacheInv' /\ AnsweredInv' /\ OnTheirBehalf'
    BY <2>1, <2>3, <1>0 DEF Types, CacheInv, AnsweredInv, OnTheirBehalf
  <2> QED
    BY <2>3, <2>4, <2>5, RowsKept DEF IInv, rows
<1>2. ASSUME NEW c \in Calls, GetToken(c) PROVE IInv'
  <2>1. UNCHANGED <<cache, now, current, row, payment, verified, answered, abandoned, faults>>
    BY <1>2 DEF GetToken
  <2>2. call[c].quote \in Quotes /\ call[c].key \in Keys /\ call[c].reference \in References
        /\ call[c].at = "token"
    BY <1>2, <1>0 DEF GetToken, CallInv
  <2>3. /\ call' \in [Calls -> CallType] /\ CallInv(c)' /\ ~Paying(c)'
        /\ \A d \in Calls \ {c} : call'[d] = call[d]
    <3>1. CASE \E entry \in T!Hits(Owner(c), Auth) :
                  call' = [call EXCEPT ![c].at = "verify", ![c].since = now, ![c].token = entry.token]
      <4>1. PICK entry \in T!Hits(Owner(c), Auth) :
                  call' = [call EXCEPT ![c].at = "verify", ![c].since = now, ![c].token = entry.token]
        BY <3>1
      <4>2. /\ entry \in cache /\ entry.key = <<Owner(c), Auth>> /\ entry.expiresAt - Margin > now
        BY DEF T!Hits, T!Cached, T!Key, T!Good
      <4>3. /\ entry.token \in T!Token /\ entry.expiresAt \in Nat
            /\ entry.token.subject = Owner(c) /\ entry.expiresAt <= entry.token.expires
            /\ entry.token.expires \in Nat
        BY <4>2, <1>0 DEF Types, CacheInv, T!Key, T!Token
      <4>4. entry.token.expires > now + Margin
        BY <4>2, <4>3, <1>n, TimesAssumption
      <4> DEFINE new == [call[c] EXCEPT !.at = "verify", !.since = now, !.token = entry.token]
      <4>a. new \in CallType
        BY <4>3, <1>n DEF CallType, Points
      <4>b. call' = [call EXCEPT ![c] = new]
        BY <4>1, <1>0 DEF Types
      <4>5. call' \in [Calls -> CallType] /\ (\A d \in Calls \ {c} : call'[d] = call[d])
            /\ call'[c] = [call[c] EXCEPT !.at = "verify", !.since = now, !.token = entry.token]
        BY <4>a, <4>b, <1>0 DEF Types
      <4>6. call'[c].at = "verify" /\ call'[c].since = now /\ call'[c].token = entry.token
            /\ call'[c].key = call[c].key /\ call'[c].quote = call[c].quote
            /\ call'[c].reference = call[c].reference
        BY <4>5, <1>n DEF CallType
      <4> QED
        BY <4>3, <4>4, <4>5, <4>6, <2>2 DEF CallInv, Paying, Owner
    <3>2. CASE call' = [call EXCEPT ![c].at = "fetch", ![c].since = now]
      <4> DEFINE new == [call[c] EXCEPT !.at = "fetch", !.since = now]
      <4>a. new \in CallType
        BY <1>n DEF CallType, Points
      <4>b. call' = [call EXCEPT ![c] = new]
        BY <3>2, <1>0 DEF Types
      <4>1. call' \in [Calls -> CallType] /\ (\A d \in Calls \ {c} : call'[d] = call[d])
            /\ call'[c] = [call[c] EXCEPT !.at = "fetch", !.since = now]
        BY <4>a, <4>b, <1>0 DEF Types
      <4>2. call'[c].at = "fetch" /\ call'[c].since = now
            /\ call'[c].key = call[c].key /\ call'[c].quote = call[c].quote
            /\ call'[c].reference = call[c].reference
        BY <4>1, <1>n DEF CallType
      <4> QED
        BY <4>1, <4>2, <2>1, <2>2, <1>n DEF CallInv, Paying
    <3> QED
      BY <3>1, <3>2, <1>2 DEF GetToken
  <2>4. (\A d \in Calls : (CallInv(d))') /\ PayingInv'
    BY <2>1, <2>3, <1>n, CallsKept DEF rows
  <2>5. Types' /\ CacheInv' /\ AnsweredInv' /\ OnTheirBehalf'
    BY <2>1, <2>3, <1>0 DEF Types, CacheInv, AnsweredInv, OnTheirBehalf
  <2> QED
    BY <2>1, <2>4, <2>5, RowsKept DEF IInv, rows
<1>3. ASSUME NEW c \in Calls, FetchToken(c) PROVE IInv'
  <2> DEFINE token == T!Issue(Owner(c), Auth)
             entry == [key |-> T!Key(Owner(c), Auth), token |-> token,
                       expiresAt |-> call[c].since + Lifetime]
  <2>1. /\ UNCHANGED <<now, current, row, payment, verified, answered, abandoned, faults>>
        /\ call[c].at = "fetch"
        /\ call' = [call EXCEPT ![c].at = "verify", ![c].token = token]
        /\ cache' = T!Kept(T!Key(Owner(c), Auth)) \cup {entry}
    BY <1>3 DEF FetchToken, T!Put
  <2>2. /\ call[c].quote \in Quotes /\ call[c].key \in Keys /\ call[c].reference \in References
        /\ call[c].since <= now /\ call[c].since \in Nat
    BY <2>1, <1>0, <1>n DEF CallInv, CallType
  <2>3. Owner(c) \in Users /\ Owner(c) = Customer[call[c].quote]
    BY <2>2, NamesAssumption DEF Owner
  <2>4. /\ token = [subject |-> Owner(c), audience |-> Auth, expires |-> now + Lifetime]
        /\ token \in T!Token /\ entry.expiresAt \in Nat
        /\ entry.expiresAt <= token.expires /\ entry.token = token
        /\ entry.key = T!Key(token.subject, token.audience)
    BY <2>2, <2>3, <1>n, NamesAssumption, TimesAssumption DEF T!Issue, T!Token, T!Subjects, T!Key
  <2>5. /\ T!Kept(T!Key(Owner(c), Auth)) \subseteq cache
        /\ IsFiniteSet(cache') /\ Cardinality(cache') <= Capacity
    <3>1. CASE Cardinality(cache) >= Capacity
      <4>1. T!Kept(T!Key(Owner(c), Auth)) = {} /\ cache' = {entry}
        BY <3>1, <2>1, SameCardinality DEF T!Kept
      <4>2. IsFiniteSet({entry}) /\ Cardinality({entry}) = 1
        BY FS_Singleton
      <4> QED
        BY <4>1, <4>2, TimesAssumption
    <3>2. CASE ~(Cardinality(cache) >= Capacity)
      <4>1. T!Kept(T!Key(Owner(c), Auth)) \subseteq cache
        BY <3>2 DEF T!Kept
      <4>2. /\ IsFiniteSet(T!Kept(T!Key(Owner(c), Auth)))
            /\ Cardinality(T!Kept(T!Key(Owner(c), Auth))) <= Cardinality(cache)
            /\ Cardinality(cache) \in Nat /\ Cardinality(T!Kept(T!Key(Owner(c), Auth))) \in Nat
        BY <4>1, <1>0, FS_Subset, FS_CardinalityType DEF Types
      <4>3. /\ IsFiniteSet(cache')
            /\ Cardinality(cache') \in {Cardinality(T!Kept(T!Key(Owner(c), Auth))),
                                        Cardinality(T!Kept(T!Key(Owner(c), Auth))) + 1}
        BY <4>2, <2>1, FS_AddElement
      <4> QED
        BY <4>1, <4>2, <4>3, <3>2, TimesAssumption
    <3> QED
      BY <3>1, <3>2
  <2>6. CacheInv' /\ \A e \in cache' : e.token \in T!Token /\ e.expiresAt \in Nat
    <3> SUFFICES ASSUME NEW e \in cache'
                 PROVE  /\ e.key = T!Key(e.token.subject, e.token.audience)
                        /\ e.expiresAt <= e.token.expires
                        /\ e.token \in T!Token /\ e.expiresAt \in Nat
      BY DEF CacheInv, T!Key
    <3>1. CASE e \in cache
      BY <3>1, <1>0 DEF CacheInv, Types
    <3>2. CASE e = entry
      BY <3>2, <2>4
    <3> HIDE DEF entry
    <3> QED
      BY <3>1, <3>2, <2>1, <2>5
  <2>7. /\ call' \in [Calls -> CallType] /\ (\A d \in Calls \ {c} : call'[d] = call[d])
        /\ call'[c].at = "verify" /\ call'[c].since = call[c].since /\ call'[c].token = token
        /\ call'[c].key = call[c].key /\ call'[c].quote = call[c].quote
        /\ call'[c].reference = call[c].reference
    <3> HIDE DEF token
    <3> QED
      BY <2>1, <2>4, <1>0, <1>n DEF Types, CallType, Points
  <2>8. token.subject = Customer[call[c].quote] /\ (Lifetime > Margin => token.expires > call[c].since + Margin)
    BY <2>2, <2>3, <2>4, <1>n, TimesAssumption
  <2>9. CallInv(c)' /\ ~Paying(c)'
    <3> HIDE DEF token
    <3> QED
      BY <2>2, <2>7, <2>8 DEF CallInv, Paying
  <2>10. (\A d \in Calls : (CallInv(d))') /\ PayingInv'
    BY <2>1, <2>7, <2>9, <1>n, CallsKept DEF rows
  <2>11. Types' /\ AnsweredInv' /\ OnTheirBehalf'
    <3> HIDE DEF token, entry
    <3> QED
      BY <2>1, <2>5, <2>6, <2>7, <1>0 DEF Types, AnsweredInv, OnTheirBehalf
  <2> QED
    BY <2>1, <2>6, <2>10, <2>11, RowsKept DEF IInv, rows
<1>4. ASSUME NEW c \in Calls, Verify(c) PROVE IInv'
  <2>1. /\ UNCHANGED <<cache, now, current, row, payment, answered, abandoned, faults>>
        /\ call[c].at = "verify"
        /\ call' = [call EXCEPT ![c].at = "lookup", ![c].since = 0, ![c].token = NoToken]
        /\ verified' = verified \cup {<<call[c].quote, call[c].token.subject>>}
    BY <1>4 DEF Verify
  <2>2. /\ call[c].quote \in Quotes /\ call[c].key \in Keys /\ call[c].reference \in References
        /\ call[c].token.subject = Customer[call[c].quote] /\ call[c].token.subject \in T!Subjects
    BY <2>1, <1>0, <1>n DEF CallInv, CallType, T!Token
  <2>3. /\ call' \in [Calls -> CallType] /\ (\A d \in Calls \ {c} : call'[d] = call[d])
        /\ call'[c].at = "lookup" /\ call'[c].key = call[c].key /\ call'[c].quote = call[c].quote
        /\ call'[c].reference = call[c].reference
    BY <2>1, <1>0, <1>n, IdleType, ZenonT(30) DEF Types, CallType, Points
  <2>4. CallInv(c)' /\ ~Paying(c)'
    BY <2>2, <2>3 DEF CallInv, Paying
  <2>5. (\A d \in Calls : (CallInv(d))') /\ PayingInv'
    BY <2>1, <2>3, <2>4, <1>n, CallsKept DEF rows
  <2>6. OnTheirBehalf' /\ verified' \subseteq Quotes \X T!Subjects
    BY <2>1, <2>2, <1>0 DEF OnTheirBehalf, Types
  <2>7. Types' /\ CacheInv' /\ AnsweredInv'
    BY <2>1, <2>3, <2>6, <1>0 DEF Types, CacheInv, AnsweredInv
  <2> QED
    BY <2>1, <2>5, <2>6, <2>7, RowsKept DEF IInv, rows
<1>5. ASSUME NEW c \in Calls, Lookup(c) \/ LookupQuote(c) PROVE IInv'
  <2>1. /\ UNCHANGED <<cache, now, current, row, payment, verified, abandoned, faults>>
        /\ call[c].at \in {"lookup", "forQuote"}
    BY <1>5 DEF Lookup, LookupQuote
  <2>2. call[c].quote \in Quotes /\ call[c].key \in Keys /\ call[c].reference \in References
    BY <2>1, <1>0 DEF CallInv
  <2>3. \/ \E k \in Keys : AnswerWith(k, c)
        \/ (\E p \in {"forQuote", "insert"} : GoTo(c, p)) /\ UNCHANGED answered
    BY <1>5, <2>2 DEF Lookup, LookupQuote, ForQuote
  <2>4. CASE \E k \in Keys : AnswerWith(k, c)
    <3>1. PICK k \in Keys : AnswerWith(k, c)
      BY <2>4
    <3>2. answered' \subseteq Quotes \X References \X Keys /\ AnsweredInv'
      BY <3>1, <2>1, <1>c
    <3>3. End(c)
      BY <3>1 DEF AnswerWith
    <3>4. (\A d \in Calls : (CallInv(d))') /\ PayingInv'
      BY <3>3, <1>a, <2>1, <1>n, CallsKept DEF rows
    <3>5. Types' /\ CacheInv' /\ OnTheirBehalf'
      BY <3>2, <3>3, <1>a, <2>1, <1>0 DEF Types, CacheInv, OnTheirBehalf
    <3> QED
      BY <2>1, <3>2, <3>4, <3>5, RowsKept DEF IInv, rows
  <2>5. CASE (\E p \in {"forQuote", "insert"} : GoTo(c, p)) /\ UNCHANGED answered
    <3>1. PICK p \in {"forQuote", "insert"} : GoTo(c, p)
      BY <2>5
    <3>2. /\ call' \in [Calls -> CallType] /\ call'[c].at = p /\ call'[c].key = call[c].key
          /\ call'[c].quote = call[c].quote /\ call'[c].reference = call[c].reference
          /\ \A d \in Calls \ {c} : call'[d] = call[d]
      BY <3>1, <1>b DEF Points
    <3>3. CallInv(c)' /\ ~Paying(c)'
      BY <3>2, <2>2 DEF CallInv, Paying
    <3>4. (\A d \in Calls : (CallInv(d))') /\ PayingInv'
      BY <3>2, <3>3, <2>1, <1>n, CallsKept DEF rows
    <3>5. Types' /\ CacheInv' /\ OnTheirBehalf' /\ AnsweredInv'
      BY <3>2, <2>5, <2>1, <1>0 DEF Types, CacheInv, OnTheirBehalf, AnsweredInv
    <3> QED
      BY <2>1, <3>4, <3>5, RowsKept DEF IInv, rows
  <2> QED
    BY <2>3, <2>4, <2>5
<1>6. ASSUME NEW c \in Calls, Insert(c) PROVE IInv'
  <2> DEFINE k == call[c].key
             new == [quote |-> call[c].quote, reference |-> call[c].reference, status |-> "SUBMITTING"]
  <2>1. /\ UNCHANGED <<cache, now, current, payment, verified, answered, abandoned, faults>>
        /\ call[c].at = "insert"
    BY <1>6 DEF Insert
  <2>2. call[c].quote \in Quotes /\ k \in Keys /\ call[c].reference \in References
    BY <2>1, <1>0 DEF CallInv
  <2>3. CASE row[k].status = "NONE" /\ Unused(call[c].quote) /\ row' = [row EXCEPT ![k] = new] /\ GoTo(c, "initiate")
    <3>1. /\ call' \in [Calls -> CallType] /\ call'[c].at = "initiate" /\ call'[c].key = k
          /\ call'[c].quote = call[c].quote /\ call'[c].reference = call[c].reference
          /\ \A d \in Calls \ {c} : call'[d] = call[d]
      BY <2>3, <1>b DEF Points
    <3>2. /\ row' \in [Keys -> Row] /\ row'[k] = new
          /\ \A l \in Keys \ {k} : row'[l] = row[l]
      BY <2>2, <2>3, <1>0 DEF Types, Row
    <3>3. CallInv(c)'
      BY <2>2, <3>1, <3>2 DEF CallInv, Paying
    <3>4. ASSUME NEW d \in Calls, d # c PROVE CallInv(d)' /\ (Paying(d))' = Paying(d) /\ (Paying(d) => call[d].key # k)
      <4>1. Paying(d) => call[d].key \in Keys /\ call[d].key # k
        BY <1>0, <2>3 DEF CallInv, Paying
      <4>2. Paying(d) => row'[call[d].key] = row[call[d].key]
        BY <4>1, <3>2
      <4>3. call[d].since \in Nat
        BY <1>n DEF CallType
      <4> QED
        BY <4>1, <4>2, <4>3, <3>1, <3>4, <2>1, <1>0, <1>n, CallKept
    <3>5. PayingInv'
      BY <3>1, <3>4, <1>0 DEF PayingInv
    <3>6. \A l \in Keys : RowInv(l)'
      BY <2>1, <2>2, <2>3, <3>2, <1>0 DEF RowInv, Types, Row, Payments
    <3>7. QuotesInv'
      BY <2>2, <2>3, <3>2, <1>0, NamesAssumption DEF QuotesInv, Unused, ForQuote
    <3>8. AnsweredInv'
      <4> SUFFICES ASSUME NEW x \in answered PROVE row'[x[3]].quote = x[1] /\ row'[x[3]].reference = x[2]
        BY <2>1 DEF AnsweredInv
      <4>1. x[1] \in Quotes /\ x[3] \in Keys /\ row[x[3]].quote = x[1] /\ row[x[3]].reference = x[2]
        BY <1>0 DEF AnsweredInv, Types
      <4>2. x[3] # k
        BY <4>1, <2>3, <1>0, NamesAssumption DEF RowInv
      <4> QED
        BY <4>1, <4>2, <3>2
    <3>9. Types' /\ CacheInv' /\ OnTheirBehalf'
      BY <2>1, <3>1, <3>2, <1>0 DEF Types, CacheInv, OnTheirBehalf
    <3> QED
      BY <3>3, <3>4, <3>5, <3>6, <3>7, <3>8, <3>9 DEF IInv
  <2>4. CASE UNCHANGED row /\ (GoTo(c, "forQuote") \/ End(c))
    <3>1. /\ call' \in [Calls -> CallType] /\ CallInv(c)' /\ ~Paying(c)'
          /\ \A d \in Calls \ {c} : call'[d] = call[d]
      <4>1. CASE End(c)
        BY <4>1, <1>a
      <4>2. CASE GoTo(c, "forQuote")
        <5>1. /\ call' \in [Calls -> CallType] /\ call'[c].at = "forQuote" /\ call'[c].key = call[c].key
              /\ call'[c].quote = call[c].quote /\ call'[c].reference = call[c].reference
              /\ \A d \in Calls \ {c} : call'[d] = call[d]
          BY <4>2, <1>b DEF Points
        <5> QED
          BY <5>1, <2>2 DEF CallInv, Paying
      <4> QED
        BY <4>1, <4>2, <2>4
    <3>2. (\A d \in Calls : (CallInv(d))') /\ PayingInv'
      BY <3>1, <2>1, <2>4, <1>n, CallsKept DEF rows
    <3>3. Types' /\ CacheInv' /\ OnTheirBehalf' /\ AnsweredInv'
      BY <3>1, <2>1, <2>4, <1>0 DEF Types, CacheInv, OnTheirBehalf, AnsweredInv
    <3> QED
      BY <2>1, <2>4, <3>2, <3>3, RowsKept DEF IInv, rows
  <2> QED
    BY <1>6, <2>3, <2>4 DEF Insert
<1>7. ASSUME NEW c \in Calls, Initiate(c) PROVE IInv'
  <2> DEFINE k == call[c].key
  <2>1. /\ UNCHANGED <<cache, now, current, row, verified, answered, abandoned, faults>>
        /\ call[c].at = "initiate" /\ GoTo(c, "record")
    BY <1>7 DEF Initiate
  <2>2. PICK p \in Payments : payment' = [payment EXCEPT ![k] = p]
    BY <1>7 DEF Initiate
  <2>3. /\ call[c].quote \in Quotes /\ k \in Keys /\ call[c].reference \in References
        /\ row[k].status = "SUBMITTING" /\ row[k].quote = call[c].quote
        /\ row[k].reference = call[c].reference /\ Paying(c)
    BY <2>1, <1>0 DEF CallInv, Paying
  <2>4. /\ call' \in [Calls -> CallType] /\ call'[c].at = "record" /\ call'[c].key = k
        /\ call'[c].quote = call[c].quote /\ call'[c].reference = call[c].reference
        /\ \A d \in Calls \ {c} : call'[d] = call[d]
    BY <2>1, <1>b DEF Points
  <2>5. /\ payment' \in [Keys -> Payments \cup {"NONE"}] /\ payment'[k] = p
        /\ \A l \in Keys \ {k} : payment'[l] = payment[l]
    BY <2>2, <2>3, <1>0 DEF Types
  <2>6. CallInv(c)' /\ (Paying(c))'
    BY <2>1, <2>3, <2>4, <2>5 DEF CallInv, Paying
  <2>7. ASSUME NEW d \in Calls, d # c PROVE CallInv(d)' /\ (Paying(d))' = Paying(d)
    <3>1. payment'[call[d].key] \in Payments \/ payment'[call[d].key] = payment[call[d].key]
      BY <2>2, <2>3, <1>0 DEF Types
    <3>2. call[d].since \in Nat
      BY <1>n DEF CallType
    <3> QED
      BY <3>1, <3>2, <2>1, <2>4, <2>7, <1>0, <1>n, CallKept
  <2>8. PayingInv'
    BY <2>3, <2>4, <2>6, <2>7, <1>0 DEF PayingInv
  <2>9. \A l \in Keys : RowInv(l)'
    BY <2>1, <2>3, <2>5, <1>0 DEF RowInv, Payments
  <2>10. Types' /\ CacheInv' /\ OnTheirBehalf' /\ AnsweredInv' /\ QuotesInv'
    BY <2>1, <2>4, <2>5, <1>0 DEF Types, CacheInv, OnTheirBehalf, AnsweredInv, QuotesInv
  <2> QED
    BY <2>6, <2>7, <2>8, <2>9, <2>10 DEF IInv
<1>8. ASSUME NEW c \in Calls, Record(c) PROVE IInv'
  <2> DEFINE k == call[c].key
  <2>1. /\ UNCHANGED <<cache, now, current, payment, verified, abandoned, faults>>
        /\ call[c].at = "record" /\ End(c)
        /\ row' = [row EXCEPT ![k].status = payment[k]]
        /\ answered' = answered \cup {<<call[c].quote, call[c].reference, k>>}
    BY <1>8 DEF Record, Recorded
  <2>2. /\ call[c].quote \in Quotes /\ k \in Keys /\ call[c].reference \in References
        /\ row[k].status = "SUBMITTING" /\ row[k].quote = call[c].quote
        /\ row[k].reference = call[c].reference /\ Paying(c) /\ payment[k] \in Payments
    BY <2>1, <1>0 DEF CallInv, Paying
  <2>3. /\ row' \in [Keys -> Row] /\ row'[k].status = payment[k]
        /\ \A l \in Keys : row'[l].quote = row[l].quote /\ row'[l].reference = row[l].reference
        /\ \A l \in Keys \ {k} : row'[l] = row[l]
    BY <2>1, <2>2, <1>0 DEF Types, Row
  <2>4. ASSUME NEW d \in Calls, d # c PROVE CallInv(d)' /\ (Paying(d))' = Paying(d)
    <3>1. Paying(d) => call[d].key \in Keys /\ call[d].key # k
      BY <2>2, <2>4, <1>0 DEF PayingInv, CallInv, Paying
    <3>2. Paying(d) => row'[call[d].key] = row[call[d].key]
      BY <3>1, <2>3
    <3>3. call[d].since \in Nat
      BY <1>n DEF CallType
    <3> QED
      BY <3>2, <3>3, <2>1, <2>4, <1>a, <1>0, <1>n, CallKept
  <2>5. CallInv(c)' /\ ~Paying(c)'
    BY <2>1, <1>a
  <2>6. PayingInv'
    BY <2>1, <2>4, <2>5, <1>a, <1>0 DEF PayingInv
  <2>7. \A l \in Keys : RowInv(l)'
    BY <2>1, <2>2, <2>3, <1>0 DEF RowInv, Payments
  <2>8. QuotesInv'
    BY <2>3, <1>0 DEF QuotesInv
  <2>9. AnsweredInv' /\ answered' \subseteq Quotes \X References \X Keys
    BY <2>1, <2>2, <2>3, <1>0 DEF AnsweredInv, Types
  <2>10. Types' /\ CacheInv' /\ OnTheirBehalf'
    BY <2>1, <2>3, <2>9, <1>a, <1>0 DEF Types, CacheInv, OnTheirBehalf
  <2> QED
    BY <2>4, <2>5, <2>6, <2>7, <2>8, <2>9, <2>10 DEF IInv
<1>9. ASSUME NEW c \in Calls, Abort(c) PROVE IInv'
  <2>1. /\ UNCHANGED <<cache, now, current, row, payment, verified, answered>>
        /\ call[c].at # "idle" /\ End(c) /\ faults' = faults + 1 /\ faults < MaxFaults
        /\ abandoned' \subseteq abandoned \cup {call[c].key}
    BY <1>9 DEF Abort
  <2>2. call[c].key \in Keys
    BY <2>1, <1>0 DEF CallInv
  <2>3. (\A d \in Calls : (CallInv(d))') /\ PayingInv'
    BY <2>1, <1>a, <1>n, CallsKept DEF rows
  <2>4. Types' /\ CacheInv' /\ OnTheirBehalf' /\ AnsweredInv'
    BY <2>1, <2>2, <1>a, <1>0, TimesAssumption DEF Types, CacheInv, OnTheirBehalf, AnsweredInv
  <2> QED
    BY <2>1, <2>3, <2>4, RowsKept DEF IInv, rows
<1>10. ASSUME (\E q \in Quotes : Expire(q)) \/ Tick PROVE IInv'
  <2>1. /\ UNCHANGED <<cache, row, payment, verified, answered, call, abandoned, faults>>
        /\ current' \subseteq current /\ now' \in 0..MaxTime /\ now <= now'
    BY <1>10, <1>0, <1>n DEF Expire, Tick, Types
  <2>2. \A d \in Calls : CallInv(d)' /\ (Paying(d))' = Paying(d)
    <3> SUFFICES ASSUME NEW d \in Calls PROVE CallInv(d)' /\ (Paying(d))' = Paying(d)
      OBVIOUS
    <3>1. call[d].since \in Nat /\ now' \in Nat
      BY <1>n, <2>1 DEF CallType
    <3> QED
      BY <3>1, <2>1, <1>0, <1>n, CallKept
  <2>3. PayingInv'
    BY <2>1, <2>2, <1>0 DEF PayingInv
  <2>4. Types' /\ CacheInv' /\ OnTheirBehalf' /\ AnsweredInv'
    BY <2>1, <1>0 DEF Types, CacheInv, OnTheirBehalf, AnsweredInv
  <2> QED
    BY <2>1, <2>2, <2>3, <2>4, RowsKept DEF IInv, rows
<1>11. CASE UNCHANGED vars
  BY <1>11, <1>0 DEF vars, IInv, Types, CacheInv, CallInv, Paying, PayingInv, RowInv, QuotesInv,
                     AnsweredInv, OnTheirBehalf
<1> QED
  BY <1>1, <1>2, <1>3, <1>4, <1>5, <1>6, <1>7, <1>8, <1>9, <1>10, <1>11 DEF Next, Step

\* The invariant holds in every reachable state.
THEOREM Invariance == Spec => []IInv
  BY InitIInv, NextIInv, PTL DEF Spec

-----------------------------------------------------------------------------
\* Requests, payments, cache and calls are always well typed, and the cache never
\* holds more than its capacity.
THEOREM TypeCorrect == Spec => []TypeOK
<1>1. IInv => TypeOK
  BY DEF IInv, Types, TypeOK, CallType
<1> QED
  BY <1>1, Invariance, PTL

\* A quote backs one request and one payment, which is the one the request shows,
\* however many calls race for it.
THEOREM OnePayment == Spec => []OnePaymentPerQuote
<1>1. IInv => OnePaymentPerQuote
  BY DEF IInv, QuotesInv, RowInv, OnePaymentPerQuote
<1> QED
  BY <1>1, Invariance, PTL

\* Everyone who is told of a request for a quote is told of the same one.
THEOREM AnswersTheSame == Spec => []AnswersAgree
<1>1. IInv => AnswersAgree
  <2> SUFFICES ASSUME IInv, NEW x \in answered, NEW y \in answered, x[1] = y[1]
               PROVE  x = y /\ row[x[3]].quote = x[1] /\ row[x[3]].reference = x[2]
    BY DEF AnswersAgree
  <2>1. /\ x \in Quotes \X References \X Keys /\ y \in Quotes \X References \X Keys
        /\ row[x[3]].quote = x[1] /\ row[x[3]].reference = x[2]
        /\ row[y[3]].quote = y[1] /\ row[y[3]].reference = y[2]
    BY DEF IInv, Types, AnsweredInv
  <2>2. x[1] \in Quotes /\ x[3] \in Keys /\ y[3] \in Keys /\ x[1] # NoName
    BY <2>1, NamesAssumption
  <2>3. x[3] = y[3]
    BY <2>1, <2>2 DEF IInv, QuotesInv
  <2> QED
    BY <2>1, <2>3
<1> QED
  BY <1>1, Invariance, PTL

\* An authorization is always consumed on behalf of the customer who has the quote.
THEOREM ConsumedOnBehalf == Spec => []OnTheirBehalf
<1>1. IInv => OnTheirBehalf
  BY DEF IInv
<1> QED
  BY <1>1, Invariance, PTL

\* Whoever asks, and whoever asks at the same time: a quote has one request, and its
\* payment, and everyone is told of it.
THEOREM OneRequest == Spec => []OneRequestPerQuote
  BY OnePayment, AnswersTheSame, PTL DEF OneRequestPerQuote

\* If tokens are issued for longer than the margin, one is good for longer than the
\* margin when it is asked for, from the cache as well.
THEOREM TokensLast == ASSUME Lifetime > Margin PROVE Spec => []TokenOutlivesMargin
<1>1. IInv => TokenOutlivesMargin
  BY DEF IInv, CallInv, TokenOutlivesMargin, At
<1> QED
  BY <1>1, Invariance, PTL
===============================================================================
