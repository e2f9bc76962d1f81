-------------------------------- MODULE Tokens --------------------------------
(***************************************************************************)
(* ParcTokenClient: the access tokens with which the service calls others, *)
(* and its cache of them.  A token is asked for one audience and its       *)
(* scopes, named together by the audience, and either for the service      *)
(* itself or for the user whose request is being handled.                  *)
(***************************************************************************)
EXTENDS Integers, FiniteSets

CONSTANTS
    Users,     \* who sends requests, each with one inbound token
    Service,   \* the subject of a token that is nobody's but the service's
    Audiences, \* services called, with the scopes this takes
    Lifetime,  \* expires_in of the tokens issued
    Margin,    \* how long a cached token must still be good, 30 seconds
    Capacity   \* how many tokens the cache holds, 1000

VARIABLES
    cache, \* tokens by cache key, each with the time it is taken to expire
    now    \* the clock

Subjects == Users \cup {Service}

\* A token knows whom it was issued for and how long it is good.
Token == [subject : Subjects, audience : Audiences, expires : Nat]

\* Mutant: the key does not tell users apart.
KeyOfKind(subject, audience) == <<subject = Service, audience>>

\* A token is cached by its kind, its audience and the inbound token it stands for.
Key(subject, audience) == <<subject, audience>>

\* What is in the cache.
Cached(key) == {entry \in cache : entry.key = key}

\* A cached token is used while it is good for more than the margin.
Good(expiresAt) == expiresAt - Margin > now

Hits(subject, audience) == {entry \in Cached(Key(subject, audience)) : Good(entry.expiresAt)}

\* The issuer's answer to a request of the time since.
Issue(subject, audience) == [subject |-> subject, audience |-> audience, expires |-> now + Lifetime]

\* What stays in the cache when a token is put there: nothing, once it is full.
Kept(key) == IF Cardinality(cache) >= Capacity THEN {} ELSE cache \ Cached(key)

\* The token replaces the one under its key.
Put(subject, audience, token, since) ==
    LET key == Key(subject, audience)
    IN  cache' = Kept(key) \cup {[key |-> key, token |-> token, expiresAt |-> since + Lifetime]}
================================================================================
