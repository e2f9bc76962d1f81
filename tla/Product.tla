------------------------------- MODULE Product -------------------------------
(***************************************************************************)
(* LoanProductService: the versions of one loan product and their          *)
(* publication, each on a one-time approval from tenant administration.    *)
(* Publication reads the version, consumes the approval and then, in one   *)
(* transaction, retires the version that is current and publishes its own. *)
(* The statements of that transaction see what is committed when they run  *)
(* and wait for rows that another transaction has changed.                 *)
(*                                                                         *)
(* A version is its number.  The transaction that creates one has the      *)
(* product's row locked from before it numbers it until it commits, so     *)
(* that both are one step here.                                            *)
(***************************************************************************)
EXTENDS Naturals, Sequences, FiniteSets

CONSTANTS
    MaxVersions, \* bound: versions of the product
    Approvals,   \* approvals of publications
    VersionOf,   \* the version whose terms an approval is for
    Keys,        \* idempotency keys, of creations and of publications
    None,        \* key or approval of nothing
    Attempts,    \* requests handled at the same time
    MaxDeaths    \* bound: those that die

ASSUME ProductAssumption ==
    /\ MaxVersions \in Nat /\ MaxDeaths \in Nat
    /\ VersionOf \in [Approvals -> Nat]
    /\ None \notin Approvals \cup Keys
    /\ IsFiniteSet(Attempts)

VARIABLES
    product,   \* loan_products.lifecycle_status, NONE before the row is written
    versions,  \* loan_product_versions, in the order of version_number
    events,    \* versions whose publication is in the outbox
    consumed,  \* tenant administration: the key each approval was consumed with
    attempt,   \* the requests in progress
    deaths     \* those that died so far

productVars == <<product, versions, events, consumed, attempt, deaths>>

Numbers == 1..MaxVersions
Points  == {"idle", "insert", "approve", "retire", "wait", "publish"}
Idle    == [at |-> "idle", key |-> None, version |-> 0, approval |-> None, seen |-> {}, held |-> {}]

Version == [key : Keys, status : {"DRAFT", "PUBLISHED", "RETIRED"}, current : BOOLEAN,
            approval : Approvals \cup {None}]
Call == [at : Points, key : Keys \cup {None}, version : 0..MaxVersions,
         approval : Approvals \cup {None}, seen : SUBSET Numbers, held : SUBSET Numbers]

ProductTypeOK ==
    /\ product \in {"NONE", "DRAFT", "ACTIVE"}
    /\ versions \in Seq(Version) /\ Len(versions) <= MaxVersions
    /\ \A v, w \in DOMAIN versions : versions[v].key = versions[w].key => v = w
    /\ events \subseteq DOMAIN versions
    /\ consumed \in [Approvals -> Keys \cup {None}]
    /\ attempt \in [Attempts -> Call]
    /\ deaths \in 0..MaxDeaths

ProductInit ==
    /\ product = "NONE" /\ versions = <<>>
    /\ events = {}
    /\ consumed = [a \in Approvals |-> None]
    /\ attempt = [c \in Attempts |-> Idle]
    /\ deaths = 0

-----------------------------------------------------------------------------
At(c, point)   == attempt[c].at = point
GoTo(c, point) == attempt' = [attempt EXCEPT ![c].at = point]
End(c)         == attempt' = [attempt EXCEPT ![c] = Idle]

Current == {v \in DOMAIN versions : versions[v].status = "PUBLISHED" /\ versions[v].current}

\* Whoever creates the product first does; its code and its key are unique.
CreateProduct ==
    /\ product = "NONE"
    /\ product' = "DRAFT"
    /\ UNCHANGED <<versions, events, consumed, attempt, deaths>>

\* The terms of a version are valid and its key is new when it is looked for.
CreateVersion(c, k) ==
    /\ At(c, "idle") /\ product # "NONE"
    /\ Len(versions) + Cardinality({d \in Attempts : At(d, "insert")}) < MaxVersions
    /\ \A v \in DOMAIN versions : versions[v].key # k
    /\ attempt' = [attempt EXCEPT ![c] = [Idle EXCEPT !.at = "insert", !.key = k]]
    /\ UNCHANGED <<product, versions, events, consumed, deaths>>

\* uq_product_version_idempotency.
KeyFree(k) == \A v \in DOMAIN versions : versions[v].key # k

InsertVersion(c) ==
    /\ At(c, "insert")
    /\ \/ /\ KeyFree(attempt[c].key)
          /\ versions' = Append(versions, [key |-> attempt[c].key, status |-> "DRAFT",
                                           current |-> FALSE, approval |-> None])
       \/ ~KeyFree(attempt[c].key) /\ UNCHANGED versions
    /\ End(c)
    /\ UNCHANGED <<product, events, consumed, deaths>>

-----------------------------------------------------------------------------
\* A version that is not published yet is read.
Publish(c, v, a, k) ==
    /\ At(c, "idle") /\ v \in DOMAIN versions /\ versions[v].status = "DRAFT"
    /\ attempt' = [attempt EXCEPT ![c] = [Idle EXCEPT !.at = "approve", !.key = k, !.version = v,
                                                      !.approval = a]]
    /\ UNCHANGED <<product, versions, events, consumed, deaths>>

\* Mutant: an approval is refused to the request that has consumed it.
GrantsOnce(a, v, k) ==
    VersionOf[a] = v /\ consumed[a] = None /\ \A b \in Approvals \ {a} : consumed[b] # k

\* An approval is for the terms of a version, and consumed once: with one key, that
\* is for nothing else.
Grants(a, v, k) ==
    VersionOf[a] = v /\ consumed[a] \in {None, k} /\ \A b \in Approvals \ {a} : consumed[b] # k

Approve(c) ==
    LET a == attempt[c].approval  k == attempt[c].key
        granted == Grants(a, attempt[c].version, k)
    IN
    /\ At(c, "approve")
    /\ \/ granted /\ consumed' = [consumed EXCEPT ![a] = k] /\ GoTo(c, "retire")
       \/ ~granted /\ End(c) /\ UNCHANGED consumed
    /\ UNCHANGED <<product, versions, events, deaths>>

\* The first statement finds the version to retire,
Retire(c) ==
    /\ At(c, "retire")
    /\ attempt' = [attempt EXCEPT ![c].at = "wait", ![c].seen = Current]
    /\ UNCHANGED <<product, versions, events, consumed, deaths>>

\* A row changed by another transaction that is not over.
Locked(c, v) == \E d \in Attempts \ {c} : v \in attempt[d].held

\* and changes it as soon as no other transaction does, if it is current still.
Lock(c) ==
    /\ At(c, "wait") /\ \A v \in attempt[c].seen : ~Locked(c, v)
    /\ attempt' = [attempt EXCEPT ![c].at = "publish", ![c].held = attempt[c].seen \cap Current]
    /\ UNCHANGED <<product, versions, events, consumed, deaths>>

\* Mutant: the index on current versions is not there.
TakenNever(c) == FALSE

\* uq_current_published_product_version: another version is current.
Taken(c) == Current \ attempt[c].held # {}

\* protect_published_product_version: the version has been published meanwhile.
Frozen(c) == versions[attempt[c].version].status # "DRAFT"

\* Mutant: what is retired stays retired when the publication fails.
RolledBackButRetired(c) ==
    [v \in DOMAIN versions |-> IF v \in attempt[c].held
        THEN [versions[v] EXCEPT !.status = "RETIRED", !.current = FALSE] ELSE versions[v]]

\* The table after a publication that fails.
RolledBack(c) == versions

\* The version is published with its approval, the product active, and the event
\* written; or all of it is undone.
Commit(c) ==
    LET own == attempt[c].version IN
    /\ At(c, "publish") /\ ~Locked(c, own)
    /\ \/ /\ ~Frozen(c) /\ ~Taken(c)
          /\ versions' = [v \in DOMAIN versions |->
                CASE v = own -> [versions[v] EXCEPT !.status = "PUBLISHED", !.current = TRUE,
                                                    !.approval = attempt[c].approval]
                  [] v \in attempt[c].held -> [versions[v] EXCEPT !.status = "RETIRED", !.current = FALSE]
                  [] OTHER -> versions[v]]
          /\ product' = "ACTIVE"
          /\ events' = events \cup {own}
       \/ /\ Frozen(c) \/ Taken(c)
          /\ versions' = RolledBack(c)
          /\ UNCHANGED <<product, events>>
    /\ End(c)
    /\ UNCHANGED <<consumed, deaths>>

\* A request dies, or the service it waits for fails; its transaction is undone.
Abort(c) ==
    /\ ~At(c, "idle") /\ deaths < MaxDeaths
    /\ deaths' = deaths + 1
    /\ End(c)
    /\ UNCHANGED <<product, versions, events, consumed>>

-----------------------------------------------------------------------------
Step(c) == InsertVersion(c) \/ Approve(c) \/ Retire(c) \/ Lock(c) \/ Commit(c)

\* The client of a publication asks again, with the key its approval was consumed with.
Resend(a) == \E c \in Attempts : consumed[a] # None /\ Publish(c, VersionOf[a], a, consumed[a])

ProductNext ==
    \/ CreateProduct
    \/ \E c \in Attempts : Step(c) \/ Abort(c)
    \/ \E c \in Attempts, k \in Keys : CreateVersion(c, k)
    \/ \E c \in Attempts, v \in Numbers, a \in Approvals, k \in Keys : Publish(c, v, a, k)

ProductSpec == ProductInit /\ [][ProductNext]_productVars

\* What is ready runs, services time out, and clients ask again.
FairProductSpec ==
    /\ ProductSpec
    /\ \A c \in Attempts : WF_productVars(Step(c))
    /\ \A a \in Approvals : SF_productVars(Resend(a))

-----------------------------------------------------------------------------
(* Properties. *)

\* However many publications race, one version of the product is current at most, and
\* only a current one is PUBLISHED: offers never find two sets of terms in force.
OneInForce ==
    /\ Cardinality(Current) <= 1
    /\ \A v \in DOMAIN versions : versions[v].status = "PUBLISHED" <=> versions[v].current
    /\ Current # {} => product = "ACTIVE"

\* What has ever been in force was approved on just its terms, and was announced.
PublishedAsApproved ==
    \A v \in DOMAIN versions : versions[v].status # "DRAFT" =>
        /\ versions[v].approval # None /\ VersionOf[versions[v].approval] = v
        /\ consumed[versions[v].approval] # None
        /\ v \in events

\* At any moment: at most one set of terms in force, which was approved as it stands.
InForceAsApproved == ProductTypeOK /\ OneInForce /\ PublishedAsApproved

\* A product that has terms in force never is without again: a publication that fails
\* after it has retired them leaves them in force.
NeverWithdrawn == [][Current # {} => Current' # {}]_versions

\* A version is published once and, when another has replaced it, never again, not even
\* by a request that has read it as a draft long before.
NeverRepublished ==
    [][\A v \in DOMAIN versions :
          versions[v].status # "DRAFT" => versions'[v].status \in {versions[v].status, "RETIRED"}]_versions

\* What was published is replaced, never taken back and never brought back.
NeverTakenBack == NeverWithdrawn /\ NeverRepublished

\* A publication whose approval is consumed happens in the end, although a race with
\* another version fails it, when the client asks again with the same key.
ApprovedIsPublished ==
    \A a \in Approvals :
        consumed[a] # None ~> \E v \in DOMAIN versions : v = VersionOf[a] /\ versions[v].status # "DRAFT"
================================================================================
