-------------------------------- MODULE Outbox --------------------------------
(***************************************************************************)
(* LendingOutboxPublisher and the timer in main.ts that drives it.  Every  *)
(* service process polls: a poll starts one batch per tenant; a batch      *)
(* claims rows of loan_outbox_events under a lease and publishes them one  *)
(* after the other on the process's channel, each confirmed by the broker  *)
(* before its row is marked.                                               *)
(*                                                                         *)
(* An event is a number, by age.  A worker is one run of a service process *)
(* (a restart draws a new lease owner), so a crash is final.  Time is left *)
(* to the environment: a lease may expire and a back-off may end.          *)
(***************************************************************************)
EXTENDS Naturals, FiniteSets

CONSTANTS
    Events,     \* how many events the services write
    Tenants,    \* tenants the publisher serves
    TenantOf,   \* the tenant of each event
    Workers,    \* runs of the service process
    NoWorker,   \* owner of a row that is not leased
    Overlap,    \* bound: batches of one tenant a worker may run at a time
    Limit,      \* rows a batch claims at most
    MaxFaults   \* bound: failures and expired leases of rows still worked on

Event == 1..Events
Batches == Workers \X Tenants \X (1..Overlap)

ASSUME ProcessesAssumption == IsFiniteSet(Workers) /\ IsFiniteSet(Tenants)
ASSUME SizesAssumption == Events \in Nat /\ Overlap \in Nat /\ Limit \in Nat \ {0} /\ MaxFaults \in Nat
ASSUME TenantOfAssumption == TenantOf \in [Event -> Tenants]
ASSUME NoWorkerAssumption == NoWorker \notin Workers

VARIABLES
    status,      \* loan_outbox_events.status, NONE before the row is written
    owner,       \* lease_owner
    expired,     \* lease_expires_at has passed
    available,   \* available_at has passed
    retries,     \* retry_count
    lapses,      \* how often a lease on the row has expired
    deliveries,  \* how often the broker has received the event
    alive,       \* workers running
    channel,     \* workers whose channel is open
    round,       \* the batches the worker's poll waits for; none: it may poll again
    at,          \* where each batch stands
    rows,        \* what each batch has claimed and not come to yet
    sending,     \* the row each batch is publishing, or none (0)
    faults       \* failures so far

table      == <<status, owner, expired, available, retries, lapses>>
worker     == <<alive, channel, round>>
outboxVars == <<table, deliveries, worker, at, rows, sending, faults>>

BatchPoints == {"idle", "connect", "claim", "publish", "confirm", "recordPublished", "recordFailed"}

OutboxTypeOK ==
    /\ status \in [Event -> {"NONE", "PENDING", "PROCESSING", "PUBLISHED", "FAILED"}]
    /\ owner \in [Event -> Workers \cup {NoWorker}]
    /\ \A e \in Event : owner[e] # NoWorker <=> status[e] = "PROCESSING"
    /\ expired \in [Event -> BOOLEAN] /\ available \in [Event -> BOOLEAN]
    /\ deliveries \in [Event -> Nat] /\ retries \in [Event -> Nat] /\ lapses \in [Event -> Nat]
    /\ alive \subseteq Workers /\ channel \subseteq alive
    /\ round \in [Workers -> SUBSET Batches]
    /\ at \in [Batches -> BatchPoints]
    /\ rows \in [Batches -> SUBSET Event] /\ sending \in [Batches -> Event \cup {0}]
    /\ faults \in 0..MaxFaults

OutboxInit ==
    /\ status = [e \in Event |-> "NONE"]
    /\ owner = [e \in Event |-> NoWorker]
    /\ expired = [e \in Event |-> FALSE] /\ available = [e \in Event |-> TRUE]
    /\ retries = [e \in Event |-> 0] /\ lapses = [e \in Event |-> 0]
    /\ deliveries = [e \in Event |-> 0]
    /\ alive = Workers /\ channel = Workers
    /\ round = [w \in Workers |-> {}]
    /\ at = [b \in Batches |-> "idle"]
    /\ rows = [b \in Batches |-> {}] /\ sending = [b \in Batches |-> 0]
    /\ faults = 0

-----------------------------------------------------------------------------
WorkerOf(b) == b[1]
Tenant(b)   == b[2]
GoesOn(b, point) == at' = [at EXCEPT ![b] = point]
Fault == faults < MaxFaults /\ faults' = faults + 1

\* A business transaction writes an event with the change it announces.
Write(e) ==
    /\ status[e] = "NONE"
    /\ status' = [status EXCEPT ![e] = "PENDING"]
    /\ UNCHANGED <<owner, expired, available, retries, lapses, deliveries, worker, at, rows, sending, faults>>

\* The batch of tenant t that worker w can run beside those under way, if any.
Free(w, t) == {i \in 1..Overlap :
    at[<<w, t, i>>] = "idle" /\ \A j \in 1..(i - 1) : at[<<w, t, j>>] # "idle"}

\* The timer fires and the last poll is over: one batch per tenant is started.
Poll(w) ==
    /\ w \in alive /\ round[w] = {}
    /\ \A t \in Tenants : Free(w, t) # {}
    /\ LET started == {b \in Batches : WorkerOf(b) = w /\ b[3] \in Free(w, Tenant(b))} IN
          /\ round' = [round EXCEPT ![w] = started]
          /\ at' = [b \in Batches |-> IF b \in started THEN "connect" ELSE at[b]]
    /\ UNCHANGED <<table, deliveries, alive, channel, rows, sending, faults>>

\* A batch ends.  A poll is over when all its batches have ended, or one of them
\* in an error: the others then go on beside those of the next poll.
Close(b) ==
    /\ GoesOn(b, "idle")
    /\ rows' = [rows EXCEPT ![b] = {}] /\ sending' = [sending EXCEPT ![b] = 0]
Resolve(b) ==
    /\ Close(b)
    /\ round' = [round EXCEPT ![WorkerOf(b)] = @ \ {b}]
Reject(b) ==
    /\ Close(b)
    /\ round' = [round EXCEPT ![WorkerOf(b)] = IF b \in @ THEN {} ELSE @]

\* A batch finds the channel open or opens a new one, or cannot.
Connect(b) ==
    /\ at[b] = "connect"
    /\ \/ channel' = channel \cup {WorkerOf(b)} /\ GoesOn(b, "claim")
          /\ UNCHANGED <<round, rows, sending, faults>>
       \/ WorkerOf(b) \notin channel /\ Fault /\ Reject(b) /\ UNCHANGED channel
    /\ UNCHANGED <<table, deliveries, alive>>

\* Mutant: a row whose lease has expired stays with its owner.
LapsedNever(t) == {}

\* Rows of a tenant whose lease has expired.
Lapsed(t) == {e \in Event : TenantOf[e] = t /\ status[e] = "PROCESSING" /\ expired[e]}

\* Mutant: rows under a live lease are candidates too.
ClaimableLeased(t) ==
    {e \in Event : TenantOf[e] = t /\ status[e] \in {"PENDING", "FAILED", "PROCESSING"} /\ available[e]}

\* Rows a claim of the tenant may take, given those whose lease it has ended.
Claimable(t) ==
    {e \in Event : TenantOf[e] = t /\ available[e]
                   /\ (status[e] \in {"PENDING", "FAILED"} \/ e \in Lapsed(t))}

\* The oldest of a set of events, as many as a batch takes.
Oldest(S) == {e \in S : Cardinality({f \in S : f < e}) < Limit}

\* One transaction: expired leases are ended, then the oldest rows leased.
Claim(b) ==
    LET t == Tenant(b)  leased == Oldest(Claimable(t)) IN
    /\ at[b] = "claim"
    /\ status' = [e \in Event |-> IF e \in leased THEN "PROCESSING"
                                  ELSE IF e \in Lapsed(t) THEN "PENDING" ELSE status[e]]
    /\ owner' = [e \in Event |-> IF e \in leased THEN WorkerOf(b)
                                 ELSE IF e \in Lapsed(t) THEN NoWorker ELSE owner[e]]
    /\ expired' = [e \in Event |-> expired[e] /\ e \notin leased \cup Lapsed(t)]
    /\ \/ leased # {} /\ rows' = [rows EXCEPT ![b] = leased] /\ GoesOn(b, "publish")
          /\ UNCHANGED <<round, sending>>
       \/ leased = {} /\ Resolve(b)
    /\ UNCHANGED <<available, retries, lapses, deliveries, alive, channel, faults>>

\* The next row is handed to the channel.  Without one the batch throws before
\* the handler that marks the row, which stays leased like those after it.
Publish(b) ==
    /\ at[b] = "publish"
    /\ \/ /\ WorkerOf(b) \in channel /\ GoesOn(b, "confirm")
          /\ \E e \in rows[b] :
                /\ \A f \in rows[b] : e <= f
                /\ sending' = [sending EXCEPT ![b] = e] /\ rows' = [rows EXCEPT ![b] = @ \ {e}]
          /\ UNCHANGED round
       \/ WorkerOf(b) \notin channel /\ Reject(b)
    /\ UNCHANGED <<table, deliveries, alive, channel, faults>>

\* Mutant: the row is marked whether or not the broker has confirmed.
AfterConfirmAnyway(confirmed) == "recordPublished"

\* Where the outcome of waitForConfirms leads.
AfterConfirm(confirmed) == IF confirmed THEN "recordPublished" ELSE "recordFailed"

\* The broker confirms what is on the channel, or refuses some of it: the message
\* of this batch, or one of another batch of the process while this one got there.
Confirm(b) ==
    /\ at[b] = "confirm"
    /\ \E confirmed, received \in BOOLEAN :
          /\ confirmed => received
          /\ deliveries' = IF received THEN [deliveries EXCEPT ![sending[b]] = @ + 1]
                           ELSE deliveries
          /\ GoesOn(b, AfterConfirm(confirmed))
          /\ IF confirmed THEN UNCHANGED faults ELSE Fault
    /\ UNCHANGED <<table, worker, rows, sending>>

\* Mutant: an update looks only at the row's id.
MayMarkAnyone(b) == TRUE

\* The guard of both updates: the row is still leased to the worker.
MayMark(b) == LET e == sending[b] IN status[e] = "PROCESSING" /\ owner[e] = WorkerOf(b)

\* A marked row gives its lease up.
Mark(b, s) ==
    IF MayMark(b)
    THEN /\ status' = [status EXCEPT ![sending[b]] = s]
         /\ owner' = [owner EXCEPT ![sending[b]] = NoWorker]
         /\ expired' = [expired EXCEPT ![sending[b]] = FALSE]
    ELSE UNCHANGED <<status, owner, expired>>

\* The row is marked PUBLISHED and the batch goes on, or ends with its last row;
\* a failed update is handled like a failed publication.
RecordPublished(b) ==
    /\ at[b] = "recordPublished"
    /\ \/ /\ Mark(b, "PUBLISHED")
          /\ \/ rows[b] # {} /\ GoesOn(b, "publish") /\ sending' = [sending EXCEPT ![b] = 0]
                /\ UNCHANGED <<round, rows>>
             \/ rows[b] = {} /\ Resolve(b)
          /\ UNCHANGED faults
       \/ /\ Fault /\ GoesOn(b, "recordFailed")
          /\ UNCHANGED <<status, owner, expired, round, rows, sending>>
    /\ UNCHANGED <<available, retries, lapses, deliveries, alive, channel>>

\* The row is marked FAILED with a back-off, unless that update fails as well, and
\* the batch ends in an error: the rows after it stay leased.
RecordFailed(b) ==
    /\ at[b] = "recordFailed"
    /\ \/ /\ Mark(b, "FAILED")
          /\ available' = [available EXCEPT ![sending[b]] = @ /\ ~MayMark(b)]
          /\ retries' = [retries EXCEPT ![sending[b]] = IF MayMark(b) THEN @ + 1 ELSE @]
          /\ UNCHANGED <<lapses, faults>>
       \/ Fault /\ UNCHANGED table
    /\ Reject(b)
    /\ UNCHANGED <<deliveries, alive, channel>>

-----------------------------------------------------------------------------
(* The environment. *)

\* Messages a worker has handed over and not had confirmed when it is cut off
\* from the broker: each may have got there.
SomeReceived(w) ==
    LET inTransit == {b \in Batches : WorkerOf(b) = w /\ at[b] = "confirm"} IN
    \E got \in SUBSET inTransit :
        deliveries' = [e \in Event |->
            deliveries[e] + Cardinality({b \in got : sending[b] = e})]

\* The channel closes: what waits for a confirmation on it is told so.
ChannelBreaks(w) ==
    /\ w \in channel /\ Fault
    /\ channel' = channel \ {w}
    /\ SomeReceived(w)
    /\ at' = [b \in Batches |-> IF WorkerOf(b) = w /\ at[b] = "confirm"
                                THEN AfterConfirm(FALSE) ELSE at[b]]
    /\ UNCHANGED <<table, alive, round, rows, sending>>

\* A process dies; another one runs on or takes its place.
Crash(w) ==
    /\ w \in alive /\ alive # {w} /\ Fault
    /\ alive' = alive \ {w} /\ channel' = channel \ {w}
    /\ SomeReceived(w)
    /\ round' = [round EXCEPT ![w] = {}]
    /\ at' = [b \in Batches |-> IF WorkerOf(b) = w THEN "idle" ELSE at[b]]
    /\ rows' = [b \in Batches |-> IF WorkerOf(b) = w THEN {} ELSE rows[b]]
    /\ sending' = [b \in Batches |-> IF WorkerOf(b) = w THEN 0 ELSE sending[b]]
    /\ UNCHANGED table

HeldBy(e) == {b \in Batches : e \in rows[b] \cup {sending[b]}}

\* The lease of a row ends, on time once nobody works on it any more, or too early
\* for a batch that is slow.
LeaseExpires(e) ==
    /\ status[e] = "PROCESSING" /\ ~expired[e]
    /\ IF HeldBy(e) = {} THEN UNCHANGED faults ELSE Fault
    /\ expired' = [expired EXCEPT ![e] = TRUE]
    /\ lapses' = [lapses EXCEPT ![e] = @ + 1]
    /\ UNCHANGED <<status, owner, available, retries, deliveries, worker, at, rows, sending>>

BackoffEnds(e) ==
    /\ ~available[e]
    /\ available' = [available EXCEPT ![e] = TRUE]
    /\ UNCHANGED <<status, owner, expired, retries, lapses, deliveries, worker, at, rows, sending, faults>>

BatchStep(b) ==
    Connect(b) \/ Claim(b) \/ Publish(b) \/ Confirm(b) \/ RecordPublished(b) \/ RecordFailed(b)

OutboxNext ==
    \/ \E b \in Batches : BatchStep(b)
    \/ \E w \in Workers : Poll(w) \/ ChannelBreaks(w) \/ Crash(w)
    \/ \E e \in Event : Write(e) \/ LeaseExpires(e) \/ BackoffEnds(e)

OutboxSpec == OutboxInit /\ [][OutboxNext]_outboxVars

\* The timer keeps firing, batches go on, and time passes.
OutboxFairSpec ==
    /\ OutboxSpec
    /\ \A b \in Batches : WF_outboxVars(BatchStep(b))
    /\ \A w \in Workers : WF_outboxVars(Poll(w))
    /\ \A e \in Event : WF_outboxVars(LeaseExpires(e)) /\ WF_outboxVars(BackoffEnds(e))

-----------------------------------------------------------------------------
(* Properties. *)

\* A row marked PUBLISHED was received by the broker, whoever marked it.
PublishedIsDelivered == \A e \in Event : status[e] = "PUBLISHED" => deliveries[e] > 0

\* The table can be believed: a row is leased exactly while it is PROCESSING, and
\* PUBLISHED only after the broker had the event.
TableIsTrue == OutboxTypeOK /\ PublishedIsDelivered

\* Each delivery of an event beyond the first has a failed attempt or an expired
\* lease of its own: several processes, and several polls of one process, never
\* send a row twice just because they work side by side.
DuplicatesAreAccounted ==
    \A e \in Event : deliveries[e] <= 1 + retries[e] + lapses[e]

\* A PUBLISHED row is never taken up or marked again, however late a batch that
\* lost its lease comes back.
PublishedIsFinal ==
    [][\A e \in Event : status[e] = "PUBLISHED" => status'[e] = "PUBLISHED"]_status

\* Every event written is published in the end.
EventuallyPublished == \A e \in Event : status[e] = "PENDING" ~> status[e] = "PUBLISHED"
================================================================================
