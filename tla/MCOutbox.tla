------------------------------- MODULE MCOutbox -------------------------------
(***************************************************************************)
(* An instance of Outbox for TLC with two tenants, the events all of one,  *)
(* in one of two settings: one event while polls overlap after errors of   *)
(* the other tenant's batches, or batches of several events while the      *)
(* other tenant's batches find nothing and end at once.  The processes are *)
(* alike, so that the one which crashes is w1.                             *)
(***************************************************************************)
EXTENDS Outbox

CONSTANTS t1, t2, w1

VARIABLE setting

MCTenantOf == [e \in Event |-> t1]

\* Batches that end before anything else happens.
Passing == {b \in Batches : setting = "batches" /\ Tenant(b) = t2 /\ at[b] # "idle"}

MCInit == OutboxInit /\ setting \in {"overlap", "batches"}

MCNext ==
    /\ \/ \E b \in Passing : BatchStep(b) /\ UNCHANGED faults
       \/ /\ Passing = {}
          /\ \/ \E b \in Batches : BatchStep(b)
             \/ \E w \in Workers : Poll(w) \/ ChannelBreaks(w)
             \/ Crash(w1)
             \/ \E e \in Event : (e > 1 => setting = "batches" /\ status[1] # "NONE") /\ Write(e)
             \/ \E e \in Event : LeaseExpires(e) \/ BackoffEnds(e)
    /\ UNCHANGED setting

MCSpec ==
    /\ MCInit /\ [][MCNext]_<<outboxVars, setting>>
    /\ \A b \in Batches : WF_outboxVars(BatchStep(b))
    /\ \A w \in Workers : WF_outboxVars(Poll(w))
    /\ \A e \in Event : WF_outboxVars(LeaseExpires(e)) /\ WF_outboxVars(BackoffEnds(e))
===============================================================================
