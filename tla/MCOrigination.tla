----------------------------- MODULE MCOrigination -----------------------------
EXTENDS OriginationHistory

CONSTANT Portfolios \* bound: which applications the customer submits

VARIABLE portfolio  \* those of this behaviour

MCInit == HistoryInit /\ portfolio \in Portfolios

\* Bound: with several applications no call fails and two at once work on different ones,
\* no reviewer makes conditions, each application is offered once, and offers do not
\* lapse and are dealt with one by one.
SingleOffers ==
    /\ faults = 0 /\ lapsed = {}
    /\ \A c \in Calls : App!At(c, "store") => call[c].evidence.verdict # "ACTION_REQUIRED"
    /\ \A a \in Applications :
          Cardinality(Working(a)) <= 1 /\ Manual!Cleared(a) /\ Len(offers[a]) <= 1
    /\ Cardinality({q \in Requests : ~Off!At(q, "idle")}) <= 1

MCNext ==
    /\ HistoryNext /\ UNCHANGED portfolio
    /\ \A a \in Applications \ portfolio : application'[a] = "NONE"
    /\ Cardinality(portfolio) = 1 \/ SingleOffers'

\* Resent of module Application, for the applications the customer submits.
Resent(a) ==
    /\ SF_(App!vars)(a \in portfolio /\ \E c \in Calls : App!Submit(c, a))
    /\ SF_(App!vars)(\E c \in Calls : App!Evaluate(c, a))

MCSpec ==
    /\ MCInit /\ [][MCNext]_<<vars, history, portfolio>>
    /\ App!StepsEnd /\ Off!StepsEnd /\ \A a \in Applications : Resent(a)
===============================================================================
