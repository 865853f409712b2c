----------------------------- MODULE Dashboard ------------------------------
(***************************************************************************)
(* The dashboard: a server that lists SchedulingDecisions from its cache     *)
(* (cmd/dashboard/main.go) and a page that polls it, keeps the last list it  *)
(* got and renders it under the user's filters (static/index.html).          *)
(*                                                                         *)
(* The requests of the page are not ordered: one may be answered before an   *)
(* earlier one.  What the page shows is kept beside the state it was         *)
(* rendered from, since each handler renders only a part of the page.        *)
(***************************************************************************)
EXTENDS Integers, Sequences, FiniteSets, FiniteSetsExt, SequencesExt

CONSTANTS
    Nil,              \* a part of the page that has not been rendered
    Lists,            \* the decisions at the API server, one set after another
    Slots,            \* bound on the requests under way at a time
    OutcomeChoices,   \* outcomes the user filters for
    SearchWords,      \* words the user searches for
    MaxFailures       \* bound on failed requests

VARIABLES
    version,    \* the current one of Lists
    cached,     \* the one in the server's cache; 0 before its informer starts
    request,    \* the page's requests, by slot
    failures,   \* failed requests so far
    page        \* state of the script, inputs, and what is shown

vars == <<version, cached, request, failures, page>>

-----------------------------------------------------------------------------
(* Rendering: list is a set of decisions. *)

Having(list, outcome) == {d \in list : d.outcome = outcome}

\* (unknown) is written "?".
schedulerOf(d) == IF d.schedulerName = "" THEN "?" ELSE d.schedulerName

\* Math.round of an average, 0 of nothing.
Average(ds) ==
    LET n == Cardinality(ds)
        sum == MapThenSumSet(LAMBDA d : d.latency, ds)
    IN  IF n = 0 THEN 0 ELSE (2 * sum + n) \div (2 * n)

\* The Scheduled decisions whose latency is known.
Timed(list) == {d \in Having(list, "Scheduled") : d.latency > 0}

renderStats(list) ==
    [total |-> Cardinality(list),
     scheduled |-> Cardinality(Having(list, "Scheduled")),
     failed |-> Cardinality(Having(list, "FailedScheduling")),
     preempted |-> Cardinality(Having(list, "Preempted")),
     latency |-> Average(Timed(list))]

\* Mutant: a decision without a node has no cell.
renderHeatmap_SkipNone(list) ==
    LET placed == {d \in Having(list, "Scheduled") : d.node # ""}
        cell(d) == <<schedulerOf(d), d.node>>
    IN  [c \in {cell(d) : d \in placed} |->
            Cardinality({d \in placed : cell(d) = c})]

\* The count of each scheduler and node; (none) is the node "".
renderHeatmap(list) ==
    LET placed == Having(list, "Scheduled")
        cell(d) == <<schedulerOf(d), d.node>>
    IN  [c \in {cell(d) : d \in placed} |->
            Cardinality({d \in placed : cell(d) = c})]

\* The average of each scheduler.
renderLatencyChart(list) ==
    [s \in {schedulerOf(d) : d \in Timed(list)} |->
        Average({d \in Timed(list) : schedulerOf(d) = s})]

\* The options are made anew; the choice stays if it is still one of them.
populateSchedulerFilter(p) ==
    LET schedulers == {schedulerOf(d) : d \in p.decisions}
    IN  [p EXCEPT !.options = schedulers,
                  !.scheduler = IF @ \in schedulers THEN @ ELSE ""]

\* d.words are the words a user may search for that occur in the text of its
\* Pod's name and namespace and its node, whatever their case.
matchesFilters(p, d) ==
    /\ p.outcome # "" => d.outcome = p.outcome
    /\ p.scheduler # "" => schedulerOf(d) = p.scheduler
    /\ p.search # "" => p.search \in d.words

\* Newest first; a decision without an outcome counts from its creation.
Row(p, d) == [decision |-> d, toggle |-> d.transitions > 1,
              open |-> d.name \in p.expanded /\ d.transitions > 0]
SortTime(row) ==
    IF row.decision.decisionTimestamp # 0 THEN row.decision.decisionTimestamp
    ELSE row.decision.creationTimestamp
NewestFirst(rows) == SetToSortSeq(rows, LAMBDA a, b : SortTime(a) > SortTime(b))
TableOf(p) ==
    NewestFirst({Row(p, d) : d \in {e \in p.decisions : matchesFilters(p, e)}})
renderTable(p) == [p EXCEPT !.table = TableOf(p)]

Panels(p) ==
    [p EXCEPT !.cards = renderStats(p.decisions),
              !.heatmap = renderHeatmap(p.decisions),
              !.latency = renderLatencyChart(p.decisions)]

\* Mutant: the table is rendered before the scheduler filter.
renderAll_TableFirst(p) == populateSchedulerFilter(renderTable(Panels(p)))

renderAll(p) == renderTable(populateSchedulerFilter(Panels(p)))

-----------------------------------------------------------------------------
Idle == [step |-> "idle", ok |-> FALSE, list |-> {}]

Init ==
    /\ version = 1 /\ cached = 0
    /\ request = [i \in Slots |-> Idle]
    /\ failures = 0
    /\ page = [decisions |-> {}, expanded |-> {}, error |-> FALSE,
               outcome |-> "", scheduler |-> "", search |-> "", options |-> {},
               cards |-> Nil, heatmap |-> Nil, latency |-> Nil, table |-> Nil]

\* load, called at the start, by the interval timer and by the button.
load(i) ==
    /\ request[i].step = "idle"
    /\ request' = [request EXCEPT ![i].step = "sent"]
    /\ UNCHANGED <<version, cached, failures, page>>

\* decisionsHandler lists the cache, once it has synced.
Serve(i) ==
    /\ request[i].step = "sent"
    /\ cached > 0
    /\ request' = [request EXCEPT
          ![i] = [step |-> "answered", ok |-> TRUE, list |-> Lists[cached]]]
    /\ UNCHANGED <<version, cached, failures, page>>

\* The list fails (status 500), or the request does.
RequestFails(i) ==
    /\ request[i].step = "sent"
    /\ failures < MaxFailures
    /\ failures' = failures + 1
    /\ request' = [request EXCEPT ![i].step = "answered"]
    /\ UNCHANGED <<version, cached, page>>

\* Mutant: the banner of an earlier failure is left.
Receive_KeepError(i) ==
    /\ request[i].step = "answered"
    /\ page' = IF request[i].ok
               THEN renderAll([page EXCEPT !.decisions = request[i].list])
               ELSE [page EXCEPT !.error = TRUE]
    /\ request' = [request EXCEPT ![i] = Idle]
    /\ UNCHANGED <<version, cached, failures>>

\* The answer arrives.  A failure only shows the banner.
Receive(i) ==
    /\ request[i].step = "answered"
    /\ page' = IF request[i].ok
               THEN renderAll([page EXCEPT !.decisions = request[i].list,
                                           !.error = FALSE])
               ELSE [page EXCEPT !.error = TRUE]
    /\ request' = [request EXCEPT ![i] = Idle]
    /\ UNCHANGED <<version, cached, failures>>

\* The inputs of the user; each renders the table.
UserInput ==
    /\ \/ \E o \in OutcomeChoices : page' = renderTable([page EXCEPT !.outcome = o])
       \/ \E s \in page.options \cup {""} :
             page' = renderTable([page EXCEPT !.scheduler = s])
       \/ \E w \in SearchWords : page' = renderTable([page EXCEPT !.search = w])
    /\ UNCHANGED <<version, cached, request, failures>>

\* A click on the toggle of a row that is shown.
ToggleRow ==
    /\ page.table # Nil
    /\ \E i \in DOMAIN page.table :
          LET row == page.table[i]
              n == row.decision.name
          IN  /\ row.toggle
              /\ page' = renderTable([page EXCEPT
                    !.expanded = IF n \in @ THEN @ \ {n} ELSE @ \cup {n}])
    /\ UNCHANGED <<version, cached, request, failures>>

\* The decisions at the API server change.
DecisionsChange ==
    /\ version < Len(Lists)
    /\ version' = version + 1
    /\ UNCHANGED <<cached, request, failures, page>>

\* The informer starts with the first list that is asked for, and follows.
CacheAdvance ==
    /\ cached > 0 \/ \E i \in Slots : request[i].step = "sent"
    /\ cached < version
    /\ cached' \in (cached + 1) .. version
    /\ UNCHANGED <<version, request, failures, page>>

\* The server is started again: its cache begins anew, perhaps with an older
\* list, and the requests it had are broken.
ServerRestarts ==
    /\ failures < MaxFailures
    /\ failures' = failures + 1
    /\ cached' = 0
    /\ request' = [i \in Slots |-> IF request[i].step = "sent"
                                   THEN [Idle EXCEPT !.step = "answered"]
                                   ELSE request[i]]
    /\ UNCHANGED <<version, page>>

Next ==
    \/ \E i \in Slots : load(i) \/ Serve(i) \/ RequestFails(i) \/ Receive(i)
    \/ UserInput \/ ToggleRow
    \/ DecisionsChange \/ CacheAdvance \/ ServerRestarts

Spec == Init /\ [][Next]_vars

\* The timer goes on, a request ends and is answered, the informer follows.
FairSpec ==
    /\ Spec
    /\ WF_vars(\E i \in Slots : load(i))
    /\ \A i \in Slots : WF_vars(Serve(i) \/ RequestFails(i)) /\ WF_vars(Receive(i))
    /\ WF_vars(CacheAdvance)

-----------------------------------------------------------------------------
(* Properties. *)

\* Every part of the page that is shown is what the list, the filters and the
\* open rows as they are now render to, although each handler renders only some
\* parts and a new list can take away the scheduler that was filtered for
\* (renderAll, populateSchedulerFilter and the listeners).
PageShowsItsState ==
    /\ page.table # Nil => page.table = TableOf(page)
    /\ page.cards # Nil => page = Panels(page)
    /\ page.scheduler \in page.options \cup {""}

\* The panels tell one story: the cells of the heatmap add up to the card of
\* the Scheduled decisions, and the card of the average latency is 0 exactly
\* when the chart has no bar (renderStats, renderHeatmap, renderLatencyChart).
PanelsAgree ==
    page.cards # Nil =>
        /\ MapThenSumSet(LAMBDA c : page.heatmap[c], DOMAIN page.heatmap)
             = page.cards.scheduled
        /\ (page.cards.latency = 0) = (DOMAIN page.latency = {})

\* The page ends up with the decisions there are and without the error banner,
\* although an older list may overwrite a newer one when answers overtake each
\* other, requests fail and the server restarts (load, decisionsHandler).
PageCatchesUp == <>[](page.decisions = Lists[version] /\ ~page.error)

=============================================================================
