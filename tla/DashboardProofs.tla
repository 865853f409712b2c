-------------------------- MODULE DashboardProofs ---------------------------
(***************************************************************************)
(* The page shows what its state says, for any lists, filters and number of  *)
(* requests under way.                                                       *)
(***************************************************************************)
EXTENDS Dashboard, TLAPS

\* p is a record with the fields of the page.
IsPage(p) ==
    p \in [decisions : {p.decisions}, expanded : {p.expanded}, error : {p.error},
          outcome : {p.outcome}, scheduler : {p.scheduler}, search : {p.search},
          options : {p.options}, cards : {p.cards}, heatmap : {p.heatmap},
          latency : {p.latency}, table : {p.table}]

\* PageShowsItsState in parts, of any page.
TableShown(p) == p.table # Nil => p.table = TableOf(p)
PanelsShown(p) ==
    p.cards # Nil => /\ p.cards = renderStats(p.decisions)
                     /\ p.heatmap = renderHeatmap(p.decisions)
                     /\ p.latency = renderLatencyChart(p.decisions)
ChoiceOffered(p) == p.scheduler \in p.options \cup {""}

GoodPage(p) == IsPage(p) /\ TableShown(p) /\ PanelsShown(p) /\ ChoiceOffered(p)

LEMMA PanelsRendered ==
    ASSUME NEW p, IsPage(p)
    PROVE  PanelsShown(p) <=> (p.cards # Nil => p = Panels(p))
  BY DEF PanelsShown, Panels, IsPage

\* The table depends on the list, the filters and the open rows only.
LEMMA TableReads ==
    ASSUME NEW p, NEW q,
           p.decisions = q.decisions, p.expanded = q.expanded,
           p.outcome = q.outcome, p.scheduler = q.scheduler, p.search = q.search
    PROVE  TableOf(p) = TableOf(q)
  <1>1. \A d : Row(p, d) = Row(q, d) /\ (matchesFilters(p, d) = matchesFilters(q, d))
    BY DEF Row, matchesFilters
  <1>2. {e \in p.decisions : matchesFilters(p, e)}
          = {e \in q.decisions : matchesFilters(q, e)}
    BY <1>1, Zenon
  <1>3. {Row(p, d) : d \in {e \in p.decisions : matchesFilters(p, e)}}
          = {Row(q, d) : d \in {e \in q.decisions : matchesFilters(q, e)}}
    BY <1>1, <1>2
  <1> QED
    BY <1>3, Zenon DEF TableOf

\* A listener that changes an input or the open rows renders the table; the
\* panels, which do not depend on them, are still right.
LEMMA TableRendered ==
    ASSUME NEW p, NEW q, GoodPage(p), IsPage(q), ChoiceOffered(q),
           q.decisions = p.decisions, q.cards = p.cards,
           q.heatmap = p.heatmap, q.latency = p.latency
    PROVE  GoodPage(renderTable(q))
  <1> DEFINE r == renderTable(q)
  <1>1. /\ IsPage(r) /\ r.table = TableOf(q)
        /\ r.decisions = q.decisions /\ r.expanded = q.expanded
        /\ r.outcome = q.outcome /\ r.scheduler = q.scheduler
        /\ r.search = q.search /\ r.options = q.options
        /\ r.cards = q.cards /\ r.heatmap = q.heatmap /\ r.latency = q.latency
    BY DEF renderTable, IsPage
  <1> HIDE DEF r
  <1>2. TableOf(r) = TableOf(q)
    BY <1>1, TableReads
  <1> QED
    BY <1>1, <1>2 DEF GoodPage, TableShown, PanelsShown, ChoiceOffered, r

\* An answer renders the whole page: the panels, then the choice of schedulers,
\* then the table, which depends on that choice.
LEMMA AllRendered ==
    ASSUME NEW p, IsPage(p)
    PROVE  GoodPage(renderAll(p))
  <1> DEFINE a == Panels(p)
             b == populateSchedulerFilter(a)
  <1>1. /\ IsPage(a) /\ a.decisions = p.decisions
        /\ a.cards = renderStats(p.decisions)
        /\ a.heatmap = renderHeatmap(p.decisions)
        /\ a.latency = renderLatencyChart(p.decisions)
    BY DEF Panels, IsPage
  <1> HIDE DEF a
  <1>2. /\ IsPage(b) /\ b.decisions = a.decisions /\ b.cards = a.cards
        /\ b.heatmap = a.heatmap /\ b.latency = a.latency
        /\ ChoiceOffered(b)
    BY <1>1 DEF populateSchedulerFilter, IsPage, ChoiceOffered
  <1> HIDE DEF b
  <1> DEFINE r == renderTable(b)
  <1>3. /\ IsPage(r) /\ r.table = TableOf(b)
        /\ r.decisions = b.decisions /\ r.expanded = b.expanded
        /\ r.outcome = b.outcome /\ r.scheduler = b.scheduler
        /\ r.search = b.search /\ r.options = b.options
        /\ r.cards = b.cards /\ r.heatmap = b.heatmap /\ r.latency = b.latency
    BY <1>2 DEF renderTable, IsPage
  <1> HIDE DEF r
  <1>4. TableOf(r) = TableOf(b)
    BY <1>3, TableReads
  <1>5. GoodPage(r)
    BY <1>1, <1>2, <1>3, <1>4 DEF GoodPage, TableShown, PanelsShown, ChoiceOffered
  <1> QED
    BY <1>5 DEF renderAll, r, b, a

-----------------------------------------------------------------------------
LEMMA PageInit == Init => GoodPage(page)
  <1> SUFFICES ASSUME Init
               PROVE  GoodPage(page)
    OBVIOUS
  <1>1. /\ page.table = Nil /\ page.cards = Nil /\ page.scheduler = ""
    BY DEF Init
  <1>2. IsPage(page)
    BY DEF Init, IsPage
  <1> QED
    BY <1>1, <1>2 DEF GoodPage, TableShown, PanelsShown, ChoiceOffered

LEMMA PageReceive ==
    ASSUME GoodPage(page), NEW i \in Slots, Receive(i)
    PROVE  GoodPage(page')
  <1>1. CASE request[i].ok
    <2>1. IsPage([page EXCEPT !.decisions = request[i].list, !.error = FALSE])
      BY DEF GoodPage, IsPage
    <2> QED
      BY <1>1, <2>1, AllRendered DEF Receive
  <1>2. CASE ~request[i].ok
    <2>1. page' = [page EXCEPT !.error = TRUE]
      BY <1>2 DEF Receive
    <2>2. /\ IsPage(page') /\ page'.table = page.table
          /\ page'.decisions = page.decisions /\ page'.expanded = page.expanded
          /\ page'.outcome = page.outcome /\ page'.scheduler = page.scheduler
          /\ page'.search = page.search /\ page'.options = page.options
          /\ page'.cards = page.cards /\ page'.heatmap = page.heatmap
          /\ page'.latency = page.latency
      BY <2>1 DEF GoodPage, IsPage
    <2>3. TableOf(page') = TableOf(page)
      BY <2>2, TableReads
    <2> QED
      BY <2>2, <2>3 DEF GoodPage, TableShown, PanelsShown, ChoiceOffered
  <1> QED
    BY <1>1, <1>2

LEMMA PageUserInput ==
    ASSUME GoodPage(page), UserInput
    PROVE  GoodPage(page')
  <1>1. ASSUME NEW o \in OutcomeChoices,
               page' = renderTable([page EXCEPT !.outcome = o])
        PROVE  GoodPage(page')
    <2> DEFINE q == [page EXCEPT !.outcome = o]
    <2>1. /\ IsPage(q) /\ ChoiceOffered(q) /\ q.decisions = page.decisions
          /\ q.cards = page.cards /\ q.heatmap = page.heatmap
          /\ q.latency = page.latency
      BY DEF GoodPage, IsPage, ChoiceOffered
    <2> QED
      BY <1>1, <2>1, TableRendered
  <1>2. ASSUME NEW s \in page.options \cup {""},
               page' = renderTable([page EXCEPT !.scheduler = s])
        PROVE  GoodPage(page')
    <2> DEFINE q == [page EXCEPT !.scheduler = s]
    <2>1. /\ IsPage(q) /\ ChoiceOffered(q) /\ q.decisions = page.decisions
          /\ q.cards = page.cards /\ q.heatmap = page.heatmap
          /\ q.latency = page.latency
      BY DEF GoodPage, IsPage, ChoiceOffered
    <2> QED
      BY <1>2, <2>1, TableRendered
  <1>3. ASSUME NEW w \in SearchWords,
               page' = renderTable([page EXCEPT !.search = w])
        PROVE  GoodPage(page')
    <2> DEFINE q == [page EXCEPT !.search = w]
    <2>1. /\ IsPage(q) /\ ChoiceOffered(q) /\ q.decisions = page.decisions
          /\ q.cards = page.cards /\ q.heatmap = page.heatmap
          /\ q.latency = page.latency
      BY DEF GoodPage, IsPage, ChoiceOffered
    <2> QED
      BY <1>3, <2>1, TableRendered
  <1> QED
    BY <1>1, <1>2, <1>3 DEF UserInput

LEMMA PageToggleRow ==
    ASSUME GoodPage(page), ToggleRow
    PROVE  GoodPage(page')
  <1>1. PICK names : page' = renderTable([page EXCEPT !.expanded = names])
    BY DEF ToggleRow
  <1> DEFINE q == [page EXCEPT !.expanded = names]
  <1>2. /\ IsPage(q) /\ ChoiceOffered(q) /\ q.decisions = page.decisions
        /\ q.cards = page.cards /\ q.heatmap = page.heatmap
        /\ q.latency = page.latency
    BY DEF GoodPage, IsPage, ChoiceOffered
  <1> QED
    BY <1>1, <1>2, TableRendered

\* After any handler every part of the page that is shown is what the list, the
\* filters and the open rows render to, for any lists, choices and number of
\* requests whose answers overtake each other (renderAll, renderTable,
\* populateSchedulerFilter and the listeners).
THEOREM PageIsCurrent == Spec => []PageShowsItsState
  <1>1. GoodPage(page) /\ [Next]_vars => GoodPage(page')
    <2> SUFFICES ASSUME GoodPage(page), [Next]_vars
                 PROVE  GoodPage(page')
      OBVIOUS
    <2>1. CASE page' = page
      BY <2>1
    <2>2. page' = page \/ UserInput \/ ToggleRow \/ \E i \in Slots : Receive(i)
      BY DEF Next, vars, load, Serve, RequestFails, DecisionsChange, CacheAdvance,
             ServerRestarts
    <2> QED
      BY <2>1, <2>2, PageReceive, PageUserInput, PageToggleRow
  <1>2. GoodPage(page) => PageShowsItsState
    BY PanelsRendered DEF GoodPage, TableShown, ChoiceOffered, PageShowsItsState
  <1>3. GoodPage(page)' <=> GoodPage(page')
    BY DEF GoodPage, IsPage, TableShown, PanelsShown, ChoiceOffered, TableOf
  <1> QED
    BY <1>1, <1>2, <1>3, PageInit, PTL DEF Spec

=============================================================================
