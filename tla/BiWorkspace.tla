---------------------------- MODULE BiWorkspace ----------------------------
(***************************************************************************)
(* The analytics workspace of the web client (components/bi/               *)
(* bi-workspace.tsx): slicers choose a filter; key figures come from calls *)
(* and from a stream, the data of a report page from calls; a layout that  *)
(* the user drags is saved after a pause.  Pages have one widget each.     *)
(***************************************************************************)
EXTENDS Integers, FiniteSets

CONSTANTS
  BiFilters,   \* settings of the slicers
  Unfiltered,  \* the setting they begin with
  ReportPages, \* dashboards of the tenant
  Executive,   \* EXECUTIVE_PAGE_ID
  MaxChanges,  \* bound on what the user changes, and on the layouts of a page
  BiFaults     \* bound on failing calls

ASSUME BiAssumption ==
  /\ Unfiltered \in BiFilters /\ Executive \notin ReportPages
  /\ MaxChanges \in Nat /\ BiFaults \in Nat

VARIABLES
  biOpen,      \* whether the workspace is mounted
  biPage, biFilter, live,
  kpis,        \* the filter of the key figures shown
  kpiCalls,    \* filters of the getKpis that are under way
  streams,     \* metrics streams: filter, on (not aborted)
  shown,       \* the filter of the data that each page's widget shows
  widgetCalls, \* runs of the effect that loads a page's data: page, filter, cancelled
  editCalls,   \* loads that end an edit of a widget: page, filter
  biLayout,    \* the last layout that the user gave each page, counted (the screen goes
               \* back to the saved one when the dashboards are loaded again)
  biSaved,     \* the layout of each page in the database
  saveTimer,   \* layoutSaveTimer: no save, or the one to come
  saveCalls,   \* updateDashboard under way: page, layout
  lost,        \* pages whose widget or layout a known race or failure spoilt (not stored)
  biChanges, biFaults

kpiVars == <<live, kpis, kpiCalls, streams>>
widgetVars == <<shown, widgetCalls, editCalls>>
layoutVars == <<biLayout, biSaved, saveTimer, saveCalls>>
biBounds == <<biChanges, biFaults>>
biVars == <<biOpen, biPage, biFilter, kpiVars, widgetVars, layoutVars, lost, biBounds>>

NoFilter == "no filter"
AllPages == ReportPages \cup {Executive}

BiInit ==
  /\ biOpen = FALSE /\ biPage = Executive /\ biFilter = Unfiltered /\ live = TRUE
  /\ kpis = NoFilter /\ kpiCalls = {} /\ streams = {}
  /\ shown = [p \in ReportPages |-> NoFilter] /\ widgetCalls = {} /\ editCalls = {}
  /\ biLayout = [p \in ReportPages |-> 0] /\ biSaved = [p \in ReportPages |-> 0]
  /\ saveTimer = {} /\ saveCalls = {}
  /\ lost = {} /\ biChanges = 0 /\ biFaults = 0

Change == biOpen /\ biChanges < MaxChanges /\ biChanges' = biChanges + 1 /\ UNCHANGED biFaults
Fault == biFaults < BiFaults /\ biFaults' = biFaults + 1 /\ UNCHANGED biChanges

-----------------------------------------------------------------------------
(* What React runs again when its dependencies change                      *)

Subscribe(f, on) ==
  streams' = {[s EXCEPT !.on = FALSE] : s \in streams}
             \cup (IF on THEN {[filter |-> f, on |-> TRUE]} ELSE {})

LoadWidgets(p, f) ==
  widgetCalls' = {[c EXCEPT !.cancelled = TRUE] : c \in widgetCalls} \cup
    (IF p = Executive THEN {} ELSE {[page |-> p, filter |-> f, cancelled |-> FALSE]})

Open ==
  /\ ~biOpen
  /\ biOpen' = TRUE
  /\ kpiCalls' = {biFilter}
  /\ Subscribe(biFilter, live)
  /\ UNCHANGED <<biPage, biFilter, live, kpis, widgetVars, layoutVars, lost, biBounds>>

SetSlicers(f) ==
  /\ Change /\ f # biFilter
  /\ biFilter' = f
  /\ kpiCalls' = kpiCalls \cup {f}
  /\ Subscribe(f, live)
  /\ LoadWidgets(biPage, f)
  /\ UNCHANGED <<biOpen, biPage, live, kpis, shown, editCalls, layoutVars, lost>>

SetLive ==
  /\ Change
  /\ live' = ~live
  /\ Subscribe(biFilter, live')
  /\ UNCHANGED <<biOpen, biPage, biFilter, kpis, kpiCalls, widgetVars, layoutVars, lost>>

SetActivePage(p) ==
  /\ Change /\ p # biPage
  /\ biPage' = p
  /\ LoadWidgets(p, biFilter)
  /\ UNCHANGED <<biOpen, biFilter, kpiVars, shown, editCalls, layoutVars, lost>>

-----------------------------------------------------------------------------
(* Key figures                                                             *)

\* A failed call leaves the figures as they are.
KpisAnswered(f) ==
  /\ f \in kpiCalls
  /\ kpiCalls' = kpiCalls \ {f}
  /\ \/ kpis' = f /\ UNCHANGED biBounds
     \/ Fault /\ UNCHANGED kpis
  /\ UNCHANGED <<biOpen, biPage, biFilter, live, streams, widgetVars, layoutVars, lost>>

\* The stream, which reconnects when it breaks, pushes every five seconds.  An
\* aborted one still hands over the chunk it waits for.
Pushes(s) ==
  /\ s \in streams
  /\ kpis' = s.filter
  /\ streams' = IF s.on THEN streams ELSE streams \ {s}
  /\ UNCHANGED <<biOpen, biPage, biFilter, live, kpiCalls, widgetVars, layoutVars, lost, biBounds>>

-----------------------------------------------------------------------------
(* Widgets                                                                 *)

\* getWidgetData, then getDataBySource, whose failure is ignored
WidgetAnswered(c) ==
  /\ c \in widgetCalls
  /\ widgetCalls' = widgetCalls \ {c}
  /\ \/ /\ shown' = IF c.cancelled THEN shown ELSE [shown EXCEPT ![c.page] = c.filter]
        /\ lost' = IF c.cancelled THEN lost ELSE lost \ {<<"widget", c.page>>}
        /\ UNCHANGED biBounds
     \/ /\ Fault
        /\ lost' = IF c.cancelled THEN lost ELSE lost \cup {<<"widget", c.page>>}
        /\ UNCHANGED shown
  /\ UNCHANGED <<biOpen, biPage, biFilter, kpiVars, editCalls, layoutVars>>

\* updateSelectedWidget up to the data it loads: the updated dashboard is a new
\* one to the effect, and the filter is that of the click.  A failed step before
\* that ends it.
UpdateSelectedWidget ==
  /\ Change /\ biPage # Executive
  /\ editCalls' = editCalls \cup {[page |-> biPage, filter |-> biFilter]}
  /\ LoadWidgets(biPage, biFilter)
  /\ UNCHANGED <<biOpen, biPage, biFilter, kpiVars, shown, layoutVars, lost>>

EditAnswered(c) ==
  /\ c \in editCalls
  /\ editCalls' = editCalls \ {c}
  /\ shown' = [shown EXCEPT ![c.page] = c.filter]
  /\ lost' = IF c.filter = biFilter THEN lost ELSE lost \cup {<<"widget", c.page>>}
  /\ UNCHANGED <<biOpen, biPage, biFilter, kpiVars, widgetCalls, layoutVars, biBounds>>

-----------------------------------------------------------------------------
(* Layout                                                                  *)

\* The save to come is kept and the new layout left to it.
KeepTimer(save) == saveTimer' = IF saveTimer = {} THEN {save} ELSE saveTimer

\* One timer serves all pages.
RestartTimer(save) == saveTimer' = {save}

\* handleLayoutChange: the page with its new layout is a new one to the effect.
LayoutChange ==
  /\ Change /\ biPage # Executive
  /\ biLayout' = [biLayout EXCEPT ![biPage] = @ + 1]
  /\ RestartTimer([page |-> biPage, layout |-> biLayout[biPage] + 1])
  /\ lost' = lost \cup {<<"layout", s.page>> : s \in {t \in saveTimer : t.page # biPage}}
  /\ LoadWidgets(biPage, biFilter)
  /\ UNCHANGED <<biOpen, biPage, biFilter, kpiVars, shown, editCalls, biSaved, saveCalls>>

\* LAYOUT_SAVE_DEBOUNCE_MS have passed.
TimerFires ==
  /\ saveTimer # {}
  /\ saveTimer' = {} /\ saveCalls' = saveCalls \cup saveTimer
  /\ lost' = lost \cup {<<"layout", c.page>> :
                          c \in {d \in saveCalls : \E s \in saveTimer : s.page = d.page}}
  /\ UNCHANGED <<biOpen, biPage, biFilter, kpiVars, widgetVars, biLayout, biSaved, biBounds>>

\* The save's failure is ignored.
SaveAnswered(c) ==
  /\ c \in saveCalls
  /\ saveCalls' = saveCalls \ {c}
  /\ \/ biSaved' = [biSaved EXCEPT ![c.page] = c.layout] /\ UNCHANGED <<biBounds, lost>>
     \/ Fault /\ lost' = lost \cup {<<"layout", c.page>>} /\ UNCHANGED biSaved
  /\ UNCHANGED <<biOpen, biPage, biFilter, kpiVars, widgetVars, biLayout, saveTimer>>

-----------------------------------------------------------------------------
Replies ==
  \/ \E f \in kpiCalls : KpisAnswered(f)
  \/ \E c \in widgetCalls : WidgetAnswered(c)
  \/ \E c \in editCalls : EditAnswered(c)
  \/ \E c \in saveCalls : SaveAnswered(c)

BiNext ==
  \/ Open \/ (\E f \in BiFilters : SetSlicers(f)) \/ SetLive
  \/ (\E p \in AllPages : SetActivePage(p))
  \/ UpdateSelectedWidget \/ LayoutChange \/ TimerFires
  \/ Replies
  \/ \E s \in streams : Pushes(s)

\* Calls are answered, and the server pushes as long as a stream is on.
BiFairness ==
  /\ WF_biVars(Replies) /\ WF_biVars(TimerFires)
  /\ \A f \in BiFilters : WF_biVars(Pushes([filter |-> f, on |-> TRUE]))

BiSpec == BiInit /\ [][BiNext]_biVars /\ BiFairness

-----------------------------------------------------------------------------
\* The effect's "cancelled": once no load is under way, the page shows data of the
\* filter that is set, whatever was chosen while loads were under way; unless the
\* load failed or the edit of a widget ended with data of an earlier filter.
WidgetsShowFilter ==
  biPage \in ReportPages /\ <<"widget", biPage>> \notin lost
    /\ (\A c \in widgetCalls : c.page # biPage \/ c.cancelled)
    => shown[biPage] = biFilter

\* handleLayoutChange: when no save is due or under way, the database has the last
\* layout of every page; unless another page was dragged before the timer fired,
\* a save failed or two saves of a page overlapped.
DraggedLayoutIsSaved ==
  saveTimer = {} /\ saveCalls = {} =>
    \A p \in ReportPages : <<"layout", p>> \notin lost => biSaved[p] = biLayout[p]

\* The workspace's loads and layout timer together: what it shows and saves is what
\* is set.
WorkspaceFollows == WidgetsShowFilter /\ DraggedLayoutIsSaved

\* getKpis' replies are not ordered and may show figures of an earlier filter, but
\* while the stream is live those of the filter that is set win in the end.
KpisCatchUp ==
  \A f \in BiFilters : <>[](biOpen /\ live /\ biFilter = f) => <>[](kpis = f)
=============================================================================
