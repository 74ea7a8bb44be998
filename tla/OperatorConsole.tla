--------------------------- MODULE OperatorConsole ---------------------------
(***************************************************************************)
(* The terminal UI over the log ring (internal/tui/model.go, logs.go,      *)
(* stats.go, layout.go).  Its Update handles one message at a time on a    *)
(* goroutine of its own, while requests add entries to the ring and        *)
(* reloads resize it.  The model holds a snapshot of the ring, the rows of *)
(* the tables made from it, and the columns that the rows must fit; the    *)
(* clock is a message that each of its deliveries must ask for again.      *)
(***************************************************************************)
EXTENDS LogRing, SequencesExt

CONSTANTS
  Entry,  \* Entry[n]: client, level, status and subject of the n-th log entry
  Sizes   \* the sizes a terminal is given: width and height

ASSUME EntryAssumption ==
  /\ MaxAdded \in Nat
  /\ \A n \in 1 .. MaxAdded : n \in DOMAIN Entry /\ Entry[n].status \in Int

VARIABLES
  active,       \* Model.active
  filter,       \* Model.filter
  paused,       \* Model.paused
  showHelp,     \* Model.showHelp
  size,         \* Model.width and Model.height
  logs,         \* Model.logs, the snapshot
  visibleLogs,  \* Model.visibleLogs, and the rows of logTable
  rowsFor,      \* rowsFor[t]: the content width that t's rows were made for
  columnsFor,   \* the content width that all tables' columns were made for
  helpFor,      \* the section that the help text was written for
  clock         \* the outstanding tick

screen == <<visibleLogs, rowsFor, columnsFor, helpFor>>
console == <<active, filter, paused, showHelp, size, logs, screen, clock>>
consoleVars == <<ringVars, console>>

Sections == 0..4
TabOverview == 0
TabRequests == 1
NoTab == -1
Filters == {"all", "warnings", "errors", "auth"}
Tables == {"log", "provider", "client"}

-----------------------------------------------------------------------------
\* calculateLayout, as far as the tables depend on it.
Tiny(s) == s.width < 54 \/ s.height < 14

WorkspaceWidth(s) ==
  IF ~Tiny(s) /\ s.width >= 118 THEN Max({48, s.width - 20 - 1}) ELSE Max({1, s.width})

ContentWidth(s) == Max({24, WorkspaceWidth(s) - 4})

\* The number of cells in a row, and of columns, by the width they begin at.
LogRow == 118 :> 9 @@ 88 :> 6 @@ 68 :> 5 @@ 0 :> 3
LogColumns == 118 :> 9 @@ 88 :> 6 @@ 68 :> 5 @@ 0 :> 3
ProviderRow == 112 :> 9 @@ 82 :> 7 @@ 0 :> 4
ProviderColumns == 112 :> 9 @@ 82 :> 7 @@ 0 :> 4
ClientRow == 102 :> 7 @@ 76 :> 5 @@ 0 :> 3
ClientColumns == 102 :> 7 @@ 76 :> 5 @@ 0 :> 3

RowCells == [log |-> LogRow, provider |-> ProviderRow, client |-> ClientRow]
ColumnCells == [log |-> LogColumns, provider |-> ProviderColumns, client |-> ClientColumns]

CellsAt(cells, width) == cells[Max({w \in DOMAIN cells : w <= width})]

\* Mutant of Matches: a server error begins above 500.
MatchesAbove500(f, e) ==
  CASE f = "all"      -> TRUE
    [] f = "warnings" -> e.level = "warn" \/ (e.status >= 400 /\ e.status < 500)
    [] f = "errors"   -> e.status > 500
    [] f = "auth"     -> e.auth \/ e.status = 401 \/ e.client = "anonymous"

\* filterLog.
Matches(f, e) ==
  CASE f = "all"      -> TRUE
    [] f = "warnings" -> e.level = "warn" \/ (e.status >= 400 /\ e.status < 500)
    [] f = "errors"   -> e.level = "error" \/ e.status >= 500
    [] f = "auth"     -> e.auth \/ e.status = 401 \/ e.client = "anonymous"

\* updateLogRows: newest first.
Shown(log, f) ==
  LET rows[i \in 0 .. Len(log)] ==
        IF i = 0 THEN <<>>
        ELSE LET n == log[Len(log) + 1 - i]
             IN  IF Matches(f, Entry[n]) THEN Append(rows[i - 1], n) ELSE rows[i - 1]
  IN  rows[Len(log)]

RowsAt(s) == [t \in Tables |-> ContentWidth(s)]

-----------------------------------------------------------------------------
\* New: a refresh and a resize before the first message.
ConsoleInit ==
  /\ RingInit
  /\ active = TabOverview
  /\ filter = "all"
  /\ paused = FALSE
  /\ showHelp = FALSE
  /\ size = [width |-> 100, height |-> 30]
  /\ logs = entries
  /\ visibleLogs = Shown(logs, filter)
  /\ rowsFor = RowsAt(size)
  /\ columnsFor = ContentWidth(size)
  /\ helpFor = NoTab
  /\ clock = "sleeping"

\* refresh.  The help text is written only if there is room for it.
Refresh ==
  /\ logs' = entries
  /\ visibleLogs' = Shown(entries, filter)
  /\ rowsFor' = RowsAt(size)
  /\ helpFor' = IF showHelp /\ ~Tiny(size) THEN active ELSE helpFor
  /\ UNCHANGED <<active, filter, paused, showHelp, size, columnsFor>>

\* Mutant of WindowSize: the rows wait for the next refresh.
WindowSizeWithoutRows(s) ==
  /\ size' = s
  /\ columnsFor' = IF Tiny(s) THEN columnsFor ELSE ContentWidth(s)
  /\ helpFor' = IF showHelp /\ ~Tiny(s) THEN active ELSE helpFor
  /\ UNCHANGED <<active, filter, paused, showHelp, logs, visibleLogs, rowsFor, clock>>

\* resize: a tiny terminal shows a notice, and everything else stays as it was.  A table
\* has its new columns before its new rows (model.go:286-305), but only the table
\* library sees it in between.
WindowSize(s) ==
  /\ size' = s
  /\ IF Tiny(s)
     THEN UNCHANGED screen
     ELSE /\ columnsFor' = ContentWidth(s)
          /\ rowsFor' = RowsAt(s)
          /\ visibleLogs' = Shown(logs, filter)
          /\ helpFor' = IF showHelp THEN active ELSE helpFor
  /\ UNCHANGED <<active, filter, paused, showHelp, logs, clock>>

OpenHelp ==
  /\ ~showHelp
  /\ showHelp' = TRUE
  /\ helpFor' = IF Tiny(size) THEN helpFor ELSE active
  /\ UNCHANGED <<active, filter, paused, size, logs, visibleLogs, rowsFor, columnsFor,
                 clock>>

\* While the help is open it takes every other key.
CloseHelp ==
  /\ showHelp
  /\ showHelp' = FALSE
  /\ UNCHANGED <<active, filter, paused, size, logs, screen, clock>>

RefreshKey ==
  /\ ~showHelp
  /\ Refresh
  /\ UNCHANGED clock

PauseKey ==
  /\ ~showHelp
  /\ paused' = ~paused
  /\ UNCHANGED <<active, filter, showHelp, size, logs, screen, clock>>

\* setActive.
SetActive(next) ==
  /\ ~showHelp
  /\ next \in Sections
  /\ active' = next
  /\ showHelp' = FALSE
  /\ UNCHANGED <<filter, paused, size, logs, screen, clock>>

NextTab == SetActive((active + 1) % Cardinality(Sections))
PrevTab == SetActive((active - 1 + Cardinality(Sections)) % Cardinality(Sections))
Back == active # TabOverview /\ SetActive(TabOverview)
Jump == \E section \in Sections : SetActive(section)

\* Mutant of FilterKey: the rows wait for the next refresh.
FilterKeyWithoutRows(f) ==
  /\ ~showHelp /\ active = TabRequests
  /\ filter' = f
  /\ UNCHANGED <<active, paused, showHelp, size, logs, screen, clock>>

\* The filters are keys of the Requests section only.
FilterKey(f) ==
  /\ ~showHelp /\ active = TabRequests
  /\ filter' = f
  /\ visibleLogs' = Shown(logs, f)
  /\ rowsFor' = [rowsFor EXCEPT !["log"] = ContentWidth(size)]
  /\ UNCHANGED <<active, paused, showHelp, size, logs, columnsFor, helpFor, clock>>

-----------------------------------------------------------------------------
\* tick: a command that sleeps for a second and delivers one message.
SecondPasses ==
  /\ clock = "sleeping"
  /\ clock' = "due"
  /\ UNCHANGED <<active, filter, paused, showHelp, size, logs, screen>>

\* Mutant of Tick: a paused console stops its clock.
TickUnlessPaused ==
  /\ clock = "due"
  /\ IF paused
     THEN UNCHANGED <<active, filter, paused, showHelp, size, logs, screen>>
     ELSE Refresh
  /\ clock' = IF paused THEN "stopped" ELSE "sleeping"

\* A paused console goes on ticking, without a refresh.
Tick ==
  /\ clock = "due"
  /\ IF paused
     THEN UNCHANGED <<active, filter, paused, showHelp, size, logs, screen>>
     ELSE Refresh
  /\ clock' = "sleeping"

Key ==
  \/ OpenHelp \/ CloseHelp \/ RefreshKey \/ PauseKey
  \/ NextTab \/ PrevTab \/ Back \/ Jump
  \/ \E f \in Filters : FilterKey(f)

Update == Key \/ Tick \/ SecondPasses \/ \E s \in Sizes : WindowSize(s)

ConsoleNext ==
  \/ Update /\ UNCHANGED ringVars
  \/ RingNext /\ UNCHANGED console

\* The UI's goroutine takes its messages, and a second passes.
ConsoleSpec ==
  /\ ConsoleInit /\ [][ConsoleNext]_consoleVars
  /\ WF_consoleVars(SecondPasses /\ UNCHANGED ringVars)
  /\ WF_consoleVars(Tick /\ UNCHANGED ringVars)

-----------------------------------------------------------------------------
\* summarize: one pass over the snapshot, by class of status and by client.
Clients == {Entry[n].client : n \in DOMAIN Entry}

Nothing ==
  [requests |-> 0, twoXX |-> 0, fourXX |-> 0, fiveXX |-> 0,
   clients |-> [c \in Clients |-> [requests |-> 0, errors |-> 0]]]

OneIf(condition) == IF condition THEN 1 ELSE 0

\* An entry without a status is a message and no request.
CountEntry(stats, e) ==
  IF e.status = 0 THEN stats ELSE
  [requests |-> stats.requests + 1,
   twoXX  |-> stats.twoXX + OneIf(e.status >= 200 /\ e.status < 300),
   fourXX |-> stats.fourXX + OneIf(e.status >= 400 /\ e.status < 500),
   fiveXX |-> stats.fiveXX + OneIf(e.status >= 500),
   clients |-> [stats.clients EXCEPT
                  ![e.client] = [requests |-> @.requests + 1,
                                 errors |-> @.errors + OneIf(e.status >= 400)]]]

Summarize(log) ==
  LET stats[i \in 0 .. Len(log)] ==
        IF i = 0 THEN Nothing ELSE CountEntry(stats[i - 1], Entry[log[i]])
  IN  stats[Len(log)]

-----------------------------------------------------------------------------
\* Whatever was refreshed, filtered or resized in which order, the Requests section
\* lists the snapshot's entries that pass the selected filter, newest first, and the
\* snapshot is a run of consecutive entries (model.go:233-274, logs.go:12-26).
ListsTheSnapshot ==
  /\ \A i \in 1 .. Len(logs) - 1 : logs[i + 1] = logs[i] + 1
  /\ \A i \in 1 .. Len(visibleLogs) - 1 : visibleLogs[i] > visibleLogs[i + 1]
  /\ Range(visibleLogs) = {n \in Range(logs) : Matches(filter, Entry[n])}

\* Rows are made by refreshes and filters too, columns only by a resize that is not
\* cut short for a tiny terminal, and help can be opened where there is no room for
\* its text: whenever the terminal has room again, each row has a cell for every
\* column, and the help that is shown is the active section's (model.go:276-317,
\* logs.go:28-66, 127-166, help_view.go:8-13).
FitsTheScreen ==
  ~Tiny(size) =>
    /\ \A t \in Tables :
         CellsAt(RowCells[t], rowsFor[t]) = CellsAt(ColumnCells[t], columnsFor)
    /\ showHelp => helpFor = active

\* A console that is not paused catches up with the ring, also after it was paused,
\* resized or showed its help (model.go:191-195, 455-460).
CatchesUp == ~paused ~> logs = entries \/ paused

\* Overview, Clients and Requests count the same snapshot in three ways: each total
\* and each client's share is the number of its entries, and a filter lists every
\* entry of its class (stats.go:40-118, model.go:263-274).
SectionsAgree ==
  LET stats == Summarize(logs)
      Asked == {n \in Range(logs) : Entry[n].status # 0}
      Rejected == {n \in Asked : Entry[n].status \in 400..499}
      Broken == {n \in Asked : Entry[n].status >= 500}
      Of(c) == {n \in Asked : Entry[n].client = c}
  IN  /\ stats.requests = Cardinality(Asked)
      /\ stats.fourXX = Cardinality(Rejected) /\ stats.fiveXX = Cardinality(Broken)
      /\ \A c \in Clients :
           /\ stats.clients[c].requests = Cardinality(Of(c))
           /\ stats.clients[c].errors = Cardinality(Of(c) \intersect (Rejected \union Broken))
      /\ filter = "all" => stats.requests <= Len(visibleLogs)
      /\ filter = "warnings" => stats.fourXX <= Len(visibleLogs)
      /\ filter = "errors" => stats.fiveXX <= Len(visibleLogs)
=============================================================================
