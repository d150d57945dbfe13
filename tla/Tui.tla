--------------------------------- MODULE Tui ---------------------------------
(***************************************************************************)
(* The terminal client (crates/tui): the state machine of app.rs, the keys *)
(* of event.rs, the background requests of client.rs and the terminal      *)
(* modes of terminal.rs.                                                   *)
(*                                                                         *)
(* Every request runs in a task of its own, so answers arrive in any       *)
(* order; the channel they pass through keeps the order in which the tasks *)
(* end and is taken together with the task.  Nothing in an answer says     *)
(* which filter or transaction it was asked for: "query" in a loaded value *)
(* is kept here for the properties only.  prev_screen, tick and            *)
(* last_updated are written and drive nothing: they are left out.          *)
(***************************************************************************)
EXTENDS Integers, Sequences, FiniteSets, Bags

\* A definition named BugX is X with a plausible mistake, and used nowhere.

CONSTANTS
  Hashes,      \* transaction hashes
  Categories,  \* CATEGORIES, in the order of the filter
  Windows,     \* TimeWindow, in the order of next(), All first
  Limit,       \* page size
  Databases,   \* what the API finds, one after the other: sequences of [hash, category, window]
  MaxRows,     \* longest of them
  All,         \* no category filter
  None,        \* no transaction selected, nothing asked
  MaxScroll,   \* u16::MAX
  MaxInflight, \* bound on requests under way
  MaxKeys,     \* keys the user presses before leaving the program alone
  MaxErrors    \* bound on requests, draws and terminal calls that fail

ASSUME TuiAssumption ==
  /\ Categories \in Seq(STRING) /\ Windows \in Seq(STRING)
  /\ Categories # <<>> /\ Windows # <<>>
  /\ Limit \in Nat \ {0}
  /\ Databases \in Seq(Seq([hash : Hashes, category : STRING, window : STRING])) /\ Databases # <<>>
  /\ \A i \in DOMAIN Databases : Len(Databases[i]) <= MaxRows
  /\ MaxRows \in Nat /\ MaxScroll \in Nat /\ MaxInflight \in Nat /\ MaxKeys \in Nat /\ MaxErrors \in Nat
  /\ None \notin Hashes
  /\ \A i \in DOMAIN Categories : Categories[i] # All

VARIABLES
  proc,      \* main: "start", "run", "restore", "ended"
  modes,     \* terminal modes that are on
  app,       \* App: where the user is
  shown,     \* App: latest_block, analysis, failed, detail, clusters
  inflight,  \* App: the requests under way, as the spinner counts them
  sent,      \* how many requests of each form are under way
  changes,   \* how often the database has changed
  keys, errors,  \* how much of each bound is used
  broken     \* a terminal call failed

net == <<shown, inflight, sent>>
env == <<changes, keys, errors, broken>>
vars == <<proc, modes, app, net, env>>

-----------------------------------------------------------------------------

SCREEN_ORDER == <<"Overview", "FailedTx", "Detail", "Clusters">>
Screens == {SCREEN_ORDER[i] : i \in DOMAIN SCREEN_ORDER}

Kinds == {"latest", "analysis", "list", "detail", "clusters"}

CategoryFilters == {All} \cup {Categories[i] : i \in DOMAIN Categories}
Offsets == {n * Limit : n \in 0 .. MaxRows} \cap 0 .. MaxRows
Filters == [category : CategoryFilters, window : {Windows[i] : i \in DOMAIN Windows}, offset : Offsets]

Ask(k, q) == [kind |-> k, query |-> q]
Requests ==
  {Ask("list", f) : f \in Filters} \cup {Ask("detail", h) : h \in Hashes}
    \cup {Ask(k, None) : k \in {"latest", "analysis", "clusters"}}

\* Loadable
Idle == [st |-> "Idle", val |-> None]
Loading == [st |-> "Loading", val |-> None]
Loaded(v) == [st |-> "Loaded", val |-> v]
Failed == [st |-> "Failed", val |-> None]

\* begin: loaded data stays on the screen while it is fetched again.
begin(l) == IF l.st = "Loaded" THEN l ELSE Loading

Rows(l) == IF l.st = "Loaded" THEN Len(l.val.rows) ELSE 0

\* App::new; selected, cluster: table_state, cluster_state, 1-based, 0 for none.
NewApp ==
  [screen |-> "Overview", show_help |-> FALSE, auto_poll |-> TRUE, should_quit |-> FALSE,
   filter |-> [category |-> All, window |-> Windows[1], offset |-> 0],
   selected |-> 0, cluster |-> 0, detail_scroll |-> 0, hash |-> None]
NothingShown == [k \in Kinds |-> Idle]

\* run returns: the application and its tasks are gone.
Dropped == app' = NewApp /\ shown' = NothingShown /\ inflight' = 0 /\ sent' = EmptyBag

-----------------------------------------------------------------------------
(* The API, as far as the client can tell *)

Position(s, x) == CHOOSE i \in DOMAIN s : s[i] = x

\* the rows of failed_transaction, newest first
db == Databases[changes + 1]

InFilter(row, f) ==
  /\ f.category = All \/ row.category = f.category
  /\ f.window = Windows[1] \/ row.window = f.window

\* The positions in db of the rows of a filter.
Matching(f) == {i \in DOMAIN db : InFilter(db[i], f)}

Lower(a, b) == IF a < b THEN a ELSE b

\* The n-th position of a set of positions.
Nth(S, n) == CHOOSE i \in S : Cardinality({j \in S : j < i}) = n - 1

\* OFFSET skip LIMIT max: the hashes of the rows at the positions S.
Page(S, skip, max) ==
  LET left == Cardinality(S) - skip
  IN  [i \in 1 .. (IF left < 0 THEN 0 ELSE Lower(left, max)) |-> db[Nth(S, skip + i)].hash]

\* GET /v1/failed-tx: a page and the total
ListPage(f) ==
  [query |-> f, rows |-> Page(Matching(f), f.offset, Limit), total |-> Cardinality(Matching(f))]

Unclassified == {i \in DOMAIN db : db[i].category = "UNKNOWN"}

\* What a request finds; a transaction that is gone is a 404.
Answer(r) ==
  CASE r.kind = "list" -> Loaded(ListPage(r.query))
    [] r.kind = "detail" ->
         IF \E i \in DOMAIN db : db[i].hash = r.query
           THEN Loaded([query |-> r.query, rows |-> <<>>, total |-> 0]) ELSE Failed
    [] r.kind = "clusters" ->
         Loaded([query |-> None, rows |-> Page(Unclassified, 0, MaxRows), total |-> 0])
    [] OTHER -> Loaded([query |-> None, rows |-> <<>>, total |-> 0])

-----------------------------------------------------------------------------
(* spawn_fetch_active *)

\* The requests a screen needs.
BugNeeds(scr, f, h) ==
  CASE scr = "Overview" -> {Ask("latest", None), Ask("analysis", None)}
    [] scr = "FailedTx" -> {Ask("list", [f EXCEPT !.offset = 0])}
    [] scr = "Detail" -> IF h = None THEN {} ELSE {Ask("detail", h)}
    [] scr = "Clusters" -> {Ask("clusters", None)}
Needs(scr, f, h) ==
  CASE scr = "Overview" -> {Ask("latest", None), Ask("analysis", None)}
    [] scr = "FailedTx" -> {Ask("list", f)}
    [] scr = "Detail" -> IF h = None THEN {} ELSE {Ask("detail", h)}
    [] scr = "Clusters" -> {Ask("clusters", None)}

\* The values a screen marks as loading.
BugMarks(scr, h) ==
  CASE scr = "Overview" -> {"latest", "analysis"}
    [] scr = "FailedTx" -> {"list"}
    [] scr = "Detail" -> {"detail"}
    [] scr = "Clusters" -> {"clusters"}
Marks(scr, h) ==
  CASE scr = "Overview" -> {"latest", "analysis"}
    [] scr = "FailedTx" -> {"list"}
    [] scr = "Detail" -> IF h = None THEN {} ELSE {"detail"}
    [] scr = "Clusters" -> {"clusters"}

\* How far inflight is raised.
BugRaise(scr, h) == IF scr = "Detail" /\ h = None THEN 0 ELSE 1
Raise(scr, h) == IF scr = "Overview" THEN 2 ELSE IF scr = "Detail" /\ h = None THEN 0 ELSE 1

Fetch(scr, f, h) ==
  /\ inflight + Raise(scr, h) <= MaxInflight
  /\ shown' = [k \in Kinds |-> IF k \in Marks(scr, h) THEN begin(shown[k]) ELSE shown[k]]
  /\ inflight' = inflight + Raise(scr, h)
  /\ sent' = sent (+) SetToBag(Needs(scr, f, h))

-----------------------------------------------------------------------------
(* apply *)

Quit == app' = [app EXCEPT !.should_quit = TRUE] /\ UNCHANGED net

ToggleHelp == app' = [app EXCEPT !.show_help = ~@] /\ UNCHANGED net

ToggleAutoPoll == app' = [app EXCEPT !.auto_poll = ~@] /\ UNCHANGED net

\* The application moves to state a and fetches what its screen needs.
MoveAndFetch(a) == app' = a /\ Fetch(a.screen, a.filter, a.hash)

spawn_fetch_active == MoveAndFetch(app)

Nothing == UNCHANGED <<app, net>>

goto_screen(s) ==
  IF app.screen = s THEN Nothing ELSE MoveAndFetch([app EXCEPT !.screen = s])

cycle_screen(dir) ==
  goto_screen(SCREEN_ORDER[((Position(SCREEN_ORDER, app.screen) - 1 + dir) % Len(SCREEN_ORDER)) + 1])

\* on_enter: the row under the cursor, if there is one.
on_enter ==
  IF app.screen = "FailedTx" /\ app.selected \in 1 .. Rows(shown["list"])
    THEN MoveAndFetch([app EXCEPT !.hash = shown["list"].val.rows[app.selected],
                                  !.detail_scroll = 0, !.screen = "Detail"])
    ELSE Nothing

on_back == IF app.screen = "Detail" THEN goto_screen("FailedTx") ELSE Nothing

\* move_selection and move_cluster_selection
Clamp(i, n) == IF i < 1 THEN 1 ELSE IF i > n THEN n ELSE i
Moved(cur, dir, n) == IF n = 0 THEN cur ELSE Clamp((IF cur = 0 THEN 1 ELSE cur) + dir, n)

\* saturating_add, saturating_sub
BugScrolled(pos, dir) == IF dir > 0 THEN Lower(pos + 1, MaxScroll) ELSE pos - 1
Scrolled(pos, dir) ==
  IF dir > 0 THEN Lower(pos + 1, MaxScroll) ELSE IF pos = 0 THEN 0 ELSE pos - 1

\* on_up, on_down
on_move(dir) ==
  /\ app' = CASE app.screen = "FailedTx" -> [app EXCEPT !.selected = Moved(@, dir, Rows(shown["list"]))]
              [] app.screen = "Clusters" -> [app EXCEPT !.cluster = Moved(@, dir, Rows(shown["clusters"]))]
              [] app.screen = "Detail" -> [app EXCEPT !.detail_scroll = Scrolled(@, dir)]
              [] OTHER -> app
  /\ UNCHANGED net

\* The filter keys work on the list only.
Refilter(f) == IF app.screen = "FailedTx" THEN MoveAndFetch([app EXCEPT !.filter = f]) ELSE Nothing

NextCategory(c) ==
  IF c = All THEN Categories[1]
  ELSE LET i == Position(Categories, c) IN IF i < Len(Categories) THEN Categories[i + 1] ELSE All

cycle_category == Refilter([app.filter EXCEPT !.category = NextCategory(@), !.offset = 0])

NextWindow(w) == Windows[(Position(Windows, w) % Len(Windows)) + 1]

cycle_window == Refilter([app.filter EXCEPT !.window = NextWindow(@), !.offset = 0])

\* next_page goes by the total of the list that is shown.
HasNext == shown["list"].st = "Loaded" /\ app.filter.offset + Limit < shown["list"].val.total
next_page == IF HasNext THEN Refilter([app.filter EXCEPT !.offset = @ + Limit]) ELSE Nothing

prev_page ==
  IF app.filter.offset > 0
    THEN Refilter([app.filter EXCEPT !.offset = IF @ > Limit THEN @ - Limit ELSE 0]) ELSE Nothing

apply(a) ==
  \/ a = "Quit" /\ Quit
  \/ a = "ToggleHelp" /\ ToggleHelp
  \/ a = "ToggleAutoPoll" /\ ToggleAutoPoll
  \/ a = "RefreshNow" /\ spawn_fetch_active
  \/ a = "NextTab" /\ cycle_screen(1)
  \/ a = "PrevTab" /\ cycle_screen(-1)
  \/ a \in Screens /\ goto_screen(a)
  \/ a = "Up" /\ on_move(-1)
  \/ a = "Down" /\ on_move(1)
  \/ a = "Enter" /\ on_enter
  \/ a = "Back" /\ on_back
  \/ a = "CycleCategory" /\ cycle_category
  \/ a = "CycleWindow" /\ cycle_window
  \/ a = "NextPage" /\ next_page
  \/ a = "PrevPage" /\ prev_page

\* map_key without the overlay; a digit selects a screen.
KeyMap ==
  [q |-> "Quit", question |-> "ToggleHelp", r |-> "RefreshNow", p |-> "ToggleAutoPoll",
   tab |-> "NextTab", backtab |-> "PrevTab", d1 |-> "Overview", d2 |-> "FailedTx",
   d3 |-> "Detail", d4 |-> "Clusters", esc |-> "Back", enter |-> "Enter", down |-> "Down",
   up |-> "Up", c |-> "CycleCategory", t |-> "CycleWindow", n |-> "NextPage", b |-> "PrevPage"]

Keys == {"ctrl_c"} \cup DOMAIN KeyMap

map_key(k, help) ==
  IF k = "ctrl_c" THEN "Quit"
  ELSE IF help THEN IF k \in {"question", "esc", "q"} THEN "ToggleHelp" ELSE "None"
  ELSE KeyMap[k]

-----------------------------------------------------------------------------
(* run: one arm of the select at a time, after the check of should_quit *)

Running == proc = "run" /\ ~app.should_quit

\* A key that does nothing is not counted.
PressKey(k) ==
  /\ Running
  /\ keys < MaxKeys
  /\ keys' = keys + 1
  /\ apply(map_key(k, app.show_help))
  /\ <<app, net>>' # <<app, net>>
  /\ UNCHANGED <<proc, modes, changes, errors, broken>>

\* The stream of input events ends.
InputEnds ==
  /\ Running
  /\ Quit
  /\ UNCHANGED <<proc, modes, env>>

Tick ==
  /\ Running /\ app.auto_poll
  /\ spawn_fetch_active
  /\ UNCHANGED <<proc, modes, env>>

Clamped(cur, n) == IF n = 0 THEN 0 ELSE IF cur = 0 THEN 1 ELSE Lower(cur, n)

\* clamp_selection and clamp_cluster_selection
BugReselect(cur, l) == IF cur = 0 THEN Clamped(cur, Rows(l)) ELSE cur
Reselect(cur, l) == Clamped(cur, Rows(l))

\* The answer l to request r comes through the channel.
ingest(r, l) ==
  /\ Running /\ BagIn(r, sent)
  /\ shown' = [shown EXCEPT ![r.kind] = l]
  /\ app' = [app EXCEPT !.selected = IF r.kind = "list" THEN Reselect(@, l) ELSE @,
                        !.cluster = IF r.kind = "clusters" THEN Reselect(@, l) ELSE @]
  /\ inflight' = IF inflight = 0 THEN 0 ELSE inflight - 1
  /\ sent' = sent (-) SetToBag({r})
  /\ UNCHANGED <<proc, modes, changes, keys, broken>>

Respond(r) == ingest(r, Answer(r)) /\ UNCHANGED errors

\* No connection, the timeout, another status, or a body that does not parse.
RequestFails(r) ==
  /\ errors < MaxErrors
  /\ errors' = errors + 1
  /\ ingest(r, Failed)

-----------------------------------------------------------------------------
(* main, terminal.rs *)

\* setup, then the first fetch of run.
Setup ==
  /\ proc = "start"
  /\ proc' = "run"
  /\ modes' = {"raw", "alt"}
  /\ spawn_fetch_active
  /\ UNCHANGED env

\* A call of setup fails: what was switched on before it stays on.
SetupFails ==
  /\ proc = "start"
  /\ errors < MaxErrors
  /\ errors' = errors + 1
  /\ proc' = "ended"
  /\ broken' = TRUE
  /\ modes' \in {{}, {"raw"}, {"raw", "alt"}}
  /\ UNCHANGED <<app, net, changes, keys>>

\* The loop ends because of should_quit ...
LoopEnds ==
  /\ proc = "run" /\ app.should_quit
  /\ proc' = "restore"
  /\ Dropped
  /\ UNCHANGED <<modes, env>>

\* ... or because draw returns an error.
DrawFails ==
  /\ proc = "run"
  /\ errors < MaxErrors
  /\ errors' = errors + 1
  /\ proc' = "restore"
  /\ Dropped
  /\ UNCHANGED <<modes, changes, keys, broken>>

\* disable_raw_mode, LeaveAlternateScreen: in restore and in the panic hook.
BugRestored(m) == m \ {"raw"}
Restored(m) == m \ {"raw", "alt"}

Restore ==
  /\ proc = "restore"
  /\ proc' = "ended"
  /\ modes' = Restored(modes)
  /\ UNCHANGED <<app, net, env>>

\* disable_raw_mode fails first, or leaving the alternate screen does.
RestoreFails ==
  /\ proc = "restore"
  /\ errors < MaxErrors
  /\ errors' = errors + 1
  /\ proc' = "ended"
  /\ broken' = TRUE
  /\ modes' \in {modes, modes \ {"raw"}, {}}
  /\ UNCHANGED <<app, net, changes, keys>>

\* A panic of the loop: the hook restores, best effort, and main unwinds.
Panics ==
  /\ proc = "run"
  /\ errors < MaxErrors
  /\ errors' = errors + 1
  /\ proc' = "ended"
  /\ modes' = Restored(modes)
  /\ Dropped
  /\ UNCHANGED <<changes, keys, broken>>

\* The indexer adds or takes back failed transactions.
DatabaseChanges ==
  /\ changes + 1 < Len(Databases)
  /\ changes' = changes + 1
  /\ UNCHANGED <<proc, modes, app, net, keys, errors, broken>>

-----------------------------------------------------------------------------

Init ==
  /\ proc = "start"
  /\ modes = {}
  /\ app = NewApp
  /\ shown = NothingShown
  /\ inflight = 0
  /\ sent = EmptyBag
  /\ keys = 0
  /\ errors = 0
  /\ changes = 0
  /\ broken = FALSE

Next ==
  \/ Setup \/ SetupFails
  \/ \E k \in Keys : PressKey(k)
  \/ InputEnds
  \/ Tick
  \/ \E r \in Requests : Respond(r) \/ RequestFails(r)
  \/ LoopEnds \/ DrawFails \/ Restore \/ RestoreFails \/ Panics
  \/ DatabaseChanges

Spec == Init /\ [][Next]_vars

\* The loop runs, its interval fires, and every request comes back or times
\* out; nothing makes the user press a key.
FairSpec ==
  /\ Spec
  /\ WF_vars(Setup)
  /\ WF_vars(Tick)
  /\ WF_vars(LoopEnds)
  /\ WF_vars(Restore \/ RestoreFails)
  /\ \A r \in Requests : WF_vars(Respond(r) \/ RequestFails(r))

-----------------------------------------------------------------------------
(* Properties *)

\* Types of the state of the application, its requests and the terminal.
TypeOK ==
  /\ proc \in {"start", "run", "restore", "ended"}
  /\ modes \subseteq {"raw", "alt"}
  /\ app \in [screen : Screens, show_help : BOOLEAN, auto_poll : BOOLEAN, should_quit : BOOLEAN,
              filter : Filters, selected : 0 .. Limit, cluster : 0 .. MaxRows,
              detail_scroll : 0 .. MaxScroll, hash : Hashes \cup {None}]
  /\ DOMAIN shown = Kinds
  /\ \A k \in Kinds : shown[k].st \in {"Idle", "Loading", "Loaded", "Failed"}
  /\ inflight \in 0 .. MaxInflight
  /\ DOMAIN sent \subseteq Requests

\* Every request under way, told apart from others of its form by a number.
UnderWay(b) == UNION {{r} \X (1 .. b[r]) : r \in DOMAIN b}

\* The spinner counts exactly the requests under way.
InflightExact == inflight = Cardinality(UnderWay(sent))

\* No value is left loading with nothing under way that would settle it.
LoadingIsBacked ==
  \A k \in Kinds : shown[k].st = "Loading" =>
    \E r \in DOMAIN sent : r.kind = k

\* The cursor is on a row of the list that is shown, and on none only when
\* no rows are shown, whichever answer came last.
CursorOnRow ==
  /\ (app.selected = 0) = (Rows(shown["list"]) = 0) /\ app.selected <= Rows(shown["list"])
  /\ (app.cluster = 0) = (Rows(shown["clusters"]) = 0) /\ app.cluster <= Rows(shown["clusters"])

\* The terminal is as it was once the process has ended, after a quit, a
\* drawing error and a panic alike, unless a terminal call itself failed.
TerminalRestored == proc = "ended" => modes = {} \/ broken

\* What each screen is about.
Wanted ==
  {<<"Overview", "latest", None>>, <<"Overview", "analysis", None>>,
   <<"FailedTx", "list", app.filter>>, <<"Clusters", "clusters", None>>}
    \cup {<<"Detail", "detail", h>> : h \in {app.hash} \ {None}}

\* With the user gone and polling on, the screen comes to show what the API
\* has for the current filter or transaction, and keeps showing it: answers
\* to earlier questions do not win in the end.  A failure gives way to the
\* loading banner while it is asked again.
FreshInTheEnd ==
  <>[](Running /\ keys = MaxKeys /\ app.auto_poll =>
         \A w \in Wanted : app.screen = w[1] => LET r == Ask(w[2], w[3]) IN
           \/ shown[r.kind] = Answer(r)
           \/ Answer(r) = Failed /\ shown[r.kind] = Loading)
=============================================================================
