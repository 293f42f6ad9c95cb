------------------------------ MODULE ResultsViewer ------------------------------
(***************************************************************************)
(* app.ts: what the host sends (tool inputs, tool results, recorded        *)
(* sessions, context changes, teardown) and what the user clicks turn into *)
(* whole-view transitions. Host messages go through a serial queue with a  *)
(* generation; a session is verified by WebCrypto before it is queued; a   *)
(* click navigates at once, outside the queue. `of` is the number of the   *)
(* message a content came from.                                            *)
(***************************************************************************)
EXTENDS SurfaceMounts, Sequences

CONSTANTS
  MaxMessages, MaxRemounts, MaxClicks   \* bounds on what host and user do

ASSUME ViewerBounds == MaxMessages \in Nat /\ MaxRemounts \in Nat /\ MaxClicks \in Nat

VARIABLES
  resource,    \* the option the app is booted with
  sent,        \* messages the host has sent
  remounts,    \* context changes so far
  clicks,      \* clicks so far
  parsing,     \* sessions whose fingerprint is being computed
  generation,  \* of the transition coordinator
  queue,       \* its tasks; the head is running unless task = "idle"
  task,        \* where the head is
  router,      \* navigations asked for, in order; the head is under way
  at,          \* where the head of router is
  leaving,     \* the handle onLeave waits for
  session,     \* ctx.state.recordedSession: the message it came from, or None
  admitted,    \* ctx.state.admittedData, or None
  active,      \* ctx.state.activeWholeView, or None
  display,     \* ctx.state.display
  shown,       \* the view on the page
  torn,        \* "no", "asked" or "done"
  latest,      \* history: the message of the last replace that was queued
  chosen       \* history: the view that host or user asked for last, or None once a
               \* context change has taken its turn before that view was entered

transitionVars == <<generation, queue, task>>
routerVars == <<router, at, leaving>>
stateVars == <<session, admitted, active, display>>
budgetVars == <<resource, sent, remounts, clicks>>
vars == <<surfaceVars, transitionVars, routerVars, stateVars, budgetVars,
          parsing, shown, torn, latest, chosen>>

------------------------------------------------------------------------------
\* Messages and views.

ResultKind == IF resource = "run" THEN {"error", "list", "empty", "run", "capture", "bad-capture"}
                                  ELSE {"error", "list", "empty", "run"}
SessionKind ==
  IF resource = "run" THEN {"recorded-run", "recorded-status", "admitted", "admitted-status", "bad"}
                      ELSE {"recorded-list", "recorded-empty", "recorded-status", "bad"}

Recorded == {"recorded-run", "recorded-status", "recorded-list", "recorded-empty"}
Listing == {"list", "empty", "recorded-list", "recorded-empty"}
WholeRun == {"run", "recorded-run"}

\* A view and what it shows; full: the component surface has something to show.
View(name, message) ==
  [name |-> name, of |-> message.of, full |-> message.kind \notin {"empty", "recorded-empty"},
   recorded |-> message.kind \in Recorded \cup {"admitted", "admitted-status"}]

ViewOf(message) ==
  CASE message.kind \in Listing -> View("list", message)
    [] message.kind \in WholeRun -> View("detail", message)
    [] message.kind \in {"capture", "admitted"} -> View("admitted", message)
    [] OTHER -> View("status", message)

Status(of) == [name |-> "status", of |-> of, full |-> FALSE, recorded |-> FALSE]
Pending == [name |-> "pending-detail"]

DisplayOf(message) ==
  CASE message.kind = "input" -> "loading"
    [] message.kind \in {"empty", "recorded-empty"} -> "empty"
    [] message.kind \in {"list", "recorded-list"} -> "run-list"
    [] message.kind \in WholeRun -> "run"
    [] message.kind \in {"recorded-status", "admitted-status"} -> "recorded-status"
    [] OTHER -> "error"

\* Only these views call scheduleSurfaceMount.
HasSurface(view) == view.name # "status" /\ view.full

Init ==
  /\ SurfaceInit
  /\ resource \in {"run", "run-list"}
  /\ sent = 0 /\ remounts = 0 /\ clicks = 0
  /\ parsing = {}
  /\ generation = 0 /\ queue = <<>> /\ task = "idle"
  /\ router = <<>> /\ at = "idle" /\ leaving = None
  /\ session = None /\ admitted = None
  /\ active = Status(0)
  /\ display = [kind |-> "loading", view |-> Status(0)]
  /\ shown = [view |-> Status(0), render |-> 0, badge |-> "EVIDENCE"]
  /\ torn = "no" /\ latest = 0 /\ chosen = Status(0)

------------------------------------------------------------------------------
\* The transition coordinator.

\* replace(task): a new generation; tasks queued before it are void.
Replace(message) ==
  /\ generation' = generation + 1
  /\ queue' = Append(queue, [generation |-> generation + 1, message |-> message])
  /\ UNCHANGED task

\* Slip: a task that is superseded leaves its promise pending.
SkipStuck ==
  /\ queue # <<>> /\ task = "idle"
  /\ Head(queue).generation # generation
  /\ task' = "stuck"
  /\ UNCHANGED <<generation, queue>>

\* Its turn comes when a newer replace has been queued: the task is skipped.
Skip ==
  /\ queue # <<>> /\ task = "idle"
  /\ Head(queue).generation # generation
  /\ queue' = Tail(queue)
  /\ UNCHANGED <<generation, task>>

\* What waits for the task goes on: onTeardown disposes of the surface.
Skipped ==
  /\ Skip
  /\ IF Head(queue).message.kind = "teardown" THEN Invalidate /\ torn' = "done"
                                              ELSE UNCHANGED <<surfaceVars, torn>>
  /\ UNCHANGED <<routerVars, stateVars, budgetVars, parsing, shown, latest, chosen>>

\* The task's navigation is over: the next one in the queue may run.
TaskOver == queue' = Tail(queue) /\ task' = "idle" /\ UNCHANGED generation

\* app.navigate and ctx.navigate: one navigation at a time, in the order asked for.
Navigate(view, by) ==
  /\ router' = Append(router, [view |-> view, by |-> by])
  /\ UNCHANGED <<at, leaving>>

\* A navigation that host or user asks for.
Choose(view, by) == Navigate(view, by) /\ chosen' = view

------------------------------------------------------------------------------
\* What the host sends.

Message(kind) == [kind |-> kind, of |-> sent + 1]

\* onToolInput, onToolResult.
ToolMessage ==
  /\ torn = "no" /\ sent < MaxMessages
  /\ \E kind \in ResultKind \cup {"input"} : Replace(Message(kind))
  /\ sent' = sent + 1 /\ latest' = sent + 1
  /\ UNCHANGED <<surfaceVars, routerVars, stateVars, resource, remounts, clicks,
                 parsing, shown, torn, chosen>>

\* viewerSession.validate accepts it; onSession awaits the parser before anything else.
SessionArrives ==
  /\ torn = "no" /\ sent < MaxMessages
  /\ \E kind \in SessionKind : parsing' = parsing \cup {Message(kind)}
  /\ sent' = sent + 1
  /\ UNCHANGED <<surfaceVars, transitionVars, routerVars, stateVars, resource, remounts, clicks,
                 shown, torn, latest, chosen>>

\* The fingerprint is known: applyRecorded... or reportRecordedSessionError, queued now.
SessionParsed(message) ==
  /\ message \in parsing
  /\ parsing' = parsing \ {message}
  /\ Replace(message)
  /\ latest' = message.of
  /\ UNCHANGED <<surfaceVars, routerVars, stateVars, budgetVars, shown, torn, chosen>>

\* Slip: a context change is queued like a replace.
ContextReplaces ==
  /\ torn = "no" /\ remounts < MaxRemounts
  /\ remounts' = remounts + 1
  /\ Replace([kind |-> "remount", of |-> latest])
  /\ UNCHANGED <<surfaceVars, routerVars, stateVars, resource, sent, clicks,
                 parsing, shown, torn, latest, chosen>>

\* hostcontextchanged: remount keeps the generation.
ContextChanges ==
  /\ torn = "no" /\ remounts < MaxRemounts
  /\ remounts' = remounts + 1
  /\ queue' = Append(queue, [generation |-> generation,
                             message |-> [kind |-> "remount", of |-> latest]])
  /\ UNCHANGED <<surfaceVars, generation, task, routerVars, stateVars, resource, sent, clicks,
                 parsing, shown, torn, latest, chosen>>

\* onTeardown: no more context changes, and a replace that does nothing.
Teardown ==
  /\ torn = "no"
  /\ torn' = "asked"
  /\ Replace([kind |-> "teardown", of |-> latest])
  /\ UNCHANGED <<surfaceVars, routerVars, stateVars, budgetVars, parsing, shown, latest, chosen>>

------------------------------------------------------------------------------
\* The tasks.

Turn(kinds) ==
  /\ queue # <<>> /\ task = "idle"
  /\ Head(queue).generation = generation
  /\ Head(queue).message.kind \in kinds

Show(message) ==
  /\ display' = [kind |-> DisplayOf(message), view |-> ViewOf(message)]
  /\ Choose(ViewOf(message), "task")
  /\ task' = "navigating"

\* Slip: the recorded session outlives the tool result that replaces it.
TaskKeepsSession ==
  LET message == Head(queue).message
  IN  /\ Turn({"input", "error", "list", "empty", "run", "bad"})
      /\ Show(message)
      /\ session' = IF message.kind \in {"input", "bad"} THEN None ELSE session
      /\ admitted' = None
      /\ UNCHANGED <<active, generation, queue>>

\* onToolInput, onToolResult of an envelope or an error, reportRecordedSessionError.
ToolTask ==
  LET message == Head(queue).message
  IN  /\ Turn({"input", "error", "list", "empty", "run", "bad"})
      /\ Show(message)
      /\ session' = None /\ admitted' = None
      /\ UNCHANGED <<active, generation, queue>>

\* onToolResult of an admitted capture: its parser is awaited inside the task.
CaptureTask ==
  /\ Turn({"capture", "bad-capture"})
  /\ session' = None /\ admitted' = None
  /\ task' = "parsing"
  /\ UNCHANGED <<active, display, generation, queue, routerVars, chosen>>

CaptureParsed ==
  LET message == Head(queue).message
  IN  /\ task = "parsing"
      /\ IF message.kind = "capture"
           THEN /\ Choose(ViewOf(message), "task")
                /\ task' = "navigating"
                /\ UNCHANGED display
           ELSE Show(message)
      /\ UNCHANGED <<session, admitted, active, generation, queue>>

\* applyRecordedSession.
RecordedTask ==
  LET message == Head(queue).message
  IN  /\ Turn(Recorded)
      /\ session' = message.of /\ admitted' = None
      /\ Show(message)
      /\ UNCHANGED <<active, generation, queue>>

\* applyRecordedAdmittedSession: an available one leaves display as it is.
AdmittedTask ==
  LET message == Head(queue).message
  IN  /\ Turn({"admitted", "admitted-status"})
      /\ session' = None
      /\ IF message.kind = "admitted"
           THEN /\ Choose(ViewOf(message), "task")
                /\ task' = "navigating"
                /\ UNCHANGED <<admitted, display>>
           ELSE admitted' = None /\ Show(message)
      /\ UNCHANGED <<active, generation, queue>>

\* The navigation under way waits for the leave of the old view: its onEnter,
\* and with it the mark of a drill-down, has not run.
LeavePending == router # <<>> /\ at \in {"idle", "leaving"}

\* remountSelectedSurface: what it navigates to is read when its turn comes.
RemountTask ==
  LET target == IF admitted # None THEN admitted ELSE active
  IN  /\ Turn({"remount"})
      /\ IF target \in {None, Pending}
           THEN queue' = Tail(queue) /\ UNCHANGED <<task, routerVars, chosen>>
           ELSE /\ Navigate(target, "task") /\ task' = "navigating" /\ UNCHANGED queue
                /\ chosen' = IF LeavePending THEN None ELSE chosen
      /\ UNCHANGED <<stateVars, generation>>

TaskRuns ==
  /\ ToolTask \/ CaptureTask \/ CaptureParsed \/ RecordedTask \/ AdmittedTask \/ RemountTask
  /\ UNCHANGED <<surfaceVars, budgetVars, parsing, shown, torn, latest>>

\* The rest of onTeardown: disposeMountedSurface.
TeardownTask ==
  /\ Turn({"teardown"})
  /\ TaskOver
  /\ Invalidate
  /\ torn' = "done"
  /\ UNCHANGED <<routerVars, stateVars, budgetVars, parsing, shown, latest, chosen>>

------------------------------------------------------------------------------
\* What the user clicks: outside the queue, on what is on the page.

Clickable == router = <<>> /\ clicks < MaxClicks /\ torn # "done"

\* openPersistedRun, from the mounted list.
OpenRun ==
  /\ Clickable /\ shown.view.name = "list" /\ mounted = shown.render
  /\ Choose([shown.view EXCEPT !.name = "run-id"], "user")
  /\ clicks' = clicks + 1
  /\ UNCHANGED <<surfaceVars, transitionVars, stateVars, resource, sent, remounts,
                 parsing, shown, torn, latest>>

\* The path bar's "All runs": there while display is a run list.
BackToList ==
  /\ Clickable /\ shown.view.name = "detail" /\ display.kind = "run-list"
  /\ Choose(display.view, "user")
  /\ clicks' = clicks + 1
  /\ UNCHANGED <<surfaceVars, transitionVars, stateVars, resource, sent, remounts,
                 parsing, shown, torn, latest>>

------------------------------------------------------------------------------
\* The router of @casys/mcp-view: leave the view on the page, enter, render.

\* onLeave of every view: disposeMountedSurface.
Leave ==
  /\ router # <<>> /\ at = "idle"
  /\ at' = "leaving"
  /\ leaving' = mounted
  /\ Invalidate
  /\ UNCHANGED <<router, transitionVars, stateVars, budgetVars, parsing, shown, torn, latest, chosen>>

\* The badge of the masthead (shell, componentShell), or "none" where only the
\* component is rendered: for an admitted execution, recorded or not, and for a
\* tool result whose component the host selects.
Badges(view) ==
  CASE view.name = "admitted" -> {"none"}
    [] view.name = "status" ->
         {IF display.kind = "recorded-status" THEN "RECORDED" ELSE "EVIDENCE"}
    [] view.name = "detail" /\ ~ view.full ->
         {IF view.recorded THEN "RECORDED" ELSE "EVIDENCE"}
    [] OTHER -> IF session # None THEN {"RECORDED"}
                ELSE {"EVIDENCE"} \cup (IF view.full THEN {"none"} ELSE {})

\* render: the badge is that of the state at this moment; the surface is scheduled.
Render(view) ==
  /\ \E badge \in Badges(view) :
       shown' = [view |-> view, render |-> shown.render + 1, badge |-> badge]
  /\ IF HasSurface(view) THEN Schedule(shown.render + 1) ELSE UNCHANGED surfaceVars
  /\ router' = Tail(router) /\ at' = "idle" /\ leaving' = None
  /\ IF Head(router).by = "task" THEN TaskOver ELSE UNCHANGED transitionVars

Left == at = "leaving" /\ leaving \notin dying

\* onEnter of a view whose data the caller passes.
Enter ==
  LET view == Head(router).view
  IN  /\ Left /\ view.name # "run-id"
      /\ active' = IF view.name = "admitted" THEN None ELSE view
      /\ admitted' = CASE view.name = "admitted" -> view
                       [] view.name = "status" -> admitted
                       [] OTHER -> None
      /\ Render(view)
      /\ UNCHANGED <<session, display, budgetVars, parsing, torn, latest, chosen>>

\* Slip: the list stays the active view while a run of it loads.
EnterRunUnmarked ==
  /\ Left /\ Head(router).view.name = "run-id"
  /\ admitted' = None
  /\ at' = IF session = None THEN "calling" ELSE "looking-up"
  /\ UNCHANGED <<surfaceVars, transitionVars, router, leaving, session, active, display,
                 budgetVars, parsing, shown, torn, latest, chosen>>

\* onEnter of the detail of a run id: remounting is suspended, then the run is
\* looked up in the recorded session or asked for with a tool call.
EnterRun ==
  /\ Left /\ Head(router).view.name = "run-id"
  /\ admitted' = None
  /\ active' = Pending
  /\ at' = IF session = None THEN "calling" ELSE "looking-up"
  /\ UNCHANGED <<surfaceVars, transitionVars, router, leaving, session, display,
                 budgetVars, parsing, shown, torn, latest, chosen>>

\* loadModelicaRunDetail settles: the run, a recorded status or an error.
RunLoaded ==
  /\ at \in {"calling", "looking-up"}
  /\ \E full \in BOOLEAN :
       LET view == [name |-> "detail", of |-> Head(router).view.of, full |-> full,
                    recorded |-> at = "looking-up"]
       IN  /\ active' = view
           /\ Render(view)
  /\ UNCHANGED <<session, admitted, display, budgetVars, parsing, torn, latest, chosen>>

Surfaces ==
  /\ SurfaceNext
  /\ UNCHANGED <<transitionVars, routerVars, stateVars, budgetVars, parsing, shown, torn, latest, chosen>>

Route == Leave \/ Enter \/ EnterRun \/ RunLoaded
Host == ToolMessage \/ SessionArrives \/ ContextChanges \/ Teardown
User == OpenRun \/ BackToList
Work == Skipped \/ TaskRuns \/ TeardownTask \/ Route \/ Surfaces \/ \E m \in parsing : SessionParsed(m)

Next == Host \/ User \/ Work

\* Promises that are pending settle: parsers, tool calls, mounts and disposals.
Spec == Init /\ [][Next]_vars /\ WF_vars(Work)

------------------------------------------------------------------------------

Quiet == parsing = {} /\ queue = <<>> /\ router = <<>>

Views == [name : {"status", "list", "detail", "admitted", "run-id"}, of : 0..MaxMessages,
          full : BOOLEAN, recorded : BOOLEAN]

TypeOK ==
  /\ SurfaceTypeOK
  /\ resource \in {"run", "run-list"}
  /\ generation \in Nat /\ task \in {"idle", "parsing", "navigating"}
  /\ at \in {"idle", "leaving", "calling", "looking-up"}
  /\ session \in 1..MaxMessages \cup {None}
  /\ admitted \in Views \cup {None}
  /\ active \in Views \cup {None, Pending}
  /\ shown.view \in Views /\ shown.badge \in {"RECORDED", "EVIDENCE", "none"}
  /\ chosen \in Views \cup {None}
  /\ \A i \in DOMAIN router : router[i].view \in Views

\* A surface stays on the page only while its view does: none outlives the view
\* that scheduled it, whenever its mount resolves, and no handle is forgotten
\* without being disposed of (surface-mount-lifecycle.ts:3, schedule and dispose).
NoStaleSurface ==
  /\ mounted \in {None, shown.render}
  /\ at # "idle" => mounted = None
  /\ live \subseteq Mounted \cup dying

\* When everything has settled the page shows the message that was queued last,
\* or a run of its list: no older transition, click or remount has the last word.
LatestMessageIsShown ==
  Quiet /\ torn = "no" => shown.view.of = latest

\* Once navigation has settled, RECORDED is on the page exactly when the content
\* came from a recorded session and not from the server, with one exception: a
\* recorded admitted execution is shown without a masthead (shell,
\* componentShell, resolveWholeViewSurfacePolicy).
BadgeTellsSource ==
  router = <<>> =>
    (shown.badge = "RECORDED" <=> shown.view.recorded /\ shown.view.name # "admitted")

\* A run that was asked for by its id is shown by its detail.
Shows(view) ==
  \/ shown.view = view
  \/ view.name = "run-id" /\ shown.view.name = "detail" /\ shown.view.of = view.of

\* A context change does not take the user back: once navigation has settled the
\* page shows what host or user asked for last, a run whose loading outlasted
\* the context change included. What is excepted is a context change whose turn
\* comes before onEnter has marked the drill-down, while the old view is being
\* left: it returns to the old view (app.ts:197-199, remountSelectedSurface).
RemountNeverUndoes == router = <<>> /\ chosen # None => Shows(chosen)

\* The viewer settles: whatever host and user did, every transition completes and
\* the last surface is mounted, has failed, or is gone.
Settles == <>[](Quiet /\ mounts = {} /\ dying = {})

=============================================================================
