------------------------------ MODULE WebPage -------------------------------
(***************************************************************************)
(* The web page (web/app.js): a table of runs that is polled, and a panel  *)
(* that shows one run and follows its log over an EventSource.  The page   *)
(* has one thread, but what it asked for is answered later, in any order   *)
(* or not at all, and meanwhile the user clicks and the runs go on.        *)
(*                                                                         *)
(* A run is how far it has got: 0 is absent, 1 QUEUED, Last final, and the *)
(* numbers between are events of its log, which end at Last.               *)
(***************************************************************************)
EXTENDS Naturals, Sequences, FiniteSets, FiniteSetsExt, Faults

CONSTANTS Runs, Jobs, JobOf,
          Existing,   \* the runs under way when the page is loaded
          Last,       \* the progress of a run that is over
          All,        \* no filter
          None,       \* no run
          Tasks,      \* bound: asynchronous functions of the page under way
          MaxClicks   \* bound: what the user does

ASSUME WebPageAssumption ==
  /\ JobOf \in [Runs -> Jobs] /\ Existing \subseteq Runs
  /\ All \notin Jobs /\ None \notin Runs
  /\ Last \in Nat \ 0..2 /\ MaxClicks \in Nat
  /\ IsFiniteSet(Tasks) /\ Tasks \subseteq Nat \ {0}

VARIABLES progress,     \* of the runs, at the server
          filter, selected, stream, streamEnded,  \* state, in app.js
          sources,      \* the EventSources that are open
          log,          \* the lines shown in the panel
          meta,         \* the run and status shown in the panel, or {}
          retry,        \* the run of the Reconnect button, or None
          table,        \* the runs and statuses shown in the table
          tasks,        \* asynchronous functions waiting for an answer
          clicks        \* how often the user has done something

state == <<filter, selected, stream, streamEnded>>
panel == <<log, retry>>
vars == <<progress, state, sources, panel, meta, table, tasks, clicks, faults>>

\* The status of a run that has got so far, whose final one is SUCCEEDED.
Status(p) == CASE p = 1 -> "QUEUED" [] p = Last -> "SUCCEEDED" [] OTHER -> "RUNNING"

\* What the server answers: the runs of a filter, a run.
Listing(f) ==
  {<<r, Status(progress[r])>> : r \in {x \in Runs : progress[x] > 0 /\ f \in {All, JobOf[x]}}}
Shown(r) == {<<r, Status(progress[r])>>}

\* An asynchronous function: refresh goes through jobs, runs and meta, the others
\* (once) make one request.  arg is the filter, run or job of the request, reply
\* the server's answer while it is on its way.
Task(kind, step, arg) ==
  [kind |-> kind, step |-> step, arg |-> arg, served |-> FALSE, reply |-> {}]
NoTask == Task("none", "jobs", All)

Rows == Runs \X {"QUEUED", "RUNNING", "SUCCEEDED"}

TypeOK ==
  /\ progress \in [Runs -> 0..Last]
  /\ filter \in Jobs \cup {All} /\ selected \in Runs \cup {None}
  /\ stream \in Nat /\ streamEnded \in BOOLEAN
  /\ sources \subseteq [id : Nat \ {0}, run : Runs, seen : 0..Last]
  /\ log \in Seq([run : Runs, event : 1..Last])
  /\ meta \subseteq Rows /\ table \subseteq Rows
  /\ retry \in Runs \cup {None} /\ clicks \in 0..MaxClicks
  /\ tasks \in [Tasks -> [kind : {"none", "refresh", "once"},
                          step : {"jobs", "runs", "meta", "post"},
                          arg : Runs \cup Jobs \cup {All},
                          served : BOOLEAN, reply : SUBSET Rows]]
  /\ FaultsTypeOK

Refresh == Task("refresh", "jobs", All)

Free(ts) == {t \in Tasks : ts[t].kind = "none"}
With(ts, task) == [ts EXCEPT ![Min(Free(ts))] = task]

\* The page has been loaded, and refresh() called.
Init ==
  /\ progress = [r \in Runs |-> IF r \in Existing THEN 2 ELSE 0]
  /\ filter = All /\ selected = None /\ stream = 0 /\ streamEnded = FALSE
  /\ sources = {} /\ log = << >> /\ meta = {} /\ retry = None
  /\ table = {}
  /\ tasks = With([t \in Tasks |-> NoTask], Refresh)
  /\ clicks = 0 /\ FaultsInit

-----------------------------------------------------------------------------
\* The server.

Advance(r) ==
  /\ progress[r] \in 1..(Last - 1)
  /\ progress' = [progress EXCEPT ![r] = @ + 1]
  /\ UNCHANGED <<state, sources, panel, meta, table, tasks, clicks, faults>>

\* The request of task t is carried out and the answer sent.  What it says of the
\* jobs is left out.
Serve(t) ==
  /\ tasks[t].kind # "none" /\ tasks[t].step # "jobs" /\ ~tasks[t].served
  /\ LET Answer(reply) ==
           tasks' = [tasks EXCEPT ![t].served = TRUE, ![t].reply = reply]
         arg == tasks[t].arg
     IN CASE tasks[t].step = "runs" -> Answer(Listing(arg)) /\ UNCHANGED progress
          [] tasks[t].step = "meta" -> Answer(Shown(arg)) /\ UNCHANGED progress
          [] OTHER -> \E r \in Runs : /\ JobOf[r] = arg /\ progress[r] = 0
                                      /\ progress' = [progress EXCEPT ![r] = 1]
                                      /\ Answer({<<r, "QUEUED">>})
  /\ UNCHANGED <<state, sources, panel, meta, table, clicks, faults>>

-----------------------------------------------------------------------------
\* The panel.

\* es.close()
Closed == {s \in sources : s.id # stream}

NewId == CHOOSE i \in 1..(Cardinality(sources) + 2) :
           i # stream /\ \A s \in sources : s.id # i

\* follow, with the sources ss open besides.
Follow(r, ss) ==
  /\ sources' = ss \cup {[id |-> NewId, run |-> r, seen |-> 0]}
  /\ stream' = NewId
  /\ retry' = None

\* openRun: #d-meta keeps its rows until loadRunMeta replaces them.
Opened(r, ts) ==
  /\ Follow(r, Closed)
  /\ selected' = r /\ streamEnded' = FALSE
  /\ log' = << >>
  /\ tasks' = With(ts, Task("once", "meta", r))

\* An event arrives on the source s: attempt and line append to the log ...
StreamLine(s) ==
  /\ s.seen + 1 < Last - 1 /\ s.seen + 1 < progress[s.run]
  /\ log' = Append(log, [run |-> s.run, event |-> s.seen + 1])
  /\ sources' = (sources \ {s}) \cup {[s EXCEPT !.seen = @ + 1]}
  /\ UNCHANGED <<progress, state, retry, meta, table, tasks, clicks, faults>>

\* ... and end closes it.
StreamEnd(s) ==
  /\ s.seen = Last - 2 /\ progress[s.run] = Last
  /\ Free(tasks) # {}
  /\ streamEnded' = TRUE
  /\ sources' = sources \ {s}
  /\ retry' = None
  /\ tasks' = With(tasks, Task("once", "meta", s.run))
  /\ UNCHANGED <<progress, filter, selected, stream, log, meta, table, clicks, faults>>

\* Mutants: the source stays open, and the browser connects it again; no button.
StreamErrorReconnects(s) ==
  /\ Fault("crash")
  /\ sources' = (sources \ {s}) \cup {[s EXCEPT !.seen = 0]}
  /\ UNCHANGED <<progress, state, log, retry, meta, table, tasks, clicks>>
StreamErrorSilent(s) ==
  /\ Fault("crash")
  /\ sources' = sources \ {s}
  /\ UNCHANGED <<progress, state, log, retry, meta, table, tasks, clicks>>

\* The connection breaks.  The browser connects a source again unless onerror
\* closes it.
StreamError(s) ==
  /\ Fault("crash")
  /\ IF streamEnded \/ stream # s.id
     THEN /\ sources' = (sources \ {s}) \cup {[s EXCEPT !.seen = 0]}
          /\ UNCHANGED retry
     ELSE /\ sources' = sources \ {s}
          /\ retry' = s.run
  /\ UNCHANGED <<progress, state, log, meta, table, tasks, clicks>>

-----------------------------------------------------------------------------
\* Answers.

Finished(t) == [tasks EXCEPT ![t] = NoTask]

\* loadRuns, called with the filter of this moment.
LoadRuns(kind) == Task(kind, "runs", filter)

DeliverJobs(t) ==
  /\ tasks[t].step = "jobs"
  /\ tasks' = [tasks EXCEPT ![t] = LoadRuns("refresh")]
  /\ UNCHANGED <<progress, state, sources, panel, meta, table, clicks, faults>>

\* Mutants: refresh does not ask whether a run is selected; it follows the run
\* only while its stream is open.
RefreshesMetaAlways == ~streamEnded
RefreshesMetaOfStream == \E s \in sources : s.run = selected

\* The last condition of refresh.
RefreshesMeta == selected # None /\ ~streamEnded

DeliverRuns(t) ==
  /\ tasks[t].step = "runs"
  /\ table' = tasks[t].reply
  /\ tasks' = IF tasks[t].kind = "refresh" /\ RefreshesMeta
              THEN [tasks EXCEPT ![t] = Task("refresh", "meta", selected)]
              ELSE Finished(t)
  /\ UNCHANGED <<progress, state, sources, panel, meta, clicks, faults>>

\* Mutant: the answer is not compared with the selection.
DeliverMetaAnyway(t) ==
  /\ tasks[t].step = "meta"
  /\ meta' = tasks[t].reply
  /\ tasks' = Finished(t)
  /\ UNCHANGED <<progress, state, sources, panel, table, clicks, faults>>

DeliverMeta(t) ==
  /\ tasks[t].step = "meta"
  /\ meta' = IF selected = tasks[t].arg THEN tasks[t].reply ELSE meta
  /\ tasks' = Finished(t)
  /\ UNCHANGED <<progress, state, sources, panel, table, clicks, faults>>

\* The answer to runJob's POST: openRun, then loadRuns.
DeliverPost(t) ==
  /\ tasks[t].step = "post"
  /\ Free(tasks) # {}
  /\ \E row \in tasks[t].reply : Opened(row[1], [tasks EXCEPT ![t] = LoadRuns("once")])
  /\ UNCHANGED <<progress, filter, meta, table, clicks, faults>>

Deliver(t) ==
  /\ tasks[t].kind # "none"
  /\ tasks[t].served \/ tasks[t].step = "jobs"
  /\ DeliverJobs(t) \/ DeliverRuns(t) \/ DeliverMeta(t) \/ DeliverPost(t)

\* The request fails, carried out or not, and what would follow is left out.
RequestFails(t) ==
  /\ tasks[t].kind # "none"
  /\ Fault("crash")
  /\ tasks' = Finished(t)
  /\ UNCHANGED <<progress, state, sources, panel, meta, table, clicks>>

-----------------------------------------------------------------------------
\* The timer and the user.

\* Mutant: the page polls only while a run is selected.
PollSelected ==
  /\ selected # None
  /\ Free(tasks) # {}
  /\ tasks' = With(tasks, Refresh)
  /\ UNCHANGED <<progress, state, sources, panel, meta, table, clicks, faults>>

\* setInterval(refresh): it does not wait for the last one.
Poll ==
  /\ Free(tasks) # {}
  /\ tasks' = With(tasks, Refresh)
  /\ UNCHANGED <<progress, state, sources, panel, meta, table, clicks, faults>>

Click ==
  /\ Free(tasks) # {} /\ clicks < MaxClicks
  /\ clicks' = clicks + 1

SetFilter(f) ==
  /\ Click
  /\ f # filter
  /\ filter' = f
  /\ tasks' = With(tasks, Refresh)
  /\ UNCHANGED <<progress, selected, stream, streamEnded, sources, panel, meta, table, faults>>

\* A click on a row of the table.
OpenRun(r) ==
  /\ Click
  /\ \E row \in table : row[1] = r
  /\ Opened(r, tasks)
  /\ UNCHANGED <<progress, filter, meta, table, faults>>

CloseDetail ==
  /\ Click
  /\ selected # None
  /\ sources' = Closed
  /\ selected' = None
  /\ tasks' = With(tasks, LoadRuns("once"))
  /\ UNCHANGED <<progress, filter, stream, streamEnded, panel, meta, table, faults>>

Reconnect ==
  /\ Click
  /\ selected # None /\ retry # None
  /\ log' = << >>
  /\ Follow(retry, sources)
  /\ UNCHANGED <<progress, filter, selected, streamEnded, meta, table, tasks, faults>>

\* The POSTs of runJob under way.
Posts == {t \in Tasks : tasks[t].step = "post"}

\* runJob.  The button it disables is that of one job, and only until loadJobs
\* draws another, so that POSTs overlap.  Bounds: each of them has a run left to
\* create, and there is a task left for the openRun that follows.
RunJob(j) ==
  /\ Click
  /\ Cardinality({r \in Runs : JobOf[r] = j /\ progress[r] = 0}) >
       Cardinality({t \in Posts : tasks[t].arg = j /\ ~tasks[t].served})
  /\ Cardinality(Posts) + 1 < Cardinality(Tasks)
  /\ tasks' = With(tasks, Task("once", "post", j))
  /\ UNCHANGED <<progress, state, sources, panel, meta, table, faults>>

-----------------------------------------------------------------------------

User ==
  \/ \E f \in Jobs \cup {All} : SetFilter(f)
  \/ \E r \in Runs : OpenRun(r)
  \/ CloseDetail \/ Reconnect
  \/ \E j \in Jobs : RunJob(j)

Streams == \E s \in sources : StreamLine(s) \/ StreamEnd(s)

Next ==
  \/ User \/ Poll \/ Streams
  \/ \E s \in sources : StreamError(s)
  \/ \E t \in Tasks : Serve(t) \/ Deliver(t) \/ RequestFails(t)
  \/ \E r \in Runs : Advance(r)

Spec == Init /\ [][Next]_vars

\* The timer fires, requests are answered, and a connected stream delivers.
\* Streams is strongly fair because the bound on tasks, which is the model's,
\* disables it now and then.  Nothing makes the user click or a run go on.
FairSpec ==
  /\ Spec
  /\ WF_vars(Poll) /\ SF_vars(Streams)
  /\ \A t \in Tasks : WF_vars(Serve(t)) /\ WF_vars(Deliver(t))

-----------------------------------------------------------------------------
\* Safety.

\* "don't let the browser reconnect on its own and duplicate lines": whatever the
\* user opens, closes and reconnects, and whenever a connection breaks, the panel
\* shows the log of the selected run from its start, each line once, and no
\* stream is left open besides the one that feeds it.
LogFaithful ==
  /\ selected # None => \A i \in 1..Len(log) : log[i] = [run |-> selected, event |-> i]
  /\ \A s \in sources : s.id = stream /\ s.run = selected /\ s.seen = Len(log)

\* An answer that arrives when another run is selected does not touch the panel.
MetaBelongs == [][meta' # meta => \A row \in meta' : row[1] = selected]_vars

-----------------------------------------------------------------------------
\* Liveness, under FairSpec.  Clicks and failures are bounded and runs end, so
\* that each of these says what the page shows in the end.

\* "shows recent runs with their status (refreshing every two seconds)": the
\* table comes to show the runs of the chosen filter as they are, although
\* answers to an earlier filter may arrive after those to a later one.
TableCatchesUp == <>[](table = Listing(filter))

\* "polls for status changes every couple of seconds": until its stream has
\* ended, the panel too comes to show the run as it is, also while the stream is
\* disconnected.
PanelFollows == <>[](selected # None /\ ~streamEnded => meta = Shown(selected))

\* "follows a run's log live": the log of a run comes to be shown as far as there
\* is one, unless the page says that it is disconnected and offers to reconnect.
LogCatchesUp ==
  <>[](selected # None /\ retry = None =>
         /\ Len(log) >= Min({progress[selected] - 1, Last - 2})
         /\ progress[selected] = Last => streamEnded)

\* The same without the condition of PanelFollows: what the panel shows of a run
\* comes to be true.
PanelCatchesUp == <>[](selected # None => meta = Shown(selected))
=============================================================================
