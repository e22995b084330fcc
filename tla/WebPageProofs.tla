---------------------------- MODULE WebPageProofs ----------------------------
(***************************************************************************)
(* Proofs about the web page, for any runs, jobs and lengths of a log, any *)
(* number of requests under way, clicks and broken connections.            *)
(***************************************************************************)
EXTENDS WebPage, FiniteSetTheorems, TLAPS

-----------------------------------------------------------------------------
\* The inductive invariant.

\* A button to reconnect belongs to the selected run, and neither it nor a stream
\* is left when the log has ended: so a stream that the browser connects again,
\* which would show its lines twice, does not exist.
RetryInv ==
  /\ streamEnded => sources = {} /\ retry = None
  /\ retry # None => sources = {} /\ (selected # None => retry = selected)

\* What loadRunMeta asked for is a run, and the answer is about that run.
AnswersInv ==
  \A t \in Tasks : tasks[t].step = "meta" =>
    /\ tasks[t].arg \in Runs
    /\ \A row \in tasks[t].reply : row[1] = tasks[t].arg

PageInv == LogFaithful /\ RetryInv /\ AnswersInv

-----------------------------------------------------------------------------
\* Types.

Source == [id : Nat \ {0}, run : Runs, seen : 0..Last]
TaskType == [kind : {"none", "refresh", "once"}, step : {"jobs", "runs", "meta", "post"},
             arg : Runs \cup Jobs \cup {All}, served : BOOLEAN, reply : SUBSET Rows]

\* The function that waits next, as a request whose answer has not come.
LEMMA NewTask ==
  ASSUME NEW kind \in {"none", "refresh", "once"},
         NEW step \in {"jobs", "runs", "meta", "post"},
         NEW arg \in Runs \cup Jobs \cup {All}
  PROVE  /\ Task(kind, step, arg) \in TaskType
         /\ Task(kind, step, arg).step = step /\ Task(kind, step, arg).arg = arg
         /\ Task(kind, step, arg).reply = {}
BY DEF Task, TaskType

\* What AnswersInv says of one task.
Answers(task) ==
  task.step = "meta" => task.arg \in Runs /\ \A row \in task.reply : row[1] = task.arg

Fits(ts) == ts \in [Tasks -> TaskType] /\ \A t \in Tasks : Answers(ts[t])

\* Whichever place it takes, a task that fits leaves tasks that fit.
LEMMA Replaced ==
  ASSUME NEW ts, Fits(ts), NEW t, NEW task \in TaskType, Answers(task)
  PROVE  Fits([ts EXCEPT ![t] = task])
BY DEF Fits

LEMMA Added ==
  ASSUME NEW ts, Fits(ts), NEW task \in TaskType, Answers(task)
  PROVE  Fits(With(ts, task))
BY Replaced DEF With

LEMMA StatusType ==
  ASSUME NEW p
  PROVE  Status(p) \in {"QUEUED", "RUNNING", "SUCCEEDED"}
BY DEF Status

LEMMA ListingType ==
  ASSUME NEW f
  PROVE  Listing(f) \subseteq Rows
BY StatusType DEF Listing, Rows

LEMMA ShownType ==
  ASSUME NEW r \in Runs
  PROVE  Shown(r) \subseteq Rows /\ \A row \in Shown(r) : row[1] = r
BY StatusType DEF Shown, Rows

-----------------------------------------------------------------------------
\* Streams.

\* There is at most one stream.
LEMMA OneStream ==
  ASSUME TypeOK, LogFaithful, NEW s \in sources
  PROVE  sources = {s}
<1>1. ASSUME NEW u \in sources PROVE u = s
  <2>1. u \in Source /\ s \in Source
    BY DEF TypeOK, Source
  <2>2. u.id = s.id /\ u.run = s.run /\ u.seen = s.seen
    BY DEF LogFaithful
  <2> QED BY <2>1, <2>2 DEF Source
<1> QED BY <1>1

LEMMA NewIdType ==
  ASSUME TypeOK, LogFaithful
  PROVE  NewId \in Nat \ {0}
<1>1. IsFiniteSet(sources)
  <2>1. CASE sources = {}
    BY <2>1, FS_EmptySet
  <2>2. ASSUME NEW s \in sources PROVE IsFiniteSet(sources)
    <3>1. sources = {s}
      BY OneStream
    <3> QED BY <3>1, FS_Singleton
  <2> QED BY <2>1, <2>2
<1>2. Cardinality(sources) \in Nat
  BY <1>1, FS_CardinalityType
<1>3. PICK i \in {1, 2} : i # stream
  BY SMT
<1>4. i \in 1..(Cardinality(sources) + 2) /\ \A s \in sources : s.id # i
  BY <1>2, <1>3 DEF LogFaithful
<1>5. NewId \in 1..(Cardinality(sources) + 2)
  BY <1>3, <1>4 DEF NewId
<1> QED BY <1>2, <1>5

\* close() leaves nothing open.
LEMMA NothingLeft ==
  ASSUME LogFaithful
  PROVE  Closed = {}
BY DEF LogFaithful, Closed

\* The part of the types and of the invariant that is about the panel.
PanelType ==
  /\ selected \in Runs \cup {None} /\ stream \in Nat /\ streamEnded \in BOOLEAN
  /\ sources \subseteq Source /\ retry \in Runs \cup {None}
  /\ log \in Seq([run : Runs, event : 1..Last])
PanelInv == PanelType /\ LogFaithful /\ RetryInv

\* A panel that has just been emptied, with one stream at its start.
LEMMA FreshPanel ==
  ASSUME NEW r \in Runs, TypeOK, LogFaithful,
         Follow(r, {}), log' = << >>, selected' = r, streamEnded' = FALSE
  PROVE  PanelInv'
<1> DEFINE s == [id |-> NewId, run |-> r, seen |-> 0]
<1>1. NewId \in Nat \ {0}
  BY NewIdType
<1>2. s \in Source
  BY <1>1, WebPageAssumption DEF Source
<1>3. sources' = {s} /\ stream' = NewId /\ retry' = None
  BY DEF Follow
<1> HIDE DEF s
<1>4. PanelType'
  <2>1. << >> \in Seq([run : Runs, event : 1..Last])
    OBVIOUS
  <2>2. sources' \subseteq Source
    BY <1>2, <1>3
  <2>3. stream' \in Nat /\ retry' = None
    BY <1>1, <1>3
  <2> QED BY <2>1, <2>2, <2>3 DEF PanelType, Source
<1>5. LogFaithful'
  BY <1>3 DEF LogFaithful, s
<1>6. RetryInv'
  BY <1>3 DEF RetryInv
<1> QED BY <1>4, <1>5, <1>6 DEF PanelInv

\* openRun, from a click or from the answer to runJob.
LEMMA OpenedStep ==
  ASSUME NEW r \in Runs, NEW ts, Fits(ts), TypeOK, LogFaithful, Opened(r, ts)
  PROVE  PanelInv' /\ Fits(tasks')
<1>1. Follow(r, {})
  BY NothingLeft DEF Opened
<1>2. PanelInv'
  BY <1>1, FreshPanel DEF Opened
<1>3. Fits(tasks')
  <2>1. Task("once", "meta", r) \in TaskType /\ Answers(Task("once", "meta", r))
    BY NewTask DEF Answers
  <2> QED BY <2>1, Added DEF Opened
<1> QED BY <1>2, <1>3

\* A line comes to the end of the log, and its stream stays level with the log.
LEMMA StreamLineStep ==
  ASSUME TypeOK, PageInv, NEW s \in sources, StreamLine(s)
  PROVE  PanelInv'
<1> DEFINE u == [s EXCEPT !.seen = s.seen + 1]
           line == [run |-> s.run, event |-> s.seen + 1]
<1>1. s \in Source /\ s.id = stream /\ s.run = selected /\ s.seen = Len(log)
  BY DEF TypeOK, Source, PageInv, LogFaithful
<1>2. s.seen + 1 \in 1..Last
  BY <1>1, WebPageAssumption DEF StreamLine, Source
<1>3. u \in Source /\ u.id = stream /\ u.run = selected /\ u.seen = s.seen + 1
  BY <1>1, <1>2, WebPageAssumption DEF Source
<1>4. sources' = {u}
  <2>1. sources = {s}
    BY OneStream DEF PageInv
  <2>2. sources' = (sources \ {s}) \cup {u}
    BY DEF StreamLine
  <2> QED BY <2>1, <2>2
<1>5. line \in [run : Runs, event : 1..Last] /\ log \in Seq([run : Runs, event : 1..Last])
  BY <1>1, <1>2 DEF TypeOK, Source
<1>6. log' = Append(log, line) /\ UNCHANGED <<selected, stream, streamEnded, retry>>
  BY DEF StreamLine, state
<1>7. line = [run |-> selected, event |-> Len(log) + 1]
  BY <1>1
<1> HIDE DEF u, line
<1>8. /\ log' \in Seq([run : Runs, event : 1..Last]) /\ Len(log') = Len(log) + 1
      /\ \A i \in 1..Len(log) : log'[i] = log[i]
      /\ log'[Len(log) + 1] = line
  BY <1>5, <1>6
<1>9. Len(log) \in Nat
  BY <1>5
<1>10. PanelType'
  BY <1>3, <1>4, <1>6, <1>8 DEF PanelType, TypeOK
<1>11. LogFaithful'
  <2>1. ASSUME selected' # None, NEW i \in 1..Len(log')
        PROVE  log'[i] = [run |-> selected', event |-> i]
    <3>1. CASE i = Len(log) + 1
      BY <1>6, <1>7, <1>8, <3>1
    <3>2. CASE i \in 1..Len(log)
      BY <1>6, <1>8, <2>1, <3>2 DEF PageInv, LogFaithful
    <3> QED BY <1>8, <1>9, <3>1, <3>2
  <2>2. \A v \in sources' : v.id = stream' /\ v.run = selected' /\ v.seen = Len(log')
    BY <1>1, <1>3, <1>4, <1>6, <1>8
  <2> QED BY <2>1, <2>2 DEF LogFaithful
<1>12. RetryInv'
  BY <1>6 DEF PageInv, RetryInv
<1> QED BY <1>10, <1>11, <1>12 DEF PanelInv

\* onerror closes the stream: it is the panel's own, whose log has not ended.
LEMMA StreamErrorStep ==
  ASSUME TypeOK, PageInv, NEW s \in sources, StreamError(s)
  PROVE  PanelInv'
<1>1. ~streamEnded /\ s.id = stream /\ s.run = selected /\ s.run \in Runs
  BY DEF PageInv, LogFaithful, RetryInv, TypeOK
<1>2. sources = {s}
  BY OneStream DEF PageInv
<1>3. sources' = {} /\ retry' = s.run /\ UNCHANGED <<state, log>>
  BY <1>1, <1>2 DEF StreamError
<1> QED BY <1>1, <1>3
        DEF PanelInv, PanelType, TypeOK, PageInv, LogFaithful, RetryInv, state

\* end closes the stream, and no button is left.
LEMMA StreamEndStep ==
  ASSUME TypeOK, PageInv, NEW s \in sources, StreamEnd(s)
  PROVE  PanelInv' /\ Fits(tasks')
<1>1. sources = {s} /\ s.run \in Runs
  BY OneStream DEF PageInv, TypeOK
<1>2. PanelInv'
  BY <1>1 DEF StreamEnd, PanelInv, PanelType, TypeOK, PageInv, LogFaithful, RetryInv
<1>3. Fits(tasks)
  BY DEF Fits, TypeOK, TaskType, PageInv, AnswersInv, Answers
<1>4. Task("once", "meta", s.run) \in TaskType /\ Answers(Task("once", "meta", s.run))
  BY <1>1, NewTask DEF Answers
<1> QED BY <1>2, <1>3, <1>4, Added DEF StreamEnd

-----------------------------------------------------------------------------
\* Requests and answers.

\* The server answers, or creates the run that runJob asked for.
LEMMA ServeStep ==
  ASSUME TypeOK, PageInv, NEW t \in Tasks, Serve(t)
  PROVE  Fits(tasks') /\ progress' \in [Runs -> 0..Last]
<1> DEFINE arg == tasks[t].arg
           Answered(reply) == [tasks EXCEPT ![t].served = TRUE, ![t].reply = reply]
<1>1. Fits(tasks) /\ progress \in [Runs -> 0..Last] /\ 1 \in 0..Last
  BY WebPageAssumption DEF Fits, TypeOK, TaskType, PageInv, AnswersInv, Answers
<1>2. ASSUME NEW reply \in SUBSET Rows, tasks' = Answered(reply),
             tasks[t].step = "meta" => \A row \in reply : row[1] = arg
      PROVE  Fits(tasks')
  <2>1. tasks' \in [Tasks -> TaskType] /\ \A u \in Tasks \ {t} : tasks'[u] = tasks[u]
    <3>1. tasks' = [tasks EXCEPT ![t] = [tasks[t] EXCEPT !.served = TRUE, !.reply = reply]]
      BY <1>1, <1>2 DEF Fits
    <3>2. [tasks[t] EXCEPT !.served = TRUE, !.reply = reply] \in TaskType
      BY <1>1, <1>2 DEF Fits, TaskType
    <3> QED BY <1>1, <3>1, <3>2 DEF Fits
  <2>2. tasks'[t].step = tasks[t].step /\ tasks'[t].arg = arg /\ tasks'[t].reply = reply
    BY <1>1, <1>2 DEF Fits, TaskType
  <2>3. Answers(tasks'[t])
    BY <1>1, <1>2, <2>2 DEF Fits, Answers
  <2> QED BY <1>1, <2>1, <2>3 DEF Fits
<1>3. CASE tasks[t].step = "runs"
  <2>1. tasks' = Answered(Listing(arg)) /\ progress' = progress
    BY <1>3 DEF Serve
  <2> QED BY <1>1, <1>2, <1>3, <2>1, ListingType
<1>4. CASE tasks[t].step = "meta"
  <2>1. tasks' = Answered(Shown(arg)) /\ progress' = progress
    BY <1>4 DEF Serve
  <2>2. arg \in Runs
    BY <1>4 DEF PageInv, AnswersInv
  <2> QED BY <1>1, <1>2, <2>1, <2>2, ShownType
<1>5. CASE tasks[t].step = "post"
  <2>1. PICK r \in Runs : /\ progress' = [progress EXCEPT ![r] = 1]
                          /\ tasks' = Answered({<<r, "QUEUED">>})
    BY <1>5 DEF Serve
  <2>2. {<<r, "QUEUED">>} \in SUBSET Rows
    BY DEF Rows
  <2> QED BY <1>1, <1>2, <1>5, <2>1, <2>2
<1>6. tasks[t].step \in {"runs", "meta", "post"}
  BY <1>1 DEF Serve, Fits, TaskType
<1> QED BY <1>3, <1>4, <1>5, <1>6

\* An asynchronous function goes on with its answer.
LEMMA DeliverStep ==
  ASSUME TypeOK, PageInv, NEW t \in Tasks, Deliver(t)
  PROVE  /\ PanelInv' /\ Fits(tasks')
         /\ meta' \subseteq Rows /\ table' \subseteq Rows
         /\ UNCHANGED <<progress, filter, clicks, faults>>
<1>1. Fits(tasks) /\ PanelInv
  BY DEF Fits, TypeOK, TaskType, PageInv, AnswersInv, Answers, PanelInv, PanelType, Source
<1>2. tasks[t].reply \subseteq Rows
  BY <1>1 DEF Fits, TaskType
<1>3. Fits(Finished(t))
  <2>1. NoTask \in TaskType /\ Answers(NoTask)
    BY NewTask DEF NoTask, Answers
  <2> QED BY <1>1, <2>1, Replaced DEF Finished
<1>4. ASSUME NEW kind \in {"refresh", "once"}
      PROVE  Fits([tasks EXCEPT ![t] = LoadRuns(kind)])
  <2>1. LoadRuns(kind) \in TaskType /\ Answers(LoadRuns(kind))
    BY NewTask DEF LoadRuns, Answers, TypeOK
  <2> QED BY <1>1, <2>1, Replaced
<1>5. ASSUME UNCHANGED <<state, sources, panel>> PROVE PanelInv'
  BY <1>1, <1>5 DEF state, panel, PanelInv, PanelType, LogFaithful, RetryInv
<1>6. CASE DeliverJobs(t)
  BY <1>4, <1>5, <1>6 DEF DeliverJobs, TypeOK, state
<1>7. CASE DeliverRuns(t)
  <2>1. CASE RefreshesMeta
    <3>1. selected \in Runs
      BY <2>1 DEF RefreshesMeta, TypeOK
    <3>2. Task("refresh", "meta", selected) \in TaskType
          /\ Answers(Task("refresh", "meta", selected))
      BY <3>1, NewTask DEF Answers
    <3>3. Fits([tasks EXCEPT ![t] = Task("refresh", "meta", selected)])
      BY <1>1, <3>2, Replaced
    <3> QED BY <1>2, <1>3, <1>5, <1>7, <3>3 DEF DeliverRuns, TypeOK, state
  <2>2. CASE ~RefreshesMeta
    BY <1>2, <1>3, <1>5, <1>7, <2>2 DEF DeliverRuns, TypeOK, state
  <2> QED BY <2>1, <2>2
<1>8. CASE DeliverMeta(t)
  BY <1>2, <1>3, <1>5, <1>8 DEF DeliverMeta, TypeOK, state
<1>9. CASE DeliverPost(t)
  <2>1. PICK row \in tasks[t].reply :
          Opened(row[1], [tasks EXCEPT ![t] = LoadRuns("once")])
    BY <1>9 DEF DeliverPost
  <2>2. row[1] \in Runs
    BY <1>2 DEF Rows
  <2>3. PanelInv' /\ Fits(tasks')
    BY <1>4, <2>1, <2>2, OpenedStep DEF PageInv
  <2> QED BY <1>9, <2>3 DEF DeliverPost, TypeOK
<1> QED BY <1>6, <1>7, <1>8, <1>9 DEF Deliver

-----------------------------------------------------------------------------
\* The invariant.

\* TypeOK and PageInv, regrouped by what the steps above are about.
Whole ==
  /\ PanelInv /\ Fits(tasks) /\ progress \in [Runs -> 0..Last]
  /\ filter \in Jobs \cup {All} /\ clicks \in 0..MaxClicks
  /\ meta \subseteq Rows /\ table \subseteq Rows
  /\ FaultsTypeOK

LEMMA WholeIs == Whole <=> TypeOK /\ PageInv
<1>1. Whole => TypeOK /\ PageInv
  BY DEF Whole, PanelInv, PanelType, Fits, TaskType, Source, Answers, TypeOK, PageInv, AnswersInv
<1>2. TypeOK /\ PageInv => Whole
  BY DEF Whole, PanelInv, PanelType, Fits, TaskType, Source, Answers, TypeOK, PageInv, AnswersInv
<1> QED BY <1>1, <1>2

LEMMA RefreshFits == Refresh \in TaskType /\ Answers(Refresh)
BY NewTask DEF Refresh, Answers

LEMMA InitWhole == Init => Whole
<1> SUFFICES ASSUME Init PROVE Whole
  OBVIOUS
<1>1. PanelInv
  <2>1. << >> \in Seq([run : Runs, event : 1..Last])
    OBVIOUS
  <2>2. PanelType
    BY <2>1 DEF Init, PanelType, Source
  <2> QED BY <2>2 DEF Init, PanelInv, LogFaithful, RetryInv
<1>2. Fits(tasks)
  <2>1. NoTask \in TaskType /\ Answers(NoTask)
    BY NewTask DEF NoTask, Answers
  <2>2. Fits([t \in Tasks |-> NoTask])
    BY <2>1 DEF Fits
  <2> QED BY <2>2, RefreshFits, Added DEF Init
<1>3. progress \in [Runs -> 0..Last]
  BY WebPageAssumption DEF Init
<1> QED BY <1>1, <1>2, <1>3, WebPageAssumption DEF Init, Whole, FaultsInit, FaultsTypeOK

LEMMA UserStep ==
  ASSUME Whole, User
  PROVE  Whole'
<1>1. TypeOK /\ PageInv
  BY WholeIs
<1>2. clicks' \in 0..MaxClicks
  <2>1. Click
    BY DEF User, SetFilter, OpenRun, CloseDetail, Reconnect, RunJob
  <2> QED BY <2>1, WebPageAssumption DEF Click, Whole
<1>3. ASSUME NEW task \in TaskType, Answers(task), tasks' = With(tasks, task)
      PROVE  Fits(tasks')
  BY <1>3, Added DEF Whole
<1>4. ASSUME NEW f \in Jobs \cup {All}, SetFilter(f) PROVE Whole'
  <2>1. Fits(tasks')
    BY <1>3, <1>4, RefreshFits DEF SetFilter
  <2> QED BY <1>2, <1>4, <2>1
          DEF SetFilter, Whole, PanelInv, PanelType, LogFaithful, RetryInv, panel, FaultsTypeOK
<1>5. ASSUME NEW r \in Runs, OpenRun(r) PROVE Whole'
  <2>1. PanelInv' /\ Fits(tasks')
    BY <1>1, <1>5, OpenedStep DEF OpenRun, Whole, PageInv
  <2> QED BY <1>2, <1>5, <2>1 DEF OpenRun, Whole, FaultsTypeOK
<1>6. CASE CloseDetail
  <2>1. LoadRuns("once") \in TaskType /\ Answers(LoadRuns("once"))
    BY NewTask DEF LoadRuns, Answers, Whole
  <2>2. Fits(tasks')
    BY <1>3, <1>6, <2>1 DEF CloseDetail
  <2>3. sources' = {}
    BY <1>1, <1>6, NothingLeft DEF CloseDetail, PageInv
  <2>4. PanelInv'
    BY <1>6, <2>3
       DEF CloseDetail, Whole, PanelInv, PanelType, LogFaithful, RetryInv, panel
  <2> QED BY <1>2, <1>6, <2>2, <2>4 DEF CloseDetail, Whole, FaultsTypeOK
<1>7. CASE Reconnect
  <2>1. retry \in Runs /\ sources = {} /\ retry = selected /\ ~streamEnded
    BY <1>7 DEF Reconnect, Whole, PanelInv, PanelType, RetryInv
  <2>2. /\ Follow(retry, {}) /\ log' = << >>
        /\ selected' = retry /\ streamEnded' = FALSE
    BY <1>7, <2>1 DEF Reconnect, Whole, PanelInv, PanelType
  <2>3. PanelInv'
    BY <1>1, <2>1, <2>2, FreshPanel DEF PageInv
  <2> QED BY <1>2, <1>7, <2>3 DEF Reconnect, Whole, FaultsTypeOK, Fits
<1>8. ASSUME NEW j \in Jobs, RunJob(j) PROVE Whole'
  <2>1. Task("once", "post", j) \in TaskType /\ Answers(Task("once", "post", j))
    BY NewTask DEF Answers
  <2>2. Fits(tasks')
    BY <1>3, <1>8, <2>1 DEF RunJob
  <2> QED BY <1>2, <1>8, <2>2
          DEF RunJob, Whole, PanelInv, PanelType, LogFaithful, RetryInv, panel, state, FaultsTypeOK
<1> QED BY <1>4, <1>5, <1>6, <1>7, <1>8 DEF User

LEMMA WholeStep ==
  ASSUME Whole, [Next]_vars
  PROVE  Whole'
<1>1. TypeOK /\ PageInv
  BY WholeIs
<1>2. ASSUME UNCHANGED <<state, sources, panel>> PROVE PanelInv'
  BY <1>2 DEF state, panel, Whole, PanelInv, PanelType, LogFaithful, RetryInv
<1>3. ASSUME Fault("crash") PROVE FaultsTypeOK'
  BY <1>3 DEF Whole, Fault, FaultsTypeOK, FaultKinds
<1>4. CASE User
  BY <1>4, UserStep
<1>5. CASE Poll
  <2>1. Fits(tasks')
    BY <1>5, RefreshFits, Added DEF Poll, Whole
  <2> QED BY <1>2, <1>5, <2>1 DEF Poll, Whole, state, FaultsTypeOK
<1>6. ASSUME NEW s \in sources, StreamLine(s) PROVE Whole'
  <2>1. PanelInv'
    BY <1>1, <1>6, StreamLineStep
  <2> QED BY <1>6, <2>1 DEF StreamLine, Whole, state, Fits, FaultsTypeOK
<1>7. ASSUME NEW s \in sources, StreamEnd(s) PROVE Whole'
  <2>1. PanelInv' /\ Fits(tasks')
    BY <1>1, <1>7, StreamEndStep
  <2> QED BY <1>7, <2>1 DEF StreamEnd, Whole, FaultsTypeOK
<1>8. ASSUME NEW s \in sources, StreamError(s) PROVE Whole'
  <2>1. PanelInv'
    BY <1>1, <1>8, StreamErrorStep
  <2> QED BY <1>3, <1>8, <2>1 DEF StreamError, Whole, state, Fits
<1>9. ASSUME NEW t \in Tasks, Serve(t) PROVE Whole'
  <2>1. Fits(tasks') /\ progress' \in [Runs -> 0..Last]
    BY <1>1, <1>9, ServeStep
  <2> QED BY <1>2, <1>9, <2>1 DEF Serve, Whole, state, FaultsTypeOK
<1>10. ASSUME NEW t \in Tasks, Deliver(t) PROVE Whole'
  BY <1>1, <1>10, DeliverStep DEF Whole, FaultsTypeOK
<1>11. ASSUME NEW t \in Tasks, RequestFails(t) PROVE Whole'
  <2>1. NoTask \in TaskType /\ Answers(NoTask)
    BY NewTask DEF NoTask, Answers
  <2>2. Fits(tasks')
    BY <1>11, <2>1, Replaced DEF RequestFails, Finished, Whole
  <2> QED BY <1>2, <1>3, <1>11, <2>2 DEF RequestFails, Whole, state
<1>12. ASSUME NEW r \in Runs, Advance(r) PROVE Whole'
  <2>1. progress' \in [Runs -> 0..Last]
    BY <1>12, WebPageAssumption DEF Advance, Whole
  <2> QED BY <1>2, <1>12, <2>1 DEF Advance, Whole, state, Fits, FaultsTypeOK
<1>13. CASE UNCHANGED vars
  BY <1>2, <1>13 DEF vars, Whole, state, Fits, FaultsTypeOK
<1> QED BY <1>4, <1>5, <1>6, <1>7, <1>8, <1>9, <1>10, <1>11, <1>12, <1>13
        DEF Next, Streams

LEMMA WholeInvariant == Spec => []Whole
BY InitWhole, WholeStep, PTL DEF Spec

\* The page's variables keep their types, whatever the user clicks and in
\* whatever order requests are answered: each new stream gets an identity of its
\* own, and a request for a run's data is always about a run.
THEOREM WebPageTypeCorrect == Spec => []TypeOK
<1>1. Whole => TypeOK
  BY WholeIs
<1> QED BY <1>1, WholeInvariant, PTL

\* The panel shows the log of the selected run from its start, each line once,
\* and no stream is open besides the one that feeds it: app.js never lets the
\* browser reconnect on its own and duplicate lines.
THEOREM LogIsFaithful == Spec => []LogFaithful
<1>1. Whole => LogFaithful
  BY DEF Whole, PanelInv
<1> QED BY <1>1, WholeInvariant, PTL

\* An answer of loadRunMeta that arrives when another run is selected does not
\* touch the panel, whenever it was asked for.
THEOREM MetaBelongsToSelection == Spec => MetaBelongs
<1>1. ASSUME Whole, [Next]_vars
      PROVE  [meta' # meta => \A row \in meta' : row[1] = selected]_vars
  <2> SUFFICES ASSUME Next, meta' # meta
               PROVE  \A row \in meta' : row[1] = selected
    BY <1>1
  <2>1. PICK t \in Tasks : DeliverMeta(t)
    BY DEF Next, User, SetFilter, OpenRun, CloseDetail, Reconnect, RunJob, Poll, Streams,
           StreamLine, StreamEnd, StreamError, Serve, Deliver, DeliverJobs, DeliverRuns,
           DeliverPost, RequestFails, Advance
  <2>2. meta' = tasks[t].reply /\ selected = tasks[t].arg /\ tasks[t].step = "meta"
    BY <2>1 DEF DeliverMeta
  <2> QED BY <1>1, <2>2 DEF Whole, Fits, Answers
<1> QED BY <1>1, WholeInvariant, PTL DEF Spec, MetaBelongs
=============================================================================
