# Verification of the HALO engine

TLA+ models of the HALO engine (`src/engine`) and of the tools around it
(`src/halo_cli`), checked with TLC on small instances and, for the properties
that matter most, proved with TLAPS for every instance. Paths below are those
of the repository.

## 1. The system

HALO answers a question about a file of traces. A run indexes the file, starts
a root agent that talks to a model provider through the OpenAI Agents SDK, lets
it call tools (among them subagents, which are agents again), and streams what
the agents say to the caller.

| Component | State | Operations | Talks to |
|---|---|---|---|
| Public entry points, `main.py:208-322` | a generator, perhaps a private event loop | iterate, leave early, `_drive_sync` | the engine run |
| Engine run, `stream_engine_async`, `main.py:36-205` | driver task, client, telemetry handle | set up, drive, consume, join, tear down | all below |
| Output bus, `agents/engine_output_bus.py` | queue, next sequence number | `emit`, `close`, `fail`, `stream` | agents write, the caller reads |
| Subagent tree, `tools/subagent_tool_factory.py` | a semaphore per depth, registered executions | call, wait, start, end, cancel | bus, runner |
| Agent runner, `agents/openai_agent_runner.py` | an execution's counters, a retry loop | attempt, fold an event, trim, retry, refuse, compact | SDK, context, bus |
| Agent context, `agents/agent_context.py` | the history of an agent | append, render, trim, compact | runner |
| Trace index, `traces/trace_index_builder.py` | two sidecar files beside the trace file | stat, check, scan, parse, write, rename, load | whoever writes the trace file |
| Trace queries, `traces/trace_store.py` | rows in memory | list, view, search, render | index, trace file |
| Python sandbox, `sandbox/sandbox.py`, `runner.js` | a Deno process per call | start, mount, bootstrap, execute, stop | JSON lines over pipes |
| Telemetry, `telemetry/` | the SDK's processors, an open file | set up, append spans, shut down | SDK, engine run |
| Background jobs, `halo_cli/jobs.py` | a directory per job | spawn, list, status, logs, cancel, clean | a shell process |
| Backfill, `halo_cli/backfill.py` | a store file and a cursor | fetch pages, append, move the cursor | Langfuse |
| Conversion, `halo_cli/convert.py` | none | rewrite a store as a trace file | trace index |
| Code and git readers, `code/`, `git/`, `subprocess_stream.py` | a cached listing | glob, grep, read, tree, log, show, diff, blame | a subprocess and two threads per call |

What is hard, component by component, and what correctness means there:

- **Runner and context.** A stream breaks between any two events, a refused
  answer is retried, a compaction half fails. Whatever happens, each request is
  a message array the provider accepts (every call answered once, no orphan
  result), complete turns are never lost, every attempt is paid for from one
  budget, the counters told to the parent are those of the rows that are left.
- **Bus.** Many agents emit while the caller reads and leaves. The caller sees
  0, 1, 2, …, everything before the end signal, then the end.
- **Tree.** Parents hold permits while children want some; a task is cancelled
  while waiting, just after it was handed a permit, while running. No permit is
  leaked or doubled, no wake-up is lost, nobody outlives the turn that called
  it, and a run with a tree in it ends.
- **Run and entry points.** Set-up fails, the driver fails or is cancelled, the
  caller leaves. Nobody waits for a dead driver, the client closes after its
  users and before telemetry, every run ends and leaves nobody behind.
- **Index.** The trace file is appended to, torn, truncated while it is
  scanned; a run dies between two renames. A meta file that matches the trace
  file always vouches for the right index, whatever the chunking.
- **Sandbox.** The runner prints what it likes, answers late, dies or hangs at
  any point; deadlines pass and the call is cancelled meanwhile. The call ends,
  leaves no process behind, and returns the outcome it has read.
- **Queries.** Rows are loaded once while the file goes on growing; filters,
  pages, searches and views each walk rows and file in their own way, with caps
  and a budget. Each answers as a reading of the whole trace would, says what it
  leaves out, and a closer look shows no less.
- **Jobs.** Spawner, shell, command and clients share files and no lock: the
  exit code file exists before it has content, a job ends between two looks of
  a client, its process number is used again. A reported exit code is the
  command's, a follower prints the whole log and gets away, and a running job
  keeps its record.
- **Backfill.** Pages are numbered newest first while rows arrive; rows are
  buffered, the cursor is written after the last page, two runs overlap, each
  can die anywhere. The cursor is never ahead of the store, and a row is stored
  twice only for a reason.
- **Code and git readers.** The process fills either pipe, fails before or
  after its first line, or is stopped early; the awaiting agent is cancelled;
  two calls fill one cache. Every call ends with its process, a result is what
  the process said up to the limit, and a view is whole or says that it is not.
- **Telemetry** (mostly unmodelled): the processors of consecutive and
  overlapping runs. Its hazard is listed with the others in `PROJECT.json`.

## 2. Modules

```
OrderedStream  <- refined by -  EngineOutputBus --+
                                                  +--> EngineRun --> EngineSurface
                                Subagents --------+
AgentContext --> ContextScan
AgentContext --> AgentRunner            TraceRows --> TraceIndex --> TraceQueries
Jobs + Backfill --> BackfillJobs        CodeViews --> StreamedReads
                                        SandboxSession
```

An arrow is EXTENDS. Each `MC…` module gives a specification the small
instances its `.cfg` files name, each `…Proofs` module extends one
specification. `EngineSurfaceProofs` also holds the proofs of the tree and of
the bus, which `EngineSurface` extends; `TraceQueriesProofs` builds on
`TraceIndexProofs`. The mapping from every definition to source lines is in `PROJECT.json`. Definitions under a `Mutation:` comment are faulty variants of
the one that follows them; no specification uses them, they show that a
property notices the fault.

- **AgentContext** — rows of the history and the operators over it. A row
  keeps its role, the calls it makes or answers, and whether it was compacted;
  text is left out. `KeptLength` is `_consistent_prefix_length`, `Block` the
  grouping of `_build_tool_groups`, stated by positions.
- **ContextScan** — the same two algorithms as the code writes them, one pass
  with a running state, over every history a caller, the mapper and compaction
  can leave behind.
- **AgentRunner** — `OpenAiAgentRunner.run`. `phase` is where the loop is,
  `sdk` the SDK's side of the stream (external: turns of a response with
  parallel calls, then results, until a response makes no call or the turn cap
  is passed). Actions: start an attempt, open the stream, one event of each
  kind, a retriable failure, a fatal one, the end of the stream with or without
  a refusal, each compaction unit with its summary succeeding or failing.
- **EngineOutputBus** — the queue; what runs between two suspensions of the
  event loop is one step. `received` and `sealedAt` are history variables.
  `OrderedStream` is what a caller is promised; `KeepsPromise` is the
  refinement.
- **Subagents** — the tree over `asyncio.Semaphore` as Python 3.11 implements
  it (external): FIFO, and a task handed a permit resumes in a later step and
  passes it on if it was cancelled meanwhile. The SDK runs the calls of a turn
  together and cancels the others when one raises (external).
- **EngineRun** — composes the tree and the bus: every running agent emits to
  the one bus, the driver closes or fails it, the caller's generator consumes,
  joins, closes the client, shuts telemetry down.
- **EngineSurface** — the four streaming functions over a run. External:
  closing an asynchronous generator does not close the one it iterates, whose
  closing is scheduled on the loop; a closed loop runs nothing.
- **TraceRows** — the rows of an index as a function of the lines: scan,
  chunks, accumulators, merge. The dictionary of accumulators is the sequence of
  them in the order they were put in, and the loops are recursive functions over
  how far they have got. A span keeps one field of each kind of rollup: a
  list in file order, a first value, an extremum, a set, a count over the whole
  trace; the other fields of a row roll up as one of these does.
- **TraceIndex** — runs over one trace file, step by step between two accesses
  to shared files, with the writers of the file. `handle` follows an open file
  through renames, as POSIX does. A crash loses what a run holds and leaves the
  files. A write need not advance the time stamp, unless it truncates; an
  append always changes the size. This is the assumption of
  `trace_index_models.py:42-45`, made weaker for appends. A file rewritten to
  the same size in the same tick of the clock is outside it.
- **TraceQueries** — `query_traces`, `count_traces`, `get_overview`,
  `view_trace`, `view_spans`, `search_trace` and `search_span` as operators over
  the rows a run of `TraceIndex` has loaded and the trace file as it is when
  asked. The JSON of a span is the sequence of its words, taken from its
  attributes in order; a pattern is a word, a match a place where it stands, and
  sizes count words. A view is its spans, or no spans and a summary, which is
  there only then; `query_traces` pages with an offset, and the row filters stand for
  those of their kind. The properties compare them with plain readings of the
  file at every state in which the file extends the one that was indexed.
- **SandboxSession** — one `run_python` call. `host` is the await it is at,
  `why` the reason of its stop, and so the `try` or `except` block it is in; the
  pipes are queues. The runner boots, serves requests in order, prints other
  lines, exits, and may stop doing any of it. External: asyncio reaps the
  process of a cancelled spawn, and cancelling a task cancels the one it awaits.
- **Jobs** — `spawn_detached`, the shell it starts, and the clients `status`
  (`list` asks it of every job), `logs`, `cancel` and `clean`. Directory,
  record, log and exit code are separate files; each look of a client at a file
  or a process is a step. External: what the shell does between opening and
  writing the exit code, and the reuse of a process number. What the command
  does is open: it prints, ends with a code, or dies by the signal.
- **Backfill** — `backfill_project`: read the cursor, fetch page after page with
  retries, append rows to a buffered file, close it, write the cursor. A row is
  the place of its observation in the order of arrival. External: the service
  lists newest first and numbers the pages of the list of the moment, and the
  buffer reaches the file in whole lines at any time. `late` and `disturbed` are
  history variables: what the cursor cannot cover, and what may repeat rows.
- **BackfillJobs** — composes the two: the command of a job is a run of the
  backfill, a page is a line of its log, its exit code is the job's, and the
  signal of `cancel` kills it between two of its steps. Other runs work in the
  foreground. `cast` says who takes part in a behaviour; `Casts` is a bound that
  the proofs leave open.
- **CodeViews** — the numbered window, the directory tree and the parser of
  `git blame --porcelain` as operators. A line of a file is its length, a path
  the sequence of its names.
- **StreamedReads** — `stream_subprocess_lines` under the tools that read
  through it: the thread of the call, the process, the thread that empties
  stderr, and pipes of bounded capacity. Each tool has its own way to stop, to
  judge an exit code and to fill its result. The tree's listing is cached by
  whoever finishes. External: what a process writes, its exit code, and that
  SIGTERM ends it.

## 3. What is checked

Properties are defined, and stated in words, in the modules.

| Run | Instance | Shows |
|---|---|---|
| `context_scan` | every history of ≤ 5 rows, 3 call ids, keep 1 text and 1 tool unit | positions and loops agree on the cut and on the groups; compacting any unit of a valid history of turns renders a valid array |
| `agent_runner` | 2 failures, 1 refusal retry, 2 turns, 2 call ids, fresh and continued input | requests are valid, turns stay, counters match, attempts are charged, the history is stable, `run()` ends |
| `output_bus` | 2 agents, 4 events | order, draining, ranges, and the refinement of `OrderedStream` |
| `subagent_tree` | 4 invocations, 2 depths, 2 permits each | permits, wake-ups, no strays |
| `engine_run` | root and 2 subagents, 1 permit, 1 event, 3 entry points | clean runs are complete, teardown order, nothing leaked, runs finish and leave nobody |
| `trace_index` | 1 run at a time again and again, ≤ 3 lines, 2 time stamps, 1 crash, threshold 2, 2 workers; 14 filters, pages of every size, caps of 1 and 2 words, a budget of 4 | the meta file vouches rightly, files are whole, rows are right however built, every query answers as a reading of the trace does, the index settles |
| `sandbox_session` | 4 requests, a cap of 2 lines (200 in the code), 3 lines of noise, 2 cancellations | the call ends, leaves no process it has not killed, keeps the outcome it has read |
| `backfill_jobs` | a job and 2 clients, or 2 runs; pages of 2 of ≤ 3 observations, 2 attempts | reports are true, followers see the whole log and get away, running jobs stay, the cursor is covered, rows repeat for a reason |
| `agent_reads` | each tool over a process of ≤ 3 lines or chunks (blame: up to 15), 2 concurrent tree calls, pipes of 1, a limit of 1 | results are true, views are whole or marked, calls and processes end |

Three more runs reproduce a disagreement between the code and what the
repository says of it; each is a finding in `PROJECT.json` with the quotation.

| Run | The code does | The repository says |
|---|---|---|
| `refusal_prompt` | drops "Continue." before the request is sent, so a failure in transit loses it | the name of a test, `test_openai_agent_runner.py:136` |
| `surface_items_sync` | `stream_engine_output`, left early, closes only the filter and then the loop | "Always calls `agen.aclose()` before closing the loop" so nothing leaks, `main.py:233` |
| `trace_index_two_runs` | two runs over one trace share temporary names; one loads an empty index | "atomically replace", "a usable index path", `trace_index_builder.py:101,311` |

Whether the SDK can deliver a response's text after its calls depends on its
version. `TextAfterCalls` says so; the runs assume it does not, the proofs hold
for both.

**Why the bounds are enough.** Two call ids give parallel calls, results out of
order and partial answers; two failures and one refusal give each budget spent
before, after and between the other; a third failure repeats the second. Five
rows hold a turn with two calls, both results and a text between, and with three
call ids a call that comes between the results of two others. Four
invocations at two permits let parents hold a whole depth while children want
one, and put two waiters behind two holders. One event suffices for the run:
the order of events is the bus's own question. Three lines with a threshold of
two give a file below, at and above it, two chunks with a remainder, a trace
split over both, a project that differs between them and a parent found only
in the other chunk. Two stamps let writes share one or not; truncation, the
only write that must advance the clock, happens once per behaviour, and one
crash at every step is followed by as many runs as one likes. A cap of two
lines can be reached and missed by one; two cancellations hit a stop and the
stop that follows. Pages of two over three observations give a last page that is
not full, a row that an arrival pushes to the next page, and a cursor in the
middle of a page; two attempts give a retry and a failure. Jobs meet clients in
two casts, one with a follower beside a client that cancels and cleans up, one
where one client asks anything of a job whose number is used again; runs
overlap in a third, without clients, since they share only the store and the
cursor. Pipes of one make a process wait on either; three lines at a limit of
one give the look ahead and a line after it; three paths of depth three with
two entries put each cap of the tree below, at and above its limit. For
queries, caps of one and two words and a budget of four words tell apart a
value that is whole, cut in a first look and cut in every look, and a trace
that is too much from one that is not. Bounds named in the configurations:
`MaxRows`, `MaxEvents`, `MaxLines`, `MaxTime`, `MaxCrashes`, `MaxNoise`,
`MaxCancels`, `MaxSource`, `Casts`, `Asked`, `Words`, `Filters`,
`MaxAsked`; the others are parameters of the program.

Deadlock is checked for the index, whose runs can always start again. The
other systems stop when they are done; that they stop nowhere else is
`Terminates`, `RunFinishes`, `LeavesNobody`, `CallEnds`, `CallsEnd` and
`FollowerLeaves`. The tree ends with the run around it, at a depth with one
permit, where a parent and its child would wait for each other if they shared
it.

**Fairness.** It states what the event loop and the operating system do, no
more. The runner: some step is taken as long as one can (`WF_vars(Next)`): the
client has time-outs, tools return, sleeps end. The bus: the caller keeps
reading (weak fairness of `Get`), which only the refinement uses. The run with
its tree: the loop gets to the agents and the driver, to the generator, and to
what is scheduled for closing (weak fairness of each of these groups); nobody is
obliged to emit, fail, cancel or leave. The index:
each run takes a step again and again, and a writer that left half a line
finishes it; that appends stop follows from the bound. The sandbox: deadlines
pass, what the host awaits and has happened wakes it, a killed process dies;
nothing is asked of the runner. Jobs and backfill: commands, shells and clients
go on (weak fairness of each); nobody is obliged to start a job, to ask, or to
signal. Readers: the process, the thread that reads and the one on stderr each
go on; nobody is obliged to cancel.

## 4. What is proved

`tlapm` checks these for all values of the constants, under the named
assumptions of the modules and the hypotheses given here.

- **AgentRunnerProofs** (any histories, call ids, budgets, turn caps).
  `RunnerTypes`; `ValidRequests`, `TurnsStay` and `StableHistory` from the
  inductive `HistoryInv`: between attempts the history is consistent; while a
  stream is read it is consistent up to the attempt's floor and up to the last
  finished turn, and the calls open at its end are those the SDK has not
  answered. Neither request nor trim can be understood without that last part.
  Lemmas say what a row added at the end, a cut and a rendering do to the
  pairing of calls with results, and that `KeptLength` is the longest
  consistent prefix not below the floor. `AttemptsCharged` adds `BudgetInv`.
  `CountersMatch` counts the rows beyond the input as finite sets of places: an
  appended row adds one, a trim takes away what it drops, a summary none.
- **ContextScanProofs** (any history, call ids, cutoffs).
  `LoopsComputeWhatTheyMean`: after `k` rows the loop that trims knows the calls
  that are open behind row `k` and the last place it may cut at (`ScanKnows`);
  the loop that groups has closed the blocks that end before it and holds the
  one under way (`GroupingGathers`). So they end with the cut and the blocks
  that `AgentContext` states by positions. `UnitsRenderValid`
  for turns in order (`TurnsInOrder`; section 5 says what happens without). The
  result of a call that is not a summary follows it with only rows of the same
  turn between, none of which starts a block, so the unit that holds the one
  holds the other (`UnitsHoldPairs`). Rendering the unit as text then leaves
  every pair outside it as it was.
- **EngineSurfaceProofs** (any subagents, events, depths, permits, entry
  points), in three parts.
  *The tree alone:* `TreeTypes` with what the queues hold (`WaitersInv`);
  `Permits`, from a lemma per step on how handing on permits changes the
  holders; `Strays`, from `StrayInv`: when a call has raised, its parent is in
  that turn or over and the siblings are cancelled. `Wakeups`: while a permit is
  free and a task waits that could have it, some task of that depth has been
  handed one and has not resumed (`Announced`). A step that frees a permit hands
  one to the first in line, which exists because a set of places has a least one
  (`WFMin`); a task cancelled after the hand-over passes it on; steps at one
  depth leave the others alone.
  *The bus alone:* `SequenceKept` and `DrainKept` from `QueueInv`: the n-th entry
  of the queue continues the caller's numbering up to the signal, which sits
  where `_next_sequence` stood when it was pushed. `RangesKept` from `RangeInv`:
  the range of an agent runs from the first to the last of its items among what
  has been received and what is queued. `PromiseKept`: under the refinement
  mapping the bus starts as `OrderedStream` does and each of its steps is one of
  `OrderedStream` or none. A read moves an entry from the queue to the caller and
  leaves the promised log as it was.
  *The run:* `RunIsATree` and `RunIsABus`: a run is a behaviour of the tree and
  of the bus, each seen alone. A driver that is cancelled before its first step
  does what a root does that unwinds; a caller that leaves does what cancels a
  root. So the theorems above hold of every run, and `RunKeepsPromise` follows.
  `CleanRuns` and `Teardown` from `RunInv`, which ties the driver to the root's
  stage (`DriverInv`), the generator's place to client and telemetry
  (`GeneratorInv`) and the loop to the generator (`EntryInv`); `CleanRuns` also
  rests on `Strays` and `DrainKept`. `NothingLeaks` has the hypothesis that the
  surface is not `stream_engine_output`, for which `surface_items_sync` shows
  that something does leak.
- **TraceIndexProofs** (any trace file, threshold, workers, any number of
  appends, truncations and crashes). `IndexTypes`, and for runs that follow one
  another (`Alone`; without it the run `trace_index_two_runs` applies):
  `Vouching`, from `IndexInv`, which orders the fingerprints in the meta file,
  in the run and of the file from old to new (`AgesInv`), says that what a run
  holds is about the file as long as the fingerprint it took still matches
  (`WorkInv`), and that temporary files are its own (`FilesInv`). A vouching
  meta file forces all three fingerprints to be equal. `WholeSidecars`, from
  `WholeInv`: what is renamed into place has been written in full.
  `StoreServes`, from `ServingInv`: unless the file was truncated since, every
  index on the way (found, parsed, written, in place, loaded) has the rows of
  the file as it was at one moment, not before its fingerprint; what a scan of a
  file finds is read back from every longer one (`PrefixReadsBack`).
  That the rows do not depend on where a build cuts the file is
  `ChunksMakeNoDifference`: what a worker has gathered of a chunk, merged into
  what came before it, is what absorbing the lines of the chunk one by one gives
  (`ChunkIsAbsorbed`), the chunks are consecutive slices that leave nothing out
  (`ChunksAreSlices`), and parents that a chunk misses are counted again over the
  whole trace. It uses that start times are numbers, which `NoId` is not: with
  an absent start it is false (section 5).
- **TraceQueriesProofs** (any lines, filters, words, limits, caps, budgets; under
  `Alone`, and however the file has grown since it was indexed).
  `ViewsMatchWhatIsThere`, `SearchesMatchWhatIsThere`, `FiltersMatchWhatIsThere`.
  By `StoreServes` a run has the rows of the file of one moment. They tell of
  its spans (`RowsTellOfTheFile`, by following the lines): a row has the places
  of the spans of its trace in order, the number of their errors, their
  projects, the first of them and the earliest start. So a view reads just the
  spans of the trace; cutting a value later shows no less of it, and the
  greatest of the sorted sizes is a size of one span. The records of a search
  are one to one, and in order, with the places where the word stands, by
  following the spans, so the count is the number of places and the n-th record
  is of the n-th. The rows that pass a filter are one to one, and in order, with
  the traces whose spans do (`FilteredRowsTell`), and divide the places of these
  spans among them, so totals over rows are totals over spans (`PlacesAddUp`).
  `TraceQueriesAssumption` says that spans have attributes, the caps are in
  order and no filter asks for the marker of an absent project.
- **SandboxSessionProofs** (any cap, noise, cancellations). `SessionTypes`,
  `NoProcessLeft` and `OutcomeKept` from `SessionInv`: before a stop nothing is
  stopped and the cap is not reached (`Asking`); who waits for the end has
  killed, or was interrupted in the grace period (`Stopping`); an answer is
  given up for a cancellation only (`Keeping`).
- **BackfillJobsProofs** (any jobs, clients and runs, whatever the clients ask;
  any page size, observations and attempts). The clients: `JobsTypes`;
  `ReportsAreTrue`, `FollowersSeeAll` and `RunningJobsAreKept` from `JobsInv`.
  `ProcessInv` orders shell, command and exit code; `RecordInv` says what a
  record and a missing directory mean; `Believes` what a client may still rely
  on from what it read some steps ago: a code it has read, a death it has seen,
  a directory it has found; `Keeps` how far a follower has printed and why a
  client that cleans up may remove the directory. The last two are needed
  because each command looks more than once and acts later. The files:
  `CursorHolds`, from `CoverInv`. A run that has read some pages has, in the
  store or in its buffer, everything between the cursor it started from and the
  newest start it has seen, as far as the pages that are left do not hold it
  (`RunCovers`). Arrivals push rows to later pages, never to earlier ones. Its
  hypothesis `MaxPages = 0` is the default, no limit; with one, pages are left
  out (section 5). `DuplicatesExplained`, for any limit, from `OnceInv`: while
  nothing has disturbed it there is one run, what it has gathered is without
  repetition, and the rows it gathered itself lie beyond the pages not read.
- **StreamedReadsProofs** (any calls, output, pipes, limits). `ReadsHold`, the
  inductive `ReadsInv`: of each call, what its process has written and its thread
  has not read is what comes next, and what the tool holds is what its loop holds
  so many lines into the output; a cached tree is what some call found.
  `ResultsTrue` follows, with a lemma per way of stopping: a list ends at its
  limit or looks one ahead, a capped collection ends at its budget, `blame`
  knows of each commit what the output has said of it so far (`BlameGoesOn`).
  `ViewsMarked`: windows tile every file (`AlwaysTiles`), and an overview without
  the marker of the entry cap has every path or marks the directory that it does
  not open (`AlwaysAnOverview`). `AskedAssumption`
  types the scripts of the processes; a path of the work tree is not empty, and
  what `git blame` writes has the porcelain format.

Constants carry the named assumptions of their modules; where something must
not be confused with a marker for "no file" or "nothing", they say so.

Model-checked only:

- what needs fairness: `Terminates`, `RunFinishes`, `LeavesNobody`, `CallEnds`,
  `CallsEnd`, `FollowerLeaves`, `SettlesFresh`, and of `KeepsPromise` that the
  caller gets to the end (its steps are `PromiseKept`).

Every safety property that a passing run checks is stated by a theorem, but for
the hypotheses named above. Loops over data of any length are followed without
the induction theorems of the library, whose operator parameter the provers
cannot instantiate: the set of the lengths for which the claim holds contains 0
and, with each length, the next, so it contains all (the lemmas `Counting`,
from `WFMin`). The first use of each shows that the recursive function is what
its definition says of each place (the lemmas `…GoesOn`).

The types of the runner, the tree, the index and the jobs are proved and not
checked by a run of their own.

## 5. Known differences without a run

- The turn number shown to the model restarts with each attempt
  (`turn_counter.py:5-7`, `main.py:147`), and so does the turn cap
  (`README.md:130`, `main.py:156`): the model has one cap per attempt too.
- A subagent that emitted nothing reports the range 0..0, which is also that of
  a first single item (`subagent_tool_factory.py:384`).
- `agent_context.py:205` says a failed summary is tried again by "the next
  turn's pass"; there is one pass per run.
- A span with an empty start time makes the rows of a chunked build differ from
  an inline one (`absorb` tests the accumulator, `merge_in` also the other).
  Conforming exporters set it, so the model has none.
- A flush may fall between a line's text and its newline. The line then parses
  and is indexed early; the newline changes the size and the next run rebuilds.
- `stop` "is harmless" to call twice: "The first call does the work"
  (`sandbox.py:431-433`), and a second one finds the stderr task resolved
  (`:436`). A call cancelled within the grace period has left the first `stop`
  before the work was done. The second, `hard=True`, kills nothing and waits for
  a stderr that lasts as long as the runner; in an `except` block there is no
  second one. `interrupted` marks this path, which `LeavesNoProcess` and
  `CallEnds` except.
- `record_llm_success` resets the failure counter "after any successful LLM
  call" (`agent_execution.py:31`); the runner calls it once, after the last turn
  (`openai_agent_runner.py:202`).
- A tool turn is one unit so that the array "never pairs a compacted summary
  with an uncompacted `role=tool` row" (`agent_context.py:166-168`). Grouping is
  by adjacency: with text delivered after calls (`TextAfterCalls`), the turn is
  split and its results stay as they are beside summaries. So it is when a call
  is recorded after a result of the same response (calls 1 and 2, result 1,
  call 3, results 2 and 3): a turn is "a maximal run of consecutive" calls plus
  "the results that follow them" (`agent_context.py:233-235`). `TurnsInOrder`
  excepts both.
- `cancel` "signals its whole process group" (`jobs.py:210`) by the number in
  the record. If the job ends after the look at it and the number is used again,
  the group is another's (`:217`). A job whose shell left no exit code and whose
  number is used again reads "running".
- `_status` looks for the exit code before it looks at the process, so a job
  that ends in between reads "killed" once (`jobs.py:122-130`). Removing a
  directory, in truth file by file, is one step in the model.
- An exit code file that is open and not yet written reads as "failed" with the
  code -1, also for a job that succeeds. `ReportsTrue` is about codes that a
  command can end with.
- `logs -f` stops on "unknown", which a job is before its record is written, and
  a client that finds a record opened and not written fails on its JSON.
- A sandbox runner has a session of its own: the group signal of `cancel` does
  not reach it.
- With `max_pages` the newest rows are read first and the cursor moves to them
  (`backfill.py:108`), so the pages that were not read are never fetched. A row
  that arrives later with the start time of the cursor is skipped, and one that
  was stored before it ended is not read again. `CursorCovers` excepts them.
- `halo convert` reads the store twice, for the traces and for the spans; a
  backfill may append in between.
- `render_trace` is "truncated to `budget` bytes" (`trace_store.py:597`): it
  counts characters and adds its marker, and shows `spans: 0` for a trace whose
  view is oversized.
- `search_span` answers for the first span with an id, `view_spans` for all of
  them; `SearchesMatchTrace` compares the first.
- The overview of a work tree is "rendered once and cached" (`code_repo.py:141`):
  two first calls at once both render it. A listing that `rg` broke off after
  its first lines is cached like a whole one.
- Of the cap on the paths, `code_repo.py:76-78` says "the entry-cap marker
  already flags" the result as partial. Directories that are not opened use up
  paths without entries, so a slice may be shown without the marker;
  `ViewsAreWholeOrMarked` excepts listings cut at this cap.

## 6. Not modelled, and the plan

Done: context, runner, bus, tree, run, entry points, index, queries, sandbox
session, jobs, backfill, code and git readers. Next, in order:

1. **Telemetry** — processors of consecutive and overlapping runs
   (`telemetry/setup.py:138`), writes after shutdown, the file that a later run
   indexes.
2. **Conversion** — the rows of a store that grows between the two readings of
   `convert.py`, composed with `Backfill` and `TraceIndex`.
3. **Proofs** — the safety of these two once they are modelled: that a file of
   spans is whole when a run is over, and that a converted file has every span
   the store had when it was read.

Partly modelled: of the sandbox, the resolution of Deno, the cache of wheels and
the permissions are left out; of the queries, `render_trace` and what a regular
expression can say beyond a word; of telemetry, all but the appends and the
shutdown; of the conversion, all but the writing of the file.

Left out for good: the text of prompts and summaries, the mapping of spans from
one format to another, what the synthesis tool makes of a view, options of the
command line, demo, scripts, documentation.
