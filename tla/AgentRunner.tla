----------------------------- MODULE AgentRunner ----------------------------
(***************************************************************************)
(* OpenAiAgentRunner.run (engine/agents/openai_agent_runner.py): one agent *)
(* driven over the OpenAI Agents SDK.  An attempt renders the local        *)
(* history, opens a stream and folds its events into the history; a        *)
(* retriable failure trims the incomplete tail and tries again after a     *)
(* backoff, up to MaxFailures; a refused answer is retried with a          *)
(* "Continue." prompt, up to RefusalRetries; success ends in one           *)
(* compaction pass.                                                        *)
(*                                                                         *)
(* The SDK is external.  It runs turns: one model response (text, or a     *)
(* refusal, and any number of parallel calls), then the results of those   *)
(* calls, then the next turn, until a response makes no call or MaxTurns   *)
(* is exceeded.  The stream may break between any two events.              *)
(***************************************************************************)
EXTENDS AgentContext, Integers

CONSTANTS
  Inputs,          (* the histories a run may start from                        *)
  MaxFailures,     (* MAX_CONSECUTIVE_LLM_FAILURES                              *)
  RefusalRetries,  (* AgentConfig.refusal_retries                               *)
  MaxTurns,        (* AgentConfig.maximum_turns                                 *)
  TextAfterCalls   (* may the SDK deliver a response's text after its calls?    *)

ASSUME RunnerAssumption ==
  /\ \A h \in Inputs : h \in Seq(Rows) /\ Consistent(h)
  /\ MaxFailures \in Nat \ {0}
  /\ RefusalRetries \in Nat
  /\ MaxTurns \in Nat \ {0}
  /\ TextAfterCalls \in BOOLEAN

VARIABLES
  phase,             (* where run() is                                          *)
  items,             (* agent_context.items                                     *)
  inputLength,       (* history: how many items the run started with            *)
  request,           (* the messages of the last attempt                        *)
  prompted,          (* did that request end in the "Continue." prompt?         *)
  floor,             (* items_before_attempt                                    *)
  eventsSeen,        (* events_seen > 0                                         *)
  attemptRefusal,    (* attempt_refusal_text is not None                        *)
  pendingRefusal,    (* pending_refusal_retry                                   *)
  refusalAttempts,   (* refusal_attempts                                        *)
  attempts,          (* history: how many requests have been started            *)
  failures,          (* agent_execution.consecutive_llm_failures                *)
  callsMade,         (* agent_execution.tool_calls_made                         *)
  turnsUsed,         (* agent_execution.turns_used                              *)
  units,             (* units the compaction pass has not reached yet           *)
  sdk                (* the SDK's side of the stream, see SdkStates             *)

execution == <<failures, callsMade, turnsUsed>>
locals == <<request, prompted, floor, eventsSeen, attemptRefusal, pendingRefusal,
            refusalAttempts, attempts>>
vars == <<phase, items, inputLength, execution, locals, units, sdk>>

Phases == {"ready", "calling", "streaming", "backoff", "compacting",
           "returned", "refused", "exhausted", "raised"}
Finished == {"returned", "refused", "exhausted", "raised"}

\* stage: waiting for the model, running tools, or the stream is over;
\* open: calls of this turn not answered yet; spoke: the response's message
\* has been delivered; done: history length when the last turn completed.
SdkStates == [turn : Nat, stage : {"model", "tools", "over"},
              open : SUBSET CallIds, spoke : BOOLEAN, done : Nat]

-----------------------------------------------------------------------------
Init ==
  /\ phase = "ready"
  /\ items \in Inputs
  /\ inputLength = Len(items)
  /\ request = <<>> /\ prompted = FALSE
  /\ floor = 0 /\ eventsSeen = FALSE
  /\ attemptRefusal = FALSE /\ pendingRefusal = FALSE /\ refusalAttempts = 0
  /\ attempts = 0
  /\ failures = 0 /\ callsMade = 0 /\ turnsUsed = 0
  /\ units = {}
  /\ sdk = [turn |-> 0, stage |-> "over", open |-> {}, spoke |-> FALSE, done |-> Len(items)]

\* Top of the loop: snapshot the history length and render the request.
StartAttempt ==
  /\ phase = "ready"
  /\ failures < MaxFailures
  /\ phase' = "calling"
  /\ floor' = Len(items)
  /\ eventsSeen' = FALSE
  /\ attemptRefusal' = FALSE
  /\ request' = Render(items)
  /\ prompted' = pendingRefusal
  /\ attempts' = attempts + 1
  /\ UNCHANGED <<items, inputLength, execution, pendingRefusal, refusalAttempts, units, sdk>>

\* Mutation: the breaker opens one failure too late for the loop condition.
GiveUpLate ==
  /\ phase = "ready"
  /\ failures > MaxFailures
  /\ phase' = "exhausted"
  /\ UNCHANGED <<items, inputLength, execution, locals, units, sdk>>

\* The breaker is open: EngineAgentExhaustedError.
GiveUp ==
  /\ phase = "ready"
  /\ failures >= MaxFailures
  /\ phase' = "exhausted"
  /\ UNCHANGED <<items, inputLength, execution, locals, units, sdk>>

\* run_streamed returned a stream; the request itself is sent lazily.
OpenStream ==
  /\ phase = "calling"
  /\ phase' = "streaming"
  /\ pendingRefusal' = FALSE
  /\ sdk' = [turn |-> 1, stage |-> "model", open |-> {}, spoke |-> FALSE, done |-> Len(items)]
  /\ UNCHANGED <<items, inputLength, execution, request, prompted, floor, eventsSeen,
                 attemptRefusal, refusalAttempts, attempts, units>>

-----------------------------------------------------------------------------
(* Stream events.  Each is folded into the history before the next is read.*)

Streaming(stage) == phase = "streaming" /\ sdk.stage = stage

\* An event that carries no row: a text delta, or one the mapper drops.
BareEvent ==
  /\ Streaming("model")
  /\ ~eventsSeen
  /\ eventsSeen' = TRUE
  /\ UNCHANGED <<phase, items, inputLength, execution, request, prompted, floor,
                 attemptRefusal, pendingRefusal, refusalAttempts, attempts, units, sdk>>

\* A mapped row: append it, emit it, count it.
Fold(row, newSdk) ==
  /\ items' = Append(items, row)
  /\ eventsSeen' = TRUE
  /\ attemptRefusal' = FALSE
  /\ callsMade' = callsMade + Cardinality(row.calls)
  /\ turnsUsed' = turnsUsed + (IF row.role = "assistant" /\ row.calls = {} THEN 1 ELSE 0)
  /\ sdk' = newSdk
  /\ UNCHANGED <<phase, inputLength, request, prompted, floor, pendingRefusal,
                 refusalAttempts, attempts, failures, units>>

\* The response's message, at most one.
TextEvent ==
  /\ Streaming("model") /\ ~sdk.spoke
  /\ TextAfterCalls \/ sdk.open = {}
  /\ Fold(TextRow("assistant"), [sdk EXCEPT !.spoke = TRUE])

\* One of the response's calls; the mapper makes a row of each.
CallEvent(c) ==
  /\ Streaming("model")
  /\ \A i \in 1..Len(items) : c \notin items[i].calls
  /\ Fold(CallRow({c}), [sdk EXCEPT !.open = @ \cup {c}])

\* A tool finished: its result, in any order among the turn's calls.
ResultEvent(c) ==
  /\ Streaming("tools")
  /\ c \in sdk.open
  /\ Fold(ResultRow(c), [sdk EXCEPT !.open = @ \ {c}])

\* A refusal is remembered but makes no row.
RefusalEvent ==
  /\ Streaming("model") /\ ~sdk.spoke
  /\ TextAfterCalls \/ sdk.open = {}
  /\ eventsSeen' = TRUE
  /\ attemptRefusal' = TRUE
  /\ sdk' = [sdk EXCEPT !.spoke = TRUE]
  /\ UNCHANGED <<phase, items, inputLength, execution, request, prompted, floor,
                 pendingRefusal, refusalAttempts, attempts, units>>

\* The response is complete: run its tools, or end if it made no call.
ResponseComplete ==
  /\ Streaming("model")
  /\ sdk.spoke \/ sdk.open # {}
  /\ sdk' = IF sdk.open = {} THEN [sdk EXCEPT !.stage = "over", !.done = Len(items)]
            ELSE [sdk EXCEPT !.stage = "tools"]
  /\ UNCHANGED <<phase, items, inputLength, execution, locals, units>>

\* Every call answered: the next turn begins.
NextTurn ==
  /\ Streaming("tools") /\ sdk.open = {} /\ sdk.turn < MaxTurns
  /\ sdk' = [turn |-> sdk.turn + 1, stage |-> "model", open |-> {}, spoke |-> FALSE,
             done |-> Len(items)]
  /\ UNCHANGED <<phase, items, inputLength, execution, locals, units>>

-----------------------------------------------------------------------------
(* Failures.                                                               *)

CallsAfter(p) ==
  Cardinality({ic \in ((p+1)..Len(items)) \X CallIds : ic[2] \in items[ic[1]].calls})

TextsAfter(p) ==
  Cardinality({i \in (p+1)..Len(items) : items[i].role = "assistant" /\ items[i].calls = {}})

\* Mutation: the trimmed rows stay in the counts.
RetriableFailureKeepsCounts ==
  LET kept == IF eventsSeen THEN KeptLength(items, floor) ELSE Len(items)
  IN  /\ phase \in {"calling", "streaming"}
      /\ phase' = "backoff"
      /\ items' = SubSeq(items, 1, kept)
      /\ failures' = failures + 1
      /\ UNCHANGED <<inputLength, callsMade, turnsUsed, locals, units, sdk>>

\* A retriable error, from opening the stream or from iterating it.  If events
\* had arrived, the incomplete tail is trimmed and its counts taken back.
RetriableFailure ==
  LET kept == IF eventsSeen THEN KeptLength(items, floor) ELSE Len(items)
  IN  /\ phase \in {"calling", "streaming"}
      /\ phase' = "backoff"
      /\ items' = SubSeq(items, 1, kept)
      /\ callsMade' = callsMade - CallsAfter(kept)
      /\ turnsUsed' = turnsUsed - TextsAfter(kept)
      /\ failures' = failures + 1
      /\ UNCHANGED <<inputLength, locals, units, sdk>>

BackoffOver ==
  /\ phase = "backoff"
  /\ phase' = "ready"
  /\ UNCHANGED <<items, inputLength, execution, locals, units, sdk>>

\* The turn after the last allowed one would begin: MaxTurnsExceeded, which is
\* not retriable.
TurnBudgetSpent ==
  /\ Streaming("tools") /\ sdk.open = {} /\ sdk.turn >= MaxTurns
  /\ phase' = "raised"
  /\ UNCHANGED <<items, inputLength, execution, locals, units, sdk>>

\* Any other error that is not retriable, or the task is cancelled at an await.
Raise ==
  /\ phase \in {"calling", "streaming", "backoff", "compacting"}
  /\ phase' = "raised"
  /\ UNCHANGED <<items, inputLength, execution, locals, units, sdk>>

-----------------------------------------------------------------------------
(* The stream ended normally.                                              *)

\* Mutation: a refusal retry is not counted.
RetryRefusalFree ==
  /\ Streaming("over") /\ attemptRefusal
  /\ refusalAttempts < RefusalRetries
  /\ pendingRefusal' = TRUE
  /\ phase' = "ready"
  /\ UNCHANGED <<items, inputLength, execution, request, prompted, floor, eventsSeen,
                 attemptRefusal, refusalAttempts, attempts, units, sdk>>

RetryRefusal ==
  /\ Streaming("over") /\ attemptRefusal
  /\ refusalAttempts < RefusalRetries
  /\ refusalAttempts' = refusalAttempts + 1
  /\ pendingRefusal' = TRUE
  /\ phase' = "ready"
  /\ UNCHANGED <<items, inputLength, execution, request, prompted, floor, eventsSeen,
                 attemptRefusal, attempts, units, sdk>>

Refuse ==
  /\ Streaming("over") /\ attemptRefusal
  /\ refusalAttempts >= RefusalRetries
  /\ phase' = "refused"
  /\ UNCHANGED <<items, inputLength, execution, locals, units, sdk>>

\* Success: reset the breaker and choose what to compact.
Succeed ==
  /\ Streaming("over") /\ ~attemptRefusal
  /\ failures' = 0
  /\ units' = CompactionUnits(items)
  /\ phase' = "compacting"
  /\ UNCHANGED <<items, inputLength, callsMade, turnsUsed, locals, sdk>>

\* One unit is summarised as a whole, or left alone because a summary failed.
CompactUnit(u) ==
  /\ phase = "compacting"
  /\ u \in units
  /\ units' = units \ {u}
  /\ items' \in {items, CompactRows(items, u)}
  /\ UNCHANGED <<phase, inputLength, execution, locals, sdk>>

Return ==
  /\ phase = "compacting" /\ units = {}
  /\ phase' = "returned"
  /\ UNCHANGED <<items, inputLength, execution, locals, units, sdk>>

-----------------------------------------------------------------------------
Next ==
  \/ StartAttempt \/ GiveUp \/ OpenStream
  \/ BareEvent \/ TextEvent \/ RefusalEvent
  \/ \E c \in CallIds : CallEvent(c) \/ ResultEvent(c)
  \/ ResponseComplete \/ NextTurn
  \/ RetriableFailure \/ BackoffOver \/ TurnBudgetSpent \/ Raise
  \/ RetryRefusal \/ Refuse \/ Succeed
  \/ \E u \in units : CompactUnit(u)
  \/ Return

Spec == Init /\ [][Next]_vars

\* The client's timeouts end every wait for the provider, tools return or are
\* turned into error text, and sleeps are finite: run() never stops for good
\* while a step is possible.
FairSpec == Spec /\ WF_vars(Next)

-----------------------------------------------------------------------------
TypeOK ==
  /\ phase \in Phases
  /\ items \in Seq(Rows)
  /\ inputLength \in Nat
  /\ request \in Seq(Rows)
  /\ prompted \in BOOLEAN
  /\ floor \in Nat
  /\ eventsSeen \in BOOLEAN
  /\ attemptRefusal \in BOOLEAN
  /\ pendingRefusal \in BOOLEAN
  /\ refusalAttempts \in Nat
  /\ attempts \in Nat
  /\ failures \in Nat
  /\ callsMade \in Int
  /\ turnsUsed \in Int
  /\ units \in SUBSET SUBSET Nat
  /\ sdk \in SdkStates

\* Whatever mixture of text, parallel calls and results a stream delivered
\* before it broke, the next attempt never sends the provider an unanswered
\* call or an orphan result (trim_incomplete_tool_turn before each retry).
RequestsAreValid == Consistent(request)

\* The history never loses what the model was already shown to be complete: the
\* caller's input, the rows of earlier attempts and every turn all of whose
\* calls were answered survive each trim ("completed turns stay in
\* agent_context").
CompletedTurnsStay ==
  /\ inputLength <= Len(items)
  /\ sdk.done <= Len(items)

\* The counts the parent is told (tool_calls_made, turns_used) are those of the
\* rows the history really holds, after any number of trims.
CountersMatchHistory ==
  callsMade = CallsAfter(inputLength) /\ turnsUsed = TextsAfter(inputLength)

\* Every attempt is charged to exactly one budget: a broken one to the circuit
\* breaker, a refused one to the refusal retries.  Between them they bound the
\* provider requests of a run (the loop condition and refusal_retries).
EveryAttemptCharged ==
  /\ phase \in {"calling", "streaming"} => attempts = failures + refusalAttempts + 1
  /\ phase \in {"ready", "backoff"} => attempts = failures + refusalAttempts
  /\ phase = "exhausted" => failures = MaxFailures
  /\ attempts <= MaxFailures + RefusalRetries

\* A history row never changes except to be replaced by its own summary, and
\* only the tail beyond the attempt's first row is ever dropped.
HistoryIsStable ==
  [][/\ Len(items') >= floor
     /\ \A i \in 1..Len(items) :
          i <= Len(items') => items'[i] \in {items[i], [items[i] EXCEPT !.compacted = TRUE]}]_vars

\* run() always ends: returned, refused, exhausted or raised.
Terminates == <>(phase \in Finished)

-----------------------------------------------------------------------------
(* Why they hold: what is true of the history in each phase.               *)

StreamingInv ==
  /\ floor <= sdk.done
  /\ ConsistentAt(items, floor)
  /\ ConsistentAt(items, sdk.done)
  /\ \A c \in CallIds : OpenAt(items, Len(items), c) <=> c \in sdk.open
  /\ \A j \in 1..Len(items) : ~OrphanAt(items, j)
  /\ sdk.stage = "over" => sdk.open = {}
  /\ ~eventsSeen => Len(items) = floor

HistoryInv ==
  /\ inputLength <= Len(items)
  /\ sdk.done <= Len(items)
  /\ floor <= Len(items)
  /\ phase \in {"ready", "calling", "backoff"} => Consistent(items)
  /\ phase = "calling" => floor = Len(items) /\ ~eventsSeen
  /\ phase = "streaming" => StreamingInv /\ inputLength <= floor
  /\ Consistent(request)

BudgetInv ==
  /\ failures <= MaxFailures
  /\ refusalAttempts <= RefusalRetries
  /\ phase \in {"calling", "streaming"} => failures < MaxFailures

-----------------------------------------------------------------------------
(* Statements of the repository's text that the code does not keep.        *)

\* The refusal retry keeps its "Continue." prompt when the retried call fails
\* in transit before yielding anything.
RefusalPromptSurvivesFailure ==
  [][(phase = "ready" /\ phase' = "calling" /\ prompted /\ Len(items) = floor) => prompted']_vars
=============================================================================
