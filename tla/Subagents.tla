------------------------------ MODULE Subagents -----------------------------
(***************************************************************************)
(* The tree of agents of one run and the per-depth semaphores that gate it *)
(* (engine/tools/subagent_tool_factory.py).  An agent's turn may make      *)
(* several call_subagent calls, which the SDK runs as parallel tasks; each *)
(* takes a permit of its depth's semaphore, runs an agent of its own, and  *)
(* gives the permit back whichever way that agent ends.                    *)
(*                                                                         *)
(* External: the SDK (it runs the calls of a turn together, and cancels    *)
(* the others when one of them raises) and asyncio.Semaphore (FIFO; a      *)
(* waiter that has been handed a permit resumes in a later step, and hands *)
(* it on if it was cancelled meanwhile).                                   *)
(***************************************************************************)
EXTENDS Integers, Sequences, FiniteSets

CONSTANTS
  Root,             (* the root agent                                      *)
  Invocations,      (* the call_subagent calls a run may make: finitely many *)
  NoAgent,          (* the root's parent                                   *)
  MaximumDepth,     (* EngineConfig.maximum_depth                          *)
  MaximumParallel   (* EngineConfig.maximum_parallel_subagents             *)

Agents == Invocations \cup {Root}

ASSUME TreeAssumption ==
  /\ IsFiniteSet(Invocations)
  /\ Root \notin Invocations
  /\ NoAgent \notin Agents
  /\ MaximumDepth \in Nat
  /\ MaximumParallel \in Nat \ {0}

VARIABLES
  stage,    (* where each agent's task is                                  *)
  parent,   (* parent_agent_id                                             *)
  depth,    (* AgentExecution.depth                                        *)
  value,    (* semaphores_by_depth[d]._value                               *)
  waiters,  (* semaphores_by_depth[d]._waiters                             *)
  doomed    (* agents whose task has been cancelled and not yet unwound    *)

treeVars == <<stage, parent, depth, value, waiters, doomed>>

Depths == 1..MaximumDepth
Running == {"thinking", "tools"}              \* inside runner.run
Live == {"called", "waiting", "granted"} \cup Running
Ended == {"returned", "failed", "raised", "cancelled"}
Stages == {"none"} \cup Live \cup Ended

Children(p) == {c \in Invocations : parent[c] = p}
LiveChildren(p) == {c \in Children(p) : stage[c] \in Live}

-----------------------------------------------------------------------------
(* The semaphore of one depth.                                             *)

\* Which semaphore a child of depth d takes: a pool of its own per depth.
Pool(d) == d

\* Positions of the waiters that could be handed a permit.
Pending(d) == {i \in 1..Len(waiters[d]) :
                 stage[waiters[d][i]] = "waiting" /\ waiters[d][i] \notin doomed}

\* locked(): no permit, or somebody is ahead.
Locked(d) ==
  \/ value[d] = 0
  \/ \E i \in 1..Len(waiters[d]) :
       ~(stage[waiters[d][i]] = "waiting" /\ waiters[d][i] \in doomed)

\* _wake_up_next with v permits at hand: the first pending waiter, if any.
Woken(d, v) ==
  {c \in Invocations : /\ v > 0
                       /\ \E i \in Pending(d) : /\ c = waiters[d][i]
                                                /\ \A j \in Pending(d) : i <= j}

\* c moves to a stage while the pool d has v permits to hand on.
MoveAndWake(c, to, d, v) ==
  /\ value' = [value EXCEPT ![d] = v - Cardinality(Woken(d, v))]
  /\ stage' = [a \in Agents |-> IF a = c THEN to
                                ELSE IF a \in Woken(d, v) THEN "granted"
                                ELSE stage[a]]

\* c leaves the queue.
Withdraw(c, d) ==
  \E i \in 1..Len(waiters[d]) :
    /\ waiters[d][i] = c
    /\ waiters' = [waiters EXCEPT ![d] = SubSeq(@, 1, i-1) \o SubSeq(@, i+1, Len(@))]

-----------------------------------------------------------------------------
TreeInit ==
  /\ stage = [a \in Agents |-> IF a = Root THEN "thinking" ELSE "none"]
  /\ parent = [a \in Agents |-> NoAgent]
  /\ depth = [a \in Agents |-> 0]
  /\ value = [d \in Depths |-> MaximumParallel]
  /\ waiters = [d \in Depths |-> <<>>]
  /\ doomed = {}

\* A turn ends in subagent calls.  Only agents above the maximum depth are
\* given the tool.
Delegate(p, calls) ==
  /\ stage[p] = "thinking" /\ p \notin doomed
  /\ depth[p] < MaximumDepth
  /\ calls # {} /\ \A c \in calls : stage[c] = "none"
  /\ stage' = [a \in Agents |-> IF a = p THEN "tools"
                                ELSE IF a \in calls THEN "called" ELSE stage[a]]
  /\ parent' = [a \in Agents |-> IF a \in calls THEN p ELSE parent[a]]
  /\ depth' = [a \in Agents |-> IF a \in calls THEN depth[p] + 1 ELSE depth[a]]
  /\ UNCHANGED <<value, waiters, doomed>>

\* guarded_invoke reaches the semaphore: a free permit is taken at once,
\* otherwise the task waits.
Enter(c) ==
  LET d == Pool(depth[c]) IN
  /\ stage[c] = "called" /\ c \notin doomed
  /\ \/ /\ ~Locked(d)
        /\ value' = [value EXCEPT ![d] = @ - 1]
        /\ stage' = [stage EXCEPT ![c] = "thinking"]
        /\ waiters' = waiters
     \/ /\ Locked(d)
        /\ waiters' = [waiters EXCEPT ![d] = Append(@, c)]
        /\ stage' = [stage EXCEPT ![c] = "waiting"]
        /\ value' = value
  /\ UNCHANGED <<parent, depth, doomed>>

\* Mutation: the turn's other calls are left running.
BadArgumentsAlone(c) ==
  /\ stage[c] = "called" /\ c \notin doomed
  /\ stage' = [stage EXCEPT ![c] = "raised"]
  /\ UNCHANGED <<parent, depth, value, waiters, doomed>>

\* The arguments do not parse: the call raises before it takes a permit, and
\* the SDK cancels the turn's other calls.
BadArguments(c) ==
  /\ stage[c] = "called" /\ c \notin doomed
  /\ stage' = [stage EXCEPT ![c] = "raised"]
  /\ doomed' = doomed \cup (LiveChildren(parent[c]) \ {c})
  /\ UNCHANGED <<parent, depth, value, waiters>>

\* A waiter that was handed a permit runs its agent.
Start(c) ==
  LET d == Pool(depth[c]) IN
  /\ stage[c] = "granted" /\ c \notin doomed
  /\ MoveAndWake(c, "thinking", d, value[d])
  /\ Withdraw(c, d)
  /\ UNCHANGED <<parent, depth, doomed>>

\* Every call of the turn came back with a result: the next turn.
Resume(p) ==
  /\ stage[p] = "tools" /\ p \notin doomed
  /\ \A c \in Children(p) : stage[c] \in {"returned", "failed"}
  /\ stage' = [stage EXCEPT ![p] = "thinking"]
  /\ UNCHANGED <<parent, depth, value, waiters, doomed>>

\* Mutations: a failed subagent keeps its permit; a permit goes back to the
\* count without anybody being woken.
EndLeaking(a, how) ==
  /\ IF a = Root \/ how = "failed"
     THEN stage' = [stage EXCEPT ![a] = how] /\ value' = value
     ELSE LET d == Pool(depth[a]) IN MoveAndWake(a, how, d, value[d] + 1)
  /\ UNCHANGED <<parent, depth, waiters>>
EndUnannounced(a, how) ==
  /\ stage' = [stage EXCEPT ![a] = how]
  /\ value' = IF a = Root THEN value ELSE [value EXCEPT ![Pool(depth[a])] = @ + 1]
  /\ UNCHANGED <<parent, depth, waiters>>

\* The agent's run is over; a subagent gives its permit back.
End(a, how) ==
  /\ IF a = Root THEN /\ stage' = [stage EXCEPT ![a] = how]
                      /\ value' = value
     ELSE LET d == Pool(depth[a]) IN MoveAndWake(a, how, d, value[d] + 1)
  /\ UNCHANGED <<parent, depth, waiters>>

Return(a) ==
  /\ stage[a] = "thinking" /\ a \notin doomed
  /\ End(a, "returned")
  /\ UNCHANGED doomed

\* runner.run raised: retries exhausted, refused, out of turns, an error that
\* is not retriable, or one of its tool calls raised.
Fail(a) ==
  /\ a \notin doomed
  /\ \/ stage[a] = "thinking"
     \/ stage[a] = "tools" /\ \E c \in Children(a) : stage[c] = "raised"
  /\ End(a, "failed")
  /\ UNCHANGED doomed

\* The root's task is cancelled from outside.
CancelRoot ==
  /\ stage[Root] \in Running /\ Root \notin doomed
  /\ doomed' = doomed \cup {Root}
  /\ UNCHANGED <<stage, parent, depth, value, waiters>>

\* A cancelled task unwinds: it leaves the queue, hands on a permit it had
\* been handed, or gives back the one it held; and its own calls are cancelled.
Unwind(a) ==
  /\ a \in doomed /\ stage[a] \in Live
  /\ doomed' = (doomed \ {a}) \cup LiveChildren(a)
  /\ \/ /\ stage[a] = "called"
        /\ stage' = [stage EXCEPT ![a] = "cancelled"]
        /\ UNCHANGED <<parent, depth, value, waiters>>
     \/ /\ stage[a] \in Running
        /\ End(a, "cancelled")
     \/ LET d == Pool(depth[a]) IN
        /\ \/ /\ stage[a] = "waiting"
              /\ stage' = [stage EXCEPT ![a] = "cancelled"]
              /\ value' = value
           \/ /\ stage[a] = "granted"
              /\ MoveAndWake(a, "cancelled", d, value[d] + 1)
        /\ Withdraw(a, d)
        /\ UNCHANGED <<parent, depth>>

-----------------------------------------------------------------------------
TreeNext ==
  \/ \E a \in Agents, calls \in SUBSET Invocations : Delegate(a, calls)
  \/ \E c \in Invocations : Enter(c) \/ BadArguments(c) \/ Start(c)
  \/ \E a \in Agents : Resume(a) \/ Return(a) \/ Fail(a) \/ Unwind(a)
  \/ CancelRoot

TreeSpec == TreeInit /\ [][TreeNext]_treeVars

-----------------------------------------------------------------------------
TreeTypeOK ==
  /\ stage \in [Agents -> Stages]
  /\ parent \in [Agents -> Agents \cup {NoAgent}]
  /\ depth \in [Agents -> 0..MaximumDepth]
  /\ value \in [Depths -> 0..MaximumParallel]
  /\ waiters \in [Depths -> Seq(Invocations)]
  /\ doomed \subseteq Agents

Holders(d) == {c \in Invocations : depth[c] = d /\ stage[c] \in Running \cup {"granted"}}

\* No way of ending, failing or being cancelled leaks or doubles a permit, so
\* at most MaximumParallel subagents of a depth ever run together.
PermitsConserved ==
  \A d \in Depths : value[d] + Cardinality(Holders(d)) = MaximumParallel

\* A permit is never left unused while somebody waits for it: a task that has
\* been handed one, and hands the next on when it resumes or is cancelled, is
\* ahead in the queue.
NoLostWakeup ==
  \A d \in Depths : (value[d] > 0 /\ Pending(d) # {}) =>
    \E c \in Invocations : depth[c] = d /\ stage[c] = "granted"

\* Subagents run inside their parent's turn: while a child is alive its parent
\* is waiting for it, or the child has been cancelled.
NoStrays ==
  \A c \in Invocations :
    (stage[c] \in Live /\ c \notin doomed) => stage[parent[c]] = "tools"
=============================================================================
