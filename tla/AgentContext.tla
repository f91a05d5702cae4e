---------------------------- MODULE AgentContext ----------------------------
(***************************************************************************)
(* The conversation history one agent owns (engine/agents/agent_context.py)*)
(* as a sequence of rows, and the pure functions the runner applies to it: *)
(* rendering, trimming an incomplete tool turn, and choosing what to       *)
(* compact.  Text, names and arguments are abstracted away: a row says who *)
(* spoke, which tool calls it makes, which call it answers, and whether it *)
(* has been replaced by a summary.                                         *)
(*                                                                         *)
(* The code walks the list once with a running set of open calls; here the *)
(* same facts are stated about positions.  ContextScan restates the loops  *)
(* and is compared with these definitions on every short history.          *)
(***************************************************************************)
EXTENDS Naturals, Sequences, FiniteSets

CONSTANTS
  CallIds,   (* the tool-call ids a run may meet: finitely many        *)
  NoCall,    (* tool_call_id = None                                    *)
  KeepText,  (* text_message_compaction_keep_last_messages             *)
  KeepTools  (* tool_call_compaction_keep_last_turns                   *)

ASSUME ContextAssumption ==
  /\ IsFiniteSet(CallIds)
  /\ NoCall \notin CallIds
  /\ KeepText \in Nat
  /\ KeepTools \in Nat

Roles == {"system", "user", "assistant", "tool"}

Rows == [role : Roles, calls : SUBSET CallIds,
         answers : CallIds \cup {NoCall}, compacted : BOOLEAN]

TextRow(who)  == [role |-> who, calls |-> {}, answers |-> NoCall, compacted |-> FALSE]
CallRow(cs)   == [role |-> "assistant", calls |-> cs, answers |-> NoCall, compacted |-> FALSE]
ResultRow(c)  == [role |-> "tool", calls |-> {}, answers |-> c, compacted |-> FALSE]

IsCallRow(row) == row.role = "assistant" /\ row.calls # {}
IsToolRelated(row) == row.role = "tool" \/ IsCallRow(row)

-----------------------------------------------------------------------------
(* What the provider is sent.  A compacted row becomes plain text: a       *)
(* compacted tool result is an assistant message, so it answers nothing.   *)

RenderRow(row) ==
  IF ~row.compacted THEN row
  ELSE IF row.role = "tool" THEN TextRow("assistant")
  ELSE TextRow(row.role)

Render(items) == [i \in 1..Len(items) |-> RenderRow(items[i])]

-----------------------------------------------------------------------------
(* Call/result pairing.  Compacted rows take no part in it.                *)

Makes(row, c) == ~row.compacted /\ IsCallRow(row) /\ c \in row.calls
Answers(row, c) == ~row.compacted /\ row.role = "tool" /\ row.answers = c

\* c is called within the first p rows and not answered after that call.
OpenAt(items, p, c) ==
  \E i \in 1..p : Makes(items[i], c) /\ \A j \in (i+1)..p : ~Answers(items[j], c)

\* Row j answers a call that is not open when the row arrives.
OrphanAt(items, j) ==
  /\ ~items[j].compacted
  /\ items[j].role = "tool"
  /\ \A c \in CallIds : items[j].answers = c => ~OpenAt(items, j - 1, c)

\* The first p rows render to a message array the provider accepts.
ConsistentAt(items, p) ==
  /\ \A c \in CallIds : ~OpenAt(items, p, c)
  /\ \A j \in 1..p : ~OrphanAt(items, j)

Consistent(items) == ConsistentAt(items, Len(items))

\* Mutations: nothing is trimmed, or the whole attempt is.
KeptLengthAll(items, floor) == Len(items)
KeptLengthFloor(items, floor) == floor

\* How many rows trim_incomplete_tool_turn keeps: the longest consistent
\* prefix not below floor, or everything when there is none.
KeptLength(items, floor) ==
  LET cuts == {p \in floor..Len(items) : ConsistentAt(items, p)}
  IN  IF cuts = {} THEN Len(items)
      ELSE CHOOSE p \in cuts : \A q \in cuts : q <= p

-----------------------------------------------------------------------------
(* Compaction units: single text rows, and whole blocks of tool rows.      *)

TextPositions(items) ==
  {i \in 1..Len(items) : /\ ~items[i].compacted
                         /\ items[i].role # "system"
                         /\ ~IsToolRelated(items[i])}

\* Rows the grouping loop looks at, and those that can belong to a block.
Grouped(items) == {i \in 1..Len(items) : ~items[i].compacted /\ items[i].role # "system"}
InBlock(row) == IsCallRow(row) \/ (row.role = "tool" /\ row.answers # NoCall)

\* Mutation: every call row starts a block, so parallel calls are split.
StartsBlockAtEachCall(items, i) == i \in Grouped(items) /\ IsCallRow(items[i])

\* A block starts at a call row whose predecessor is not itself a call row.
StartsBlock(items, i) ==
  /\ i \in Grouped(items)
  /\ IsCallRow(items[i])
  /\ \A j \in Grouped(items) :
       (j < i /\ \A k \in (j+1)..(i-1) : k \notin Grouped(items)) => ~IsCallRow(items[j])

Block(items, s) ==
  {k \in Grouped(items) :
     /\ k >= s
     /\ \A j \in Grouped(items) \cap (s..k) :
          InBlock(items[j]) /\ (j > s => ~StartsBlock(items, j))}

BlockStarts(items) == {i \in 1..Len(items) : StartsBlock(items, i)}

\* The oldest members of S once the newest `keep` are set aside.
AllButNewest(S, keep) == {i \in S : Cardinality({j \in S : j > i}) >= keep}

\* The units one compaction pass works through, each a set of positions.
CompactionUnits(items) ==
  {{i} : i \in AllButNewest(TextPositions(items), KeepText)}
    \cup {Block(items, s) : s \in AllButNewest(BlockStarts(items), KeepTools)}

\* Mutation: a summary is stored as an assistant message whoever spoke.
CompactRowsAsAssistant(items, unit) ==
  [i \in 1..Len(items) |->
     IF i \in unit THEN [items[i] EXCEPT !.compacted = TRUE, !.role = "assistant"] ELSE items[i]]

\* Commit one unit's summaries.
CompactRows(items, unit) ==
  [i \in 1..Len(items) |-> IF i \in unit THEN [items[i] EXCEPT !.compacted = TRUE] ELSE items[i]]
=============================================================================
