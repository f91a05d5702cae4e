--------------------------- MODULE StreamedReads ----------------------------
(***************************************************************************)
(* The code and git tools (src/engine/code, src/engine/git).  A call runs  *)
(* in a thread, starts ripgrep or git, and reads its output line by line,  *)
(* as far as it needs it, while a second thread empties its stderr         *)
(* (stream_subprocess_lines).  Pipes hold little: a process that finds one *)
(* full waits.  The agent may be cancelled while it awaits a call; the     *)
(* thread and the process know nothing of it.                              *)
(*                                                                         *)
(* A line is good if the tool can use it: a file that is still there, a    *)
(* record that parses, text without a NUL.  Decoding, the arguments of the *)
(* commands, and the confinement of paths are left out.                    *)
(*                                                                         *)
(* External: what a process writes, its exit code, that SIGTERM ends it,   *)
(* and that it has no children that keep its pipes open.                   *)
(***************************************************************************)
EXTENDS CodeViews

CONSTANTS
  Calls,
  Asked,         (* which tool is called, and what its process will do *)
  Capacity,      (* what a pipe holds *)
  MaxResults,    (* max_results, max_matches, max_commits *)
  TreeMaxPaths,  (* _TREE_MAX_PATHS *)
  Chunk,         (* what goes to stderr at once *)
  Nothing        (* no call, no result yet, an empty cache *)

ASSUME StreamedReadsAssumption ==
  /\ Capacity \in Nat \ {0} /\ MaxResults \in Nat \ {0}
  /\ TreeMaxPaths \in Nat /\ TreeMaxPaths > TreeMaxEntries

Tools == {"glob", "grep", "log", "show", "text", "tree", "window", "blame"}

(* What a process writes to stdout, and what blame reads there.            *)
TextLines == [good : BOOLEAN, size : Nat, path : Seq(Nat)]
BlameLines == [kind : {"header", "author", "summary", "content", "other"}, value : Nat]

(* The steps whose place is in S, up to each place.                        *)
Picked(steps, S) ==
  LET upTo[k \in 0..Len(steps)] ==
        IF k = 0 THEN <<>>
        ELSE IF k \in S THEN Append(upTo[k - 1], steps[k]) ELSE upTo[k - 1]
  IN  upTo

Those(steps, S) == Picked(steps, S)[Len(steps)]
Written(script) == Those(script, {i \in 1..Len(script) : script[i] # Chunk})

(* Of each call, its tool, and what its process will do.                   *)
ASSUME AskedAssumption ==
  \A a \in Asked, c \in Calls :
    a[c] # Nothing =>
      /\ a[c].tool \in Tools /\ a[c].code \in Nat /\ a[c].unborn \in BOOLEAN
      /\ a[c].script \in Seq((IF a[c].tool = "blame" THEN BlameLines ELSE TextLines) \cup {Chunk})
      /\ LET lines == Written(a[c].script)
         IN  /\ a[c].tool = "tree" => \A i \in 1..Len(lines) : lines[i].path # <<>>
             /\ a[c].tool = "blame" => Porcelain(lines)

VARIABLES
  asked,         (* of each call: tool, its arguments, and its process *)
  at,            (* where its thread is *)
  done,          (* how far the process is *)
  proc,          (* how it stands *)
  out, err,      (* lines in its pipes *)
  drain,         (* the thread on stderr *)
  kept,          (* what the tool has collected *)
  blame,         (* the variables of blame *)
  more,          (* has_more, truncated *)
  yielded,       (* some output was read *)
  result,
  awaited,       (* the agent still waits for the call *)
  tree           (* the cached listing *)

pipes == <<done, proc, out, err>>
collected == <<kept, blame, more, yielded>>
vars == <<asked, at, pipes, drain, collected, result, awaited, tree>>

Init ==
  /\ asked \in Asked
  /\ at = [c \in Calls |-> IF asked[c] = Nothing THEN "over" ELSE "asked"]
  /\ done = [c \in Calls |-> 0]
  /\ proc = [c \in Calls |-> "none"]
  /\ out = [c \in Calls |-> <<>>]
  /\ err = [c \in Calls |-> 0]
  /\ drain = [c \in Calls |-> "none"]
  /\ kept = [c \in Calls |-> <<>>]
  /\ blame = [c \in Calls |-> NoBlame]
  /\ more = [c \in Calls |-> FALSE]
  /\ yielded = [c \in Calls |-> FALSE]
  /\ result = [c \in Calls |-> Nothing]
  /\ awaited = [c \in Calls |-> TRUE]
  /\ tree = Nothing

Tool(c) == asked[c].tool
Script(c) == asked[c].script      (* lines, and what goes to stderr *)
Floor(c) == IF Tool(c) \in {"glob", "grep", "tree"} THEN 2 ELSE 1
Go(c, there) == at' = [at EXCEPT ![c] = there]
Ended(c) == proc[c] \in {"exited", "killed"}

-----------------------------------------------------------------------------
(* The process.                                                            *)

Popen(c) ==
  /\ at[c] = "asked"
  /\ Tool(c) = "tree" => tree = Nothing
  /\ Go(c, "reading")
  /\ proc' = [proc EXCEPT ![c] = "running"]
  /\ drain' = [drain EXCEPT ![c] = "running"]
  /\ UNCHANGED <<asked, done, out, err, collected, result, awaited, tree>>

Write(c) ==
  /\ proc[c] = "running" /\ done[c] < Len(Script(c))
  /\ LET next == Script(c)[done[c] + 1]
     IN  \/ /\ next = Chunk /\ err[c] < Capacity
            /\ err' = [err EXCEPT ![c] = @ + 1]
            /\ UNCHANGED out
         \/ /\ next # Chunk /\ Len(out[c]) < Capacity
            /\ out' = [out EXCEPT ![c] = Append(@, next)]
            /\ UNCHANGED err
  /\ done' = [done EXCEPT ![c] = @ + 1]
  /\ UNCHANGED <<asked, at, proc, drain, collected, result, awaited, tree>>

Exits(c) ==
  /\ proc[c] = "running" /\ done[c] = Len(Script(c))
  /\ proc' = [proc EXCEPT ![c] = "exited"]
  /\ UNCHANGED <<asked, at, done, out, err, drain, collected, result, awaited, tree>>

Dies(c) ==
  /\ proc[c] = "signalled"
  /\ proc' = [proc EXCEPT ![c] = "killed"]
  /\ UNCHANGED <<asked, at, done, out, err, drain, collected, result, awaited, tree>>

-----------------------------------------------------------------------------
(* The threads.                                                            *)

\* Mutation: stderr is read when stdout has ended.
DrainAfterwards(c) ==
  /\ drain[c] = "running" /\ at[c] # "reading"
  /\ \/ /\ err[c] > 0
        /\ err' = [err EXCEPT ![c] = 0]
        /\ UNCHANGED drain
     \/ /\ err[c] = 0 /\ Ended(c)
        /\ drain' = [drain EXCEPT ![c] = "done"]
        /\ UNCHANGED err
  /\ UNCHANGED <<asked, at, done, proc, out, collected, result, awaited, tree>>

(* _drain_stderr: all of it is read, not all of it kept. *)
DrainStderr(c) ==
  /\ drain[c] = "running"
  /\ \/ /\ err[c] > 0
        /\ err' = [err EXCEPT ![c] = 0]
        /\ UNCHANGED drain
     \/ /\ err[c] = 0 /\ Ended(c)
        /\ drain' = [drain EXCEPT ![c] = "done"]
        /\ UNCHANGED err
  /\ UNCHANGED <<asked, at, done, proc, out, collected, result, awaited, tree>>

(* What a tool does with a line, given those it has kept.                  *)

\* Mutation: the loop ends at the limit, whether or not there is more.
LimitedAtCap(lines, line) ==
  IF ~line.good THEN "skip" ELSE IF Len(lines) + 1 < MaxResults THEN "keep" ELSE "last"

(* glob and grep skip what they cannot use: a file that is gone by now, an *)
(* event that is no match.  They stop one past their limit.                *)
Limited(lines, line) ==
  IF ~line.good THEN "skip" ELSE IF Len(lines) < MaxResults THEN "keep" ELSE "more"

LogVerdict(lines, line) == Limited(lines, line)

Sizes(lines) == [i \in 1..Len(lines) |-> lines[i].size]

(* A patch stops at the budget. *)
CollectCapped(lines, line) ==
  IF Total(Sizes(lines)) + line.size > Budget THEN "more" ELSE "keep"

(* git show: the commit, then its patch. *)
ShowVerdict(lines, line) ==
  IF lines # <<>> THEN CollectCapped(Tail(lines), line)
  ELSE IF line.good THEN "keep" ELSE "refuse"

TreeVerdict(lines, line) == IF Len(lines) + 1 < TreeMaxPaths THEN "keep" ELSE "last"

RejectBinary(lines, line) == IF line.good THEN "keep" ELSE "refuse"

Verdict(tool, lines, line) ==
  CASE tool \in {"glob", "grep"} -> Limited(lines, line)
    [] tool = "log" -> LogVerdict(lines, line)
    [] tool = "text" -> CollectCapped(lines, line)
    [] tool = "show" -> ShowVerdict(lines, line)
    [] tool = "tree" -> TreeVerdict(lines, line)
    [] tool = "window" -> RejectBinary(lines, line)
    [] tool = "blame" -> "skip"

ReadLine(c) ==
  /\ at[c] = "reading" /\ out[c] # <<>>
  /\ LET line == Head(out[c])
         verdict == Verdict(Tool(c), kept[c], line)
     IN  /\ kept' = [kept EXCEPT ![c] = IF verdict \in {"keep", "last"} THEN Append(@, line) ELSE @]
         /\ blame' = [blame EXCEPT ![c] = IF Tool(c) = "blame" THEN BlameStep(@, line) ELSE @]
         /\ more' = [more EXCEPT ![c] = verdict = "more"]
         /\ Go(c, IF verdict = "refuse" THEN "refusing"
                  ELSE IF verdict \in {"more", "last"} THEN "stopping" ELSE "reading")
  /\ out' = [out EXCEPT ![c] = Tail(@)]
  /\ yielded' = [yielded EXCEPT ![c] = TRUE]
  /\ UNCHANGED <<asked, done, proc, err, drain, result, awaited, tree>>

(* The generator goes on behind its loop, and waits for the process. *)
EndOfOutput(c) ==
  /\ at[c] = "reading" /\ out[c] = <<>> /\ Ended(c)
  /\ Go(c, "joining")
  /\ UNCHANGED <<asked, pipes, drain, collected, result, awaited, tree>>

(* The tool stops early and closes the generator. *)
Terminate(c) ==
  /\ at[c] \in {"stopping", "refusing"}
  /\ proc' = [proc EXCEPT ![c] = IF @ = "running" THEN "signalled" ELSE @]
  /\ Go(c, IF at[c] = "stopping" THEN "closing" ELSE "failing")
  /\ UNCHANGED <<asked, done, out, err, drain, collected, result, awaited, tree>>

Failure == [failed |-> TRUE, lines |-> <<>>, more |-> FALSE]
Listed(lines, flag) == [failed |-> FALSE, lines |-> lines, more |-> flag]

(* A process that failed without a word makes the call fail; one that      *)
(* failed later does not.  git log asks whether there are commits at all.  *)
(* A show without its first line fails.                                    *)
Outcome(c) ==
  IF at[c] = "failing" THEN Failure
  ELSE IF at[c] = "joining" /\ asked[c].code >= Floor(c) /\ ~yielded[c]
       THEN IF Tool(c) = "log" /\ asked[c].unborn THEN Listed(<<>>, FALSE) ELSE Failure
  ELSE IF Tool(c) = "show" /\ kept[c] = <<>> THEN Failure
  ELSE IF Tool(c) = "blame" THEN Listed(blame[c].lines, FALSE)
  ELSE Listed(kept[c], more[c])

Join(c) ==
  /\ at[c] \in {"joining", "closing", "failing"} /\ Ended(c) /\ drain[c] = "done"
  /\ result' = [result EXCEPT ![c] = Outcome(c)]
  /\ tree' = IF Tool(c) = "tree" /\ ~Outcome(c).failed THEN Outcome(c) ELSE tree
  /\ Go(c, "over")
  /\ UNCHANGED <<asked, pipes, drain, collected, awaited>>

Cached(c) ==
  /\ at[c] = "asked" /\ Tool(c) = "tree" /\ tree # Nothing
  /\ result' = [result EXCEPT ![c] = tree]
  /\ Go(c, "over")
  /\ UNCHANGED <<asked, pipes, drain, collected, awaited, tree>>

Abandon(c) ==
  /\ awaited[c] /\ at[c] # "over"
  /\ awaited' = [awaited EXCEPT ![c] = FALSE]
  /\ UNCHANGED <<asked, at, pipes, drain, collected, result, tree>>

Process(c) == Write(c) \/ Exits(c) \/ Dies(c)

Reader(c) ==
  \/ Popen(c) \/ Cached(c) \/ ReadLine(c) \/ EndOfOutput(c) \/ Terminate(c) \/ Join(c)

Next == \E c \in Calls : Process(c) \/ DrainStderr(c) \/ Reader(c) \/ Abandon(c)

Spec == Init /\ [][Next]_vars

(* Threads and processes run. *)
FairSpec ==
  Spec /\ \A c \in Calls : WF_vars(Process(c)) /\ WF_vars(DrainStderr(c)) /\ WF_vars(Reader(c))

-----------------------------------------------------------------------------
(* Properties.                                                             *)

(* Every call comes to its end with its process and its threads, however   *)
(* much is written to stderr, wherever the tool stops reading, and also if *)
(* nobody waits for it any more.                                           *)
CallsEnd ==
  \A c \in Calls : <>[](/\ at[c] = "over" /\ proc[c] \notin {"running", "signalled"}
                        /\ drain[c] # "running")

Output(c) == Written(Script(c))
Good(lines) == {i \in 1..Len(lines) : lines[i].good}
Usable(c) == Those(Output(c), Good(Output(c)))

(* What the record that ends at each content line says. *)
Records(lines) ==
  [i \in 1..Len(lines) |->
     [commit |-> LastOf(lines, "header", i),
      about |-> [author |-> LastOf(lines, "author", i), summary |-> LastOf(lines, "summary", i)]]]

Contents(lines) == {i \in 1..Len(lines) : lines[i].kind = "content"}
Blamed(lines) == Those(Records(lines), Contents(lines))

FirstOf(lines, n) == SubSeq(lines, 1, Min({n, Len(lines)}))

\* A listing that some call of the tree found.
Found(r) ==
  \E d \in Calls : /\ asked[d] # Nothing /\ Tool(d) = "tree"
                   /\ r.lines = FirstOf(Output(d), TreeMaxPaths)

ResultIsTrue(c, r) ==
  LET all == Output(c)
  IN  CASE Tool(c) \in {"glob", "grep", "log"} ->
             /\ r.failed <=> all = <<>> /\ asked[c].code >= Floor(c)
                               /\ ~(Tool(c) = "log" /\ asked[c].unborn)
             /\ ~r.failed => /\ r.lines = FirstOf(Usable(c), MaxResults)
                             /\ r.more <=> Len(Usable(c)) > MaxResults
        [] Tool(c) = "tree" -> ~r.failed => Found(r)
        [] Tool(c) = "window" -> ~r.failed => r.lines = all /\ Usable(c) = all
        [] Tool(c) = "blame" -> ~r.failed => r.lines = Blamed(all)
        [] Tool(c) \in {"text", "show"} ->
             ~r.failed =>
               LET body == IF Tool(c) = "text" THEN all ELSE Tail(all)
                   shown == IF Tool(c) = "text" THEN r.lines ELSE Tail(r.lines)
               IN  /\ IsPrefix(shown, body) /\ Total(Sizes(shown)) <= Budget
                   /\ r.more <=> Total(Sizes(body)) > Budget
                   /\ r.more => Total(Sizes(FirstOf(body, Len(shown) + 1))) > Budget

(* A result holds the first of what the process would have written, as     *)
(* many as the limit or the budget allows, and says so exactly if there    *)
(* was more; it is a failure only if there was no output and a failing     *)
(* exit, or the output cannot be shown.  A tree may be an earlier one, and *)
(* a line of blame names the commit, author and summary of its own record. *)
ResultsAreTrue ==
  \A c \in Calls : result[c] # Nothing => ResultIsTrue(c, result[c])

(* An agent that reads a file window by window, each from the line behind  *)
(* the last one shown, sees every line just once: a window within the file *)
(* is never empty, leaves out no line before its end, and says so if it    *)
(* ends before its limit or cuts a line.                                   *)
WindowsTile(lines) ==
  \A offset \in 1..Len(lines), limit \in 1..Len(lines) :
    LET w == RenderNumberedWindow(lines, offset, limit)
    IN  /\ w.start = offset /\ w.shown = offset..w.end
        /\ w.truncated <=> \/ w.end < Min({offset + limit - 1, Len(lines)})
                           \/ \E k \in w.shown : lines[k] > LineCap

PathsOf(lines) == {lines[i].path : i \in DOMAIN lines}

(* The overview has every visible entry of a work tree, or the marker of   *)
(* the entry cap, and marks each directory it does not open.               *)
OverviewOf(paths, lines) ==
  LET shown == BuildTree(PathsOf(lines))
  IN  \/ shown.entryCapped
      \/ \A p \in paths : \/ p \in shown.entries
                         \/ /\ FirstOf(p, TreeMaxDepth - 1) \in shown.depthCapped
                            /\ Visible({p}) \subseteq shown.entries

(* Whatever of a file or a work tree is not in a view, the view says so:   *)
(* windows tile the file, and an overview is one of the work tree as some  *)
(* call found it, as long as the listing was not cut at its own limit.     *)
ViewsAreWholeOrMarked ==
  \A c \in Calls :
    result[c] # Nothing /\ ~result[c].failed =>
      /\ Tool(c) = "window" => WindowsTile(Sizes(result[c].lines))
      /\ Tool(c) = "tree" /\ Len(result[c].lines) < TreeMaxPaths =>
           \E d \in Calls : /\ asked[d] # Nothing /\ Tool(d) = "tree"
                            /\ OverviewOf(PathsOf(Output(d)), result[c].lines)
=============================================================================
