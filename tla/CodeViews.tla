----------------------------- MODULE CodeViews ------------------------------
(***************************************************************************)
(* What an agent is shown of a text file, of a work tree and of the        *)
(* history of a line: the numbered window (src/engine/code/_textwindow.py),*)
(* the directory tree (_build_tree of src/engine/code/code_repo.py) and    *)
(* the lines of git blame (blame of src/engine/git/git_repo.py).           *)
(*                                                                         *)
(* A line of a file is its length.  A path is the sequence of its names,   *)
(* which are numbers in alphabetical order.  A line of git blame is the    *)
(* header of a record with its commit, the author, the summary, or the     *)
(* content that ends the record; 0 is no commit and no text.               *)
(***************************************************************************)
EXTENDS Integers, FiniteSets, SequencesExt

CONSTANTS
  LineCap,          (* LINE_CHAR_CAP *)
  Budget,           (* RESPONSE_CHAR_BUDGET *)
  TreeMaxDepth,     (* _TREE_MAX_DEPTH *)
  TreeMaxEntries    (* _TREE_MAX_ENTRIES *)

(* The number of a line and the marker of a truncated one take a unit.     *)
ASSUME CodeViewsAssumption ==
  /\ LineCap \in Nat /\ Budget \in Nat /\ Budget >= LineCap + 2
  /\ TreeMaxDepth \in Nat /\ TreeMaxDepth > 1 /\ TreeMaxEntries \in Nat

\* The sums of ever more of the numbers.
Sums(numbers) ==
  LET upTo[k \in 0..Len(numbers)] == IF k = 0 THEN 0 ELSE upTo[k - 1] + numbers[k]
  IN  upTo

Total(numbers) == Sums(numbers)[Len(numbers)]

-----------------------------------------------------------------------------
(* render_numbered_window.                                                 *)

EntrySize(length) == 1 + (IF length > LineCap THEN LineCap + 1 ELSE length)

\* Mutation: a line that does not fit is left out, and shorter ones follow.
FitsAlone(lines, offset, k) ==
  Total([i \in 1..(k - offset) |->
           IF EntrySize(lines[offset + i - 1]) <= EntrySize(lines[k])
           THEN EntrySize(lines[offset + i - 1]) + 1 ELSE 0])
    + EntrySize(lines[k]) <= Budget

(* Line k fits behind those of the window before it. *)
Fits(lines, offset, k) ==
  Total([i \in 1..(k - offset) |-> EntrySize(lines[offset + i - 1]) + 1])
    + EntrySize(lines[k]) <= Budget

RenderNumberedWindow(lines, offset, limit) ==
  LET window == offset..Min({offset + limit - 1, Len(lines)})
      shown == {k \in window : Fits(lines, offset, k)}
  IN  [shown |-> shown,
       start |-> IF shown = {} THEN 0 ELSE Min(shown),
       end |-> IF shown = {} THEN 0 ELSE Max(shown),
       total |-> Len(lines),
       truncated |-> shown # window \/ \E k \in shown : lines[k] > LineCap]

-----------------------------------------------------------------------------
(* _build_tree.                                                            *)

(* The directories and files above the depth cap. *)
Visible(paths) ==
  UNION {{SubSeq(p, 1, d) : d \in 1..Min({Len(p), TreeMaxDepth - 1})} : p \in paths}

IsDir(paths, e) == \E p \in paths : IsStrictPrefix(e, p)

(* The order of the walk: an entry before what is in it, directories       *)
(* before files, each by name.                                             *)
WalkedBefore(paths, a, b) ==
  \/ IsStrictPrefix(a, b)
  \/ ~IsPrefix(b, a)
     /\ LET i == Min({k \in 1..Min({Len(a), Len(b)}) : a[k] # b[k]})
            dirA == IsDir(paths, SubSeq(a, 1, i))
            dirB == IsDir(paths, SubSeq(b, 1, i))
        IN  IF dirA = dirB THEN a[i] < b[i] ELSE dirA

(* Shown are the first entries of the walk, up to the cap. *)
BuildTree(paths) ==
  LET all == Visible(paths)
      entries == {e \in all : Cardinality({a \in all : WalkedBefore(paths, a, e)}) < TreeMaxEntries}
  IN  [entries |-> entries,
       depthCapped |-> {e \in entries : Len(e) = TreeMaxDepth - 1 /\ IsDir(paths, e)},
       entryCapped |-> Cardinality(all) > TreeMaxEntries]

-----------------------------------------------------------------------------
(* The value of the last line of a kind, and the kind of the last line     *)
(* that blame looks at, up to place i.                                     *)
LastOf(lines, kind, i) ==
  LET those == {k \in 1..i : lines[k].kind = kind}
  IN  IF those = {} THEN 0 ELSE lines[Max(those)].value

LastMark(lines, i) ==
  LET marks == {k \in 1..i : lines[k].kind # "other"}
  IN  IF marks = {} THEN "content" ELSE lines[Max(marks)].kind

(* External: what git blame --line-porcelain writes.  A record is a header,*)
(* its author, its summary and its content, in this order, with lines that *)
(* blame does not look at between them; a commit has one author.           *)
Porcelain(lines) ==
  LET before == [header |-> "content", author |-> "header", summary |-> "author",
                 content |-> "summary"]
      marks == {i \in 1..Len(lines) : lines[i].kind # "other"}
  IN  /\ \A i \in marks : /\ LastMark(lines, i - 1) = before[lines[i].kind]
                          /\ lines[i].kind # "content" => lines[i].value # 0
      /\ \A i, j \in marks :
           /\ lines[i].kind = "author" /\ lines[j].kind = "author"
           /\ LastOf(lines, "header", i) = LastOf(lines, "header", j)
           => lines[i].value = lines[j].value

(* The loop of blame over git blame --line-porcelain: its variables, and   *)
(* what it does with a line.                                               *)

NoBlame == [lines |-> <<>>, commit |-> 0, author |-> 0, summary |-> 0, known |-> <<>>]

KnownOf(b) ==
  IF b.commit \in DOMAIN b.known THEN b.known[b.commit]
  ELSE [author |-> b.author, summary |-> b.summary]

Learned(known, commit, about) ==
  [x \in DOMAIN known \cup {commit} |-> IF x = commit THEN about ELSE known[x]]

(* The author of a commit is kept as it was first seen, its summary as it  *)
(* was seen last.                                                          *)
BlameStep(b, line) ==
  CASE line.kind = "content" ->
         [b EXCEPT !.lines = IF b.commit = 0 THEN @
                             ELSE Append(@, [commit |-> b.commit, about |-> KnownOf(b)]),
                   !.commit = 0, !.author = 0, !.summary = 0]
    [] line.kind = "header" -> [b EXCEPT !.commit = line.value]
    [] line.kind = "author" /\ b.commit # 0 ->
         [b EXCEPT !.author = line.value,
                   !.known = IF b.commit \in DOMAIN @ THEN @
                             ELSE Learned(@, b.commit, [author |-> line.value,
                                                        summary |-> b.summary])]
    [] line.kind = "summary" /\ b.commit # 0 ->
         [b EXCEPT !.summary = line.value,
                   !.known = Learned(@, b.commit,
                                     [author |-> IF KnownOf(b).author = 0 THEN b.author
                                                 ELSE KnownOf(b).author,
                                      summary |-> line.value])]
    [] OTHER -> b
=============================================================================
