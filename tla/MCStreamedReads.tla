--------------------------- MODULE MCStreamedReads --------------------------
EXTENDS StreamedReads, TLC

CONSTANTS c1, c2

Text(n) == [good |-> TRUE, size |-> n, path |-> <<>>]
Unusable(n) == [good |-> FALSE, size |-> n, path |-> <<>>]
File(p) == [good |-> TRUE, size |-> 1, path |-> p]

(* A line of git blame. *)
Record(commit, author) ==
  <<[kind |-> "header", value |-> commit], [kind |-> "author", value |-> author],
    [kind |-> "other", value |-> 0], [kind |-> "summary", value |-> commit],
    [kind |-> "content", value |-> 0]>>

UpTo(n, steps) == UNION {[1..k -> steps] : k \in 0..n}

(* One call, of each tool, whose process writes and ends as it likes. *)
Asks(tools, scripts) ==
  {[tool |-> t, script |-> s, code |-> code, unborn |-> FALSE] :
      t \in tools, s \in scripts, code \in 0..2}

Alone ==
  Asks({"glob", "log"}, UpTo(3, {Text(1), Unusable(1), Chunk}))
  \cup Asks({"grep"}, {<<Chunk, Chunk>>, <<Text(1), Chunk, Chunk, Unusable(1), Text(1)>>})
  \cup {[a EXCEPT !.unborn = TRUE] : a \in Asks({"log"}, UpTo(1, {Chunk}))}
  \cup Asks({"show", "text"}, UpTo(3, {Text(1), Text(3), Unusable(2)}))
  \cup Asks({"window"}, UpTo(3, {Text(1), Text(3)}) \cup {<<Chunk, Text(1), Unusable(1), Text(1), Text(1)>>})
  \cup Asks({"blame"}, {<<>>, <<Chunk>>, Record(1, 1) \o Record(2, 1) \o Record(1, 1),
                          Record(1, 1) \o <<Chunk>> \o SubSeq(Record(2, 2), 1, 4)})

(* Two calls of view_repo_tree, between which the work tree may change. *)
Listings ==
  {<<>>, <<Chunk>>,
   <<File(<<1, 1, 1>>), File(<<1, 1, 2>>)>>,
   <<File(<<1, 1>>), File(<<2>>)>>,
   <<File(<<1, 1, 1>>), File(<<1, 1, 2>>), File(<<1, 1, 3>>), File(<<2>>)>>}

MCAsked ==
  {c1 :> a @@ c2 :> Nothing : a \in Alone}
  \cup {c1 :> a @@ c2 :> b : a, b \in {r \in Asks({"tree"}, Listings) : r.code \in {0, 2}}}
=============================================================================
