------------------------------ MODULE Backfill ------------------------------
(***************************************************************************)
(* The incremental backfill of a project (src/halo_cli/backfill.py):       *)
(* observations are fetched page by page and appended to a store file; a   *)
(* cursor file keeps the newest start time seen, from which the next run   *)
(* goes on.                                                                *)
(*                                                                         *)
(* Several runs of one project may overlap, and each can be killed at any  *)
(* point.  New observations arrive while a run reads.                      *)
(*                                                                         *)
(* External: the service lists the newest observation first, numbers the   *)
(* pages of the list as it is at each request, and keeps what it has.      *)
(* Buffered rows reach the file in whole lines, at any time, and what is   *)
(* buffered is lost when the process is killed.                            *)
(***************************************************************************)
EXTENDS Integers, FiniteSets, SequencesExt

CONSTANTS
  Runs,
  PageSize,     (* limit *)
  Attempts,     (* attempts of _fetch_page *)
  MaxPages,     (* max_pages; 0 is no limit *)
  Found,        (* the observations there can be at first: their start times in order *)
  MaxSource,    (* bound: observations *)
  NoCursor      (* no cursor file *)

ASSUME BackfillAssumption ==
  /\ PageSize \in Nat \ {0} /\ Attempts \in Nat \ {0} /\ MaxPages \in Nat
  /\ MaxSource \in Nat /\ NoCursor \notin Nat
  /\ \A found \in Found :
       /\ found \in Seq(Nat \ {0})
       /\ \A i, k \in 1..Len(found) : i <= k => found[i] <= found[k]

VARIABLES
  source,       (* the observations of the service in order of arrival *)
  late,         (* history: those that came with no later start than an earlier one *)
  store,        (* rows of the store file: places in source *)
  cursor,       (* the cursor file; 0 is one that was opened and not written *)
  phase,        (* where each run is *)
  since, page, attempt, high,    (* its local variables *)
  buffer,       (* rows it has written that are not in the file yet *)
  status,       (* the exit code it ends with *)
  disturbed     (* history: something happened that may repeat rows *)

world == <<source, late>>
locals == <<since, page, attempt, high, buffer, status>>
backfillVars == <<world, store, cursor, phase, locals, disturbed>>

Newest(times) == IF times = {} THEN 0 ELSE Max(times)

BackfillInit ==
  /\ source \in Found /\ late = {}
  /\ store = <<>> /\ cursor = NoCursor
  /\ phase = [r \in Runs |-> "idle"]
  /\ since = [r \in Runs |-> 0]
  /\ page = [r \in Runs |-> 1]
  /\ attempt = [r \in Runs |-> 1]
  /\ high = [r \in Runs |-> 0]
  /\ buffer = [r \in Runs |-> <<>>]
  /\ status = [r \in Runs |-> 0]
  /\ disturbed = FALSE

Busy(r) == phase[r] \notin {"idle", "over"}

Arrive ==
  /\ Len(source) < MaxSource
  /\ LET newest == Newest(ToSet(source))
     IN  \E start \in {newest, newest + 1} \ {0} :
           /\ source' = Append(source, start)
           /\ late' = late \cup (IF start > newest THEN {} ELSE {Len(source) + 1})
  /\ disturbed' = (disturbed \/ \E r \in Runs : Busy(r))
  /\ UNCHANGED <<store, cursor, phase, locals>>

-----------------------------------------------------------------------------
(* One run.                                                                *)

(* The cursor's text, or none if the file is absent or empty. *)
CursorTime == IF cursor = NoCursor THEN 0 ELSE cursor

Begin(r, full) ==
  /\ phase[r] = "idle"
  /\ phase' = [phase EXCEPT ![r] = "fetch"]
  /\ since' = [since EXCEPT ![r] = IF full THEN 0 ELSE CursorTime]
  /\ high' = [high EXCEPT ![r] = IF full THEN 0 ELSE CursorTime]
  /\ disturbed' = (disturbed \/ full \/ cursor = 0 \/ \E q \in Runs : Busy(q))
  /\ UNCHANGED <<world, store, cursor, page, attempt, buffer, status>>

(* The observations that did not start before a time, the newest first:    *)
(* they arrive in the order they start in.                                 *)
Listing(from) ==
  LET Newer(k) == Len(source) + 1 - k
  IN  [k \in 1..Cardinality({k \in 1..Len(source) : source[Newer(k)] >= from}) |-> Newer(k)]

PageOf(listing, n) == SubSeq(listing, (n - 1) * PageSize + 1, Min({n * PageSize, Len(listing)}))

Rows(r) == PageOf(Listing(since[r]), page[r])

TotalPages(listing) == (Len(listing) + PageSize - 1) \div PageSize

\* Mutation: the row the cursor stands on is stored again.
NewRowsWithCursor(r, rows) == rows

(* The rows the cursor stands on are in the store already; they come last. *)
NewRows(r, rows) ==
  SubSeq(rows, 1, Cardinality({k \in DOMAIN rows : since[r] = 0 \/ source[rows[k]] # since[r]}))

Exit(r, code) ==
  /\ phase' = [phase EXCEPT ![r] = "close"]
  /\ status' = [status EXCEPT ![r] = code]

(* A page: its rows are written to the buffer and counted. *)
Answer(r) ==
  LET rows == Rows(r)
      last == page[r] >= TotalPages(Listing(since[r])) \/ (MaxPages # 0 /\ page[r] >= MaxPages)
  IN  /\ phase[r] = "fetch"
      /\ buffer' = [buffer EXCEPT ![r] = @ \o NewRows(r, rows)]
      /\ high' = [high EXCEPT ![r] =
                    Newest({@} \cup {source[i] : i \in ToSet(NewRows(r, rows))})]
      /\ IF rows = <<>> \/ last
         THEN Exit(r, 0) /\ UNCHANGED <<page, attempt>>
         ELSE /\ page' = [page EXCEPT ![r] = @ + 1]
              /\ attempt' = [attempt EXCEPT ![r] = 1]
              /\ UNCHANGED <<phase, status>>
      /\ UNCHANGED <<world, store, cursor, since, disturbed>>

(* _fetch_page: too many requests, a server error or no connection is      *)
(* tried again, up to the last attempt; another refusal gives up at once,  *)
(* one for want of credentials with a code of its own.                     *)
Retry(r) ==
  /\ phase[r] = "fetch" /\ attempt[r] < Attempts
  /\ attempt' = [attempt EXCEPT ![r] = @ + 1]
  /\ UNCHANGED <<world, store, cursor, phase, since, page, high, buffer, status, disturbed>>

\* Mutation: the failure of a page ends the loop only.
GiveUpQuietly(r) ==
  /\ phase[r] = "fetch"
  /\ Exit(r, 0)
  /\ disturbed' = TRUE
  /\ UNCHANGED <<world, store, cursor, since, page, attempt, high, buffer>>

GiveUp(r) ==
  /\ phase[r] = "fetch"
  /\ \E code \in {1, 2} : Exit(r, code)
  /\ disturbed' = TRUE
  /\ UNCHANGED <<world, store, cursor, since, page, attempt, high, buffer>>

(* The buffer reaches the file. *)
Flush(r) ==
  /\ phase[r] = "fetch" /\ buffer[r] # <<>>
  /\ \E n \in 1..Len(buffer[r]) :
       /\ store' = store \o SubSeq(buffer[r], 1, n)
       /\ buffer' = [buffer EXCEPT ![r] = SubSeq(@, n + 1, Len(@))]
  /\ UNCHANGED <<world, cursor, phase, since, page, attempt, high, status, disturbed>>

(* The end of the with block, by an exception too. *)
Close(r) ==
  /\ phase[r] = "close"
  /\ store' = store \o buffer[r]
  /\ buffer' = [buffer EXCEPT ![r] = <<>>]
  /\ phase' = [phase EXCEPT ![r] = IF status[r] = 0 /\ high[r] # 0 THEN "open cursor" ELSE "end"]
  /\ UNCHANGED <<world, cursor, since, page, attempt, high, status, disturbed>>

OpenCursor(r) ==
  /\ phase[r] = "open cursor"
  /\ cursor' = 0
  /\ phase' = [phase EXCEPT ![r] = "write cursor"]
  /\ UNCHANGED <<world, store, locals, disturbed>>

WriteCursor(r) ==
  /\ phase[r] = "write cursor"
  /\ cursor' = high[r]
  /\ phase' = [phase EXCEPT ![r] = "end"]
  /\ UNCHANGED <<world, store, locals, disturbed>>

End(r) ==
  /\ phase[r] = "end"
  /\ phase' = [phase EXCEPT ![r] = "over"]
  /\ UNCHANGED <<world, store, cursor, locals, disturbed>>

Kill(r) ==
  /\ phase' = [phase EXCEPT ![r] = "over"]
  /\ buffer' = [buffer EXCEPT ![r] = <<>>]
  /\ disturbed' = TRUE
  /\ UNCHANGED <<world, store, cursor, since, page, attempt, high, status>>

-----------------------------------------------------------------------------
(* Properties.                                                             *)

(* The cursor never runs ahead of the store: every observation up to the   *)
(* time it names is in the file, however many runs overlap, fail or are    *)
(* killed, and whatever arrives meanwhile.  Observations that come with no *)
(* later start than one already there are excepted: the next run starts    *)
(* behind them.  This holds without max_pages, which leaves the oldest     *)
(* pages unread.                                                           *)
CursorCovers ==
  cursor # NoCursor =>
    \A i \in 1..Len(source) : i \notin late /\ source[i] <= cursor => i \in ToSet(store)

(* A row is stored twice only if a run failed, was killed, overlapped with *)
(* another or was told to start anew, or something arrived while it read.  *)
DuplicatesHaveACause == disturbed \/ IsInjective(store)
=============================================================================
