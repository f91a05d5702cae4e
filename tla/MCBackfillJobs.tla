--------------------------- MODULE MCBackfillJobs ---------------------------
EXTENDS BackfillJobs, TLC

CONSTANTS job, run, again, c1, c2

(* A job that somebody follows while another cancels it or cleans up. *)
Followed == [runs |-> {job}, asks |-> c1 :> {"logs"} @@ c2 :> {"cancel", "clean"},
             reused |-> {}, found |-> <<1>>, arrived |-> 1]

(* One client who asks anything, of a job whose number is used again. *)
AskedAbout == [runs |-> {job}, asks |-> c1 :> Operations @@ c2 :> {},
               reused |-> {job}, found |-> <<1>>, arrived |-> 1]

(* Two runs in the foreground, while observations arrive. *)
Overlapping == [runs |-> {run, again}, asks |-> c1 :> {} @@ c2 :> {},
                reused |-> {}, found |-> <<1, 2>>, arrived |-> 3]

MCCasts == {Followed, AskedAbout, Overlapping}
MCFound == {c.found : c \in MCCasts}
=============================================================================
