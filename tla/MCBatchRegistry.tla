--------------------------- MODULE MCBatchRegistry ---------------------------
(***************************************************************************)
(* Small jobs for BatchRegistry.  One file with two records sees batches   *)
(* answered in part: two retries, two repairs, or one of each.  Two files  *)
(* of one record each see one file read, written or left for later while   *)
(* the other is out.                                                       *)
(***************************************************************************)
EXTENDS BatchRegistry, TLC

CONSTANTS file1, file2, rec1, rec2

Job(recs1, recs2, attempts, rounds) ==
    [inputs |-> (file1 :> recs1) @@ (file2 :> recs2), attempts |-> attempts, rounds |-> rounds]

MCJobs == {
    Job({rec1, rec2}, {}, 3, 0), Job({rec1, rec2}, {}, 2, 1), Job({rec1, rec2}, {}, 1, 2),
    Job({rec1}, {rec2}, 2, 0), Job({rec1}, {rec2}, 1, 1)}

\* Enough for a file to be left behind while the other is collected.
MCTwoFiles == {Job({rec1}, {rec2}, 2, 0)}

=============================================================================
