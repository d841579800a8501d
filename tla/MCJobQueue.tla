----------------------------- MODULE MCJobQueue -----------------------------
(***************************************************************************)
(* Instances of JobQueue for TLC.  Two workers share one configured id, so *)
(* that only the fencing token tells their claims apart.                   *)
(***************************************************************************)
EXTENDS JobQueue

CONSTANTS w1, w2, j1, j2, r1, a1, id

\* One run of two steps; the second step carries an approval.
RunWorkers    == {w1, w2}
RunIdOf       == [w \in RunWorkers |-> id]
RunJobs       == {j1, j2}
RunRunOf      == [j \in RunJobs |-> r1]
RunPrev       == [j \in RunJobs |-> IF j = j2 THEN j1 ELSE NoJob]
RunApprovalOf == [j \in RunJobs |-> IF j = j2 THEN a1 ELSE NoApproval]

=============================================================================
