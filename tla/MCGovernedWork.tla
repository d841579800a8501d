--------------------------- MODULE MCGovernedWork ---------------------------
(***************************************************************************)
(* Instances of GovernedWork for TLC.                                      *)
(***************************************************************************)
EXTENDS GovernedWork

CONSTANTS w1, j1, j2, r1, r2, q1, q2, u1, i1, id

OneWorker     == [w \in {w1} |-> id]

\* One run of one step under the first of two versions of a proposal.
OneRunOf      == [j \in {j1} |-> r1]
OnePrev       == [j \in {j1} |-> NoJob]
OneApprovalOf == [j \in {j1} |-> q1]
VersionUserOf   == [r \in {q1, q2} |-> u1]
VersionIntentOf == [r \in {q1, q2} |-> IF r = q1 THEN i1 ELSE NoIntent]

\* Two runs of one step, both carrying the approval of the one request.
TwoRunOf      == [j \in {j1, j2} |-> IF j = j1 THEN r1 ELSE r2]
TwoPrev       == [j \in {j1, j2} |-> NoJob]
TwoApprovalOf == [j \in {j1, j2} |-> q1]
OneUserOf     == [r \in {q1} |-> u1]
OneIntentOf   == [r \in {q1} |-> i1]
=============================================================================
