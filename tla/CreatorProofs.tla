---------------------------- MODULE CreatorProofs ----------------------------
(***************************************************************************)
(* Proofs about Creator: for any number of proposals, releases, recorders, *)
(* organizations and manifests, nothing is released unreviewed and nothing *)
(* is listed under a false name.                                           *)
(*                                                                         *)
(* CreationsAreVouched needs to know that rows refer to rows there are and *)
(* that a recorder holds a release that was promoted when it looked; IInv  *)
(* adds both.  The three parts concern different tables, so that a step    *)
(* disturbs one of them: the lemmas below take the tables one by one.      *)
(***************************************************************************)
EXTENDS Creator, SequenceTheorems, TLAPS

-----------------------------------------------------------------------------
(* Manifests.                                                              *)

\* What the listing stores verifies again, unless a character was replaced:
\* the digest of the stored manifest is the digest that was signed.
LEMMA StoredVerifies ==
  ASSUME ManifestsAreRecords, NEW m \in Manifests, NEW sig, NEW key,
         VerifyPlugin(m, sig, key), Stored(m).text = "plain"
  PROVE  VerifyPlugin(Stored(m), sig, key)
<1>1. DOMAIN m = {"version", "capabilities", "risks", "license", "text"}
  BY DEF ManifestsAreRecords
<1>2. m.text # "lone"
  BY <1>1 DEF Stored
<1>3. Stored(m) = Digest(m)
  BY <1>1, <1>2 DEF Stored, Digest
<1>4. Digest(Stored(m)) = Digest(m)
  BY <1>1, <1>3 DEF Digest
<1>5. /\ Stored(m).version = m.version /\ Stored(m).risks = m.risks
      /\ Stored(m).capabilities = m.capabilities
  BY <1>1 DEF Stored
<1> QED
  BY <1>4, <1>5 DEF VerifyPlugin, ValidateManifest

-----------------------------------------------------------------------------
(* One lemma per group of actions.                                         *)

\* A new proposal changes no earlier row.
LEMMA ProposeStep ==
  ASSUME IInv, NEW gap \in Tickets \cup {None}, NEW evidence \in Digests \cup {None, "skeleton"},
         Propose(gap, evidence)
  PROVE  IInv'
<1> DEFINE row == [gap |-> gap, evidence |-> evidence, status |-> "in_review"]
<1> USE DEF IInv, TypeOK, RowsRefer, Propose, marketVars
<1>1. row \in ProposalRows
  BY DEF ProposalRows
<1>2. /\ proposals' \in Seq(ProposalRows) /\ DOMAIN proposals \subseteq DOMAIN proposals'
      /\ \A p \in DOMAIN proposals : proposals'[p] = proposals[p]
  BY <1>1
<1>3. TypeOK'
  BY <1>2
<1>4. RowsRefer'
  BY <1>2
<1>5. ReleasesAreReviewed'
  BY <1>2 DEF CreationsAreVouched, ReleasesAreReviewed
<1>6. OutcomesWereObserved'
  BY <1>2 DEF CreationsAreVouched, OutcomesWereObserved, OutcomesOf, ReleasesOf
<1>7. ListingsStayTrue'
  BY DEF CreationsAreVouched, ListingsStayTrue
<1> QED
  BY <1>3, <1>4, <1>5, <1>6, <1>7 DEF CreationsAreVouched

\* A decision is taken on a proposal in review, of which there is no release.
LEMMA ReviewStep ==
  ASSUME IInv, NEW p \in DOMAIN proposals, NEW decision \in {"approved", "rejected"},
         ReviewProposal(p, decision)
  PROVE  IInv'
<1> DEFINE row == [proposals[p] EXCEPT !.status = decision]
<1> USE DEF IInv, TypeOK, RowsRefer, ReviewProposal, marketVars
<1>0. /\ row \in ProposalRows /\ row.evidence = proposals[p].evidence /\ row.gap = proposals[p].gap
      /\ proposals' = [proposals EXCEPT ![p] = row]
  <2>1. proposals[p] \in ProposalRows
    OBVIOUS
  <2> QED
    BY <2>1 DEF ProposalRows
<1> HIDE DEF row
<1>1. proposals' \in Seq(ProposalRows) /\ DOMAIN proposals' = DOMAIN proposals
  <2> HIDE DEF ReviewProposal, RowsRefer
  <2>1. proposals \in Seq(ProposalRows) /\ p \in 1 .. Len(proposals)
    OBVIOUS
  <2> QED
    BY <1>0, <2>1, ExceptSeq
<1>8. ASSUME NEW q \in DOMAIN proposals
      PROVE  /\ proposals'[q].evidence = proposals[q].evidence
             /\ proposals'[q].gap = proposals[q].gap
             /\ q # p => proposals'[q] = proposals[q]
  BY <1>0
<1>2. \A r \in DOMAIN releases : releases[r].proposal # p
  BY DEF CreationsAreVouched, ReleasesAreReviewed
<1>3. TypeOK'
  BY <1>1
<1>4. RowsRefer'
  BY <1>1
<1>5. ReleasesAreReviewed'
  BY <1>1, <1>2, <1>8 DEF CreationsAreVouched, ReleasesAreReviewed
<1>6. OutcomesWereObserved'
  BY <1>1, <1>2, <1>8 DEF CreationsAreVouched, OutcomesWereObserved, OutcomesOf, ReleasesOf
<1>7. ListingsStayTrue'
  BY DEF CreationsAreVouched, ListingsStayTrue
<1> QED
  BY <1>3, <1>4, <1>5, <1>6, <1>7 DEF CreationsAreVouched

\* Staging adds a release of an approved proposal, the only staged one of its key.
LEMMA StageStep ==
  ASSUME IInv, NEW p \in DOMAIN proposals, NEW gap \in Tickets, NEW digest \in Digests,
         NEW artifact \in Artifacts, StageCandidate(p, gap, digest, artifact)
  PROVE  IInv'
<1> DEFINE row == [proposal |-> p, gap |-> gap, digest |-> digest,
                   artifact |-> artifact, status |-> "staged", promoted |-> FALSE]
           new == Len(releases) + 1
<1> USE DEF IInv, TypeOK, RowsRefer, marketVars
<1>1. row \in ReleaseRows
  BY DEF ReleaseRows
<1>2. releases' = Append(releases, row) /\ UNCHANGED <<proposals, outcomes, recorder, listing, publishes>>
  BY DEF StageCandidate
<1>3. /\ releases' \in Seq(ReleaseRows) /\ DOMAIN releases' = DOMAIN releases \cup {new}
      /\ new \notin DOMAIN releases /\ releases'[new] = row
      /\ \A r \in DOMAIN releases : releases'[r] = releases[r]
  BY <1>1, <1>2
<1> HIDE DEF new
<1>4. /\ proposals[p].status = "approved" /\ proposals[p].evidence = digest /\ proposals[p].gap = gap
      /\ Staged(p, digest, artifact) = {}
  BY DEF StageCandidate, VerifiedCandidate
<1>5. TypeOK'
  BY <1>2, <1>3
<1>6. RowsRefer'
  BY <1>2, <1>3
<1>7. ReleasesAreReviewed'
  <2>1. \A r \in DOMAIN releases : releases[r].proposal = p => releases[r].digest = digest
    BY <1>4 DEF CreationsAreVouched, ReleasesAreReviewed
  <2>2. \A r \in DOMAIN releases :
          (releases[r].proposal = p /\ releases[r].artifact = artifact) => releases[r].status # "staged"
    BY <1>4, <2>1 DEF Staged
  <2>3. ASSUME NEW r \in DOMAIN releases'
        PROVE  LET q == proposals[releases'[r].proposal]
               IN q.status = "approved" /\ q.evidence = releases'[r].digest /\ q.gap = releases'[r].gap
    BY <1>3, <1>4 DEF CreationsAreVouched, ReleasesAreReviewed
  <2>4. ASSUME NEW r \in DOMAIN releases', NEW s \in DOMAIN releases',
               releases'[s].proposal = releases'[r].proposal,
               releases'[s].artifact = releases'[r].artifact,
               releases'[s].status = "staged", releases'[r].status = "staged"
        PROVE  r = s
    BY <1>3, <2>2, <2>4 DEF CreationsAreVouched, ReleasesAreReviewed
  <2> QED
    BY <1>2, <2>3, <2>4 DEF ReleasesAreReviewed
<1>8. OutcomesWereObserved'
  BY <1>2, <1>3 DEF CreationsAreVouched, OutcomesWereObserved, OutcomesOf, ReleasesOf
<1>9. ListingsStayTrue'
  BY <1>2 DEF CreationsAreVouched, ListingsStayTrue
<1> QED
  BY <1>5, <1>6, <1>7, <1>8, <1>9 DEF CreationsAreVouched

\* Promotion and rollback change a status, never to staged, and never take
\* back that a release was promoted.
LEMMA SettleStep ==
  ASSUME IInv, NEW r \in DOMAIN releases, NEW digest,
         PromoteCandidate(r, digest) \/ RollbackCandidate(r, digest)
  PROVE  IInv'
<1> USE DEF IInv, TypeOK, RowsRefer, marketVars
<1>1. UNCHANGED <<proposals, outcomes, recorder, listing, publishes>>
  BY DEF PromoteCandidate, RollbackCandidate
<1>2. PICK row \in ReleaseRows :
        /\ releases' = [releases EXCEPT ![r] = row]
        /\ row.proposal = releases[r].proposal /\ row.gap = releases[r].gap
        /\ row.digest = releases[r].digest /\ row.artifact = releases[r].artifact
        /\ row.status # "staged"
        /\ releases[r].promoted => row.promoted
        /\ row.status = "promoted" => row.promoted
  <2>1. releases[r] \in ReleaseRows
    OBVIOUS
  <2>2. CASE PromoteCandidate(r, digest)
    <3> DEFINE row == [releases[r] EXCEPT !.status = "promoted", !.promoted = TRUE]
    <3>1. row \in ReleaseRows
      BY <2>1 DEF ReleaseRows
    <3> WITNESS row \in ReleaseRows
    <3> QED
      BY <2>1, <2>2 DEF PromoteCandidate, ReleaseRows
  <2>3. CASE RollbackCandidate(r, digest)
    <3> DEFINE row == [releases[r] EXCEPT !.status = "rolled_back"]
    <3>1. row \in ReleaseRows
      BY <2>1 DEF ReleaseRows
    <3> WITNESS row \in ReleaseRows
    <3> QED
      BY <2>1, <2>3 DEF RollbackCandidate, ReleaseRows
  <2> QED
    BY <2>2, <2>3
<1>3. releases' \in Seq(ReleaseRows) /\ DOMAIN releases' = DOMAIN releases
  BY <1>2, ExceptSeq
<1>4. ASSUME NEW s \in DOMAIN releases
      PROVE  /\ releases'[s].proposal = releases[s].proposal /\ releases'[s].gap = releases[s].gap
             /\ releases'[s].digest = releases[s].digest /\ releases'[s].artifact = releases[s].artifact
             /\ releases'[s].status = "staged" => releases[s].status = "staged"
             /\ releases[s].promoted => releases'[s].promoted
             /\ releases'[s].status = "promoted" => releases'[s].promoted
  BY <1>2
<1>5. TypeOK'
  BY <1>1, <1>3
<1>6. RowsRefer'
  BY <1>1, <1>3, <1>4
<1>7. ReleasesAreReviewed'
  <2>1. ASSUME NEW s \in DOMAIN releases
        PROVE  LET q == proposals[releases'[s].proposal]
               IN q.status = "approved" /\ q.evidence = releases'[s].digest /\ q.gap = releases'[s].gap
    <3>1. /\ releases'[s].proposal = releases[s].proposal /\ releases'[s].gap = releases[s].gap
          /\ releases'[s].digest = releases[s].digest
      BY <1>4
    <3> QED
      BY <3>1 DEF CreationsAreVouched, ReleasesAreReviewed
  <2>2. ASSUME NEW s \in DOMAIN releases, NEW t \in DOMAIN releases,
               releases'[t].proposal = releases'[s].proposal,
               releases'[t].artifact = releases'[s].artifact,
               releases'[t].status = "staged", releases'[s].status = "staged"
        PROVE  s = t
    <3>1. /\ releases[t].proposal = releases[s].proposal /\ releases[t].artifact = releases[s].artifact
          /\ releases[t].status = "staged" /\ releases[s].status = "staged"
      BY <1>4, <2>2
    <3> QED
      BY <3>1 DEF CreationsAreVouched, ReleasesAreReviewed
  <2> QED
    BY <1>1, <1>3, <2>1, <2>2 DEF ReleasesAreReviewed
<1>8. OutcomesWereObserved'
  <2> SUFFICES ASSUME NEW o \in DOMAIN outcomes
               PROVE  LET s == outcomes[o].release
                      IN /\ releases'[s].promoted /\ outcomes[o].gap = releases'[s].gap
                         /\ outcomes[o].digest = proposals[releases'[s].proposal].evidence
                         /\ s \in DOMAIN releases'
    BY <1>1 DEF OutcomesWereObserved, OutcomesOf, ReleasesOf
  <2> QED
    BY <1>3, <1>4 DEF CreationsAreVouched, OutcomesWereObserved
<1>9. ListingsStayTrue'
  BY <1>1 DEF CreationsAreVouched, ListingsStayTrue
<1> QED
  BY <1>5, <1>6, <1>7, <1>8, <1>9 DEF CreationsAreVouched

\* A recorder remembers a release that is promoted when it looks.
LEMMA ReadStep ==
  ASSUME IInv, NEW c \in Recorders, NEW r \in DOMAIN releases, NEW gap, NEW digest,
         ReadRelease(c, r, gap, digest)
  PROVE  IInv'
<1> USE DEF IInv, TypeOK, RowsRefer, ReadRelease, marketVars
<1>1. TypeOK'
  OBVIOUS
<1>2. releases[r].promoted
  BY DEF Observable
<1>3. RowsRefer'
  BY <1>2
<1>4. CreationsAreVouched'
  BY DEF CreationsAreVouched, ReleasesAreReviewed, OutcomesWereObserved, ListingsStayTrue,
         OutcomesOf, ReleasesOf
<1> QED
  BY <1>1, <1>3, <1>4

\* The outcome goes to the release the recorder looked at, whatever became of it.
LEMMA RecordStep ==
  ASSUME IInv, NEW c \in Recorders, NEW verdict \in {"pass", "fail"}, RecordCanaryOutcome(c, verdict)
  PROVE  IInv'
<1> DEFINE r == recorder[c]
           row == [release |-> r, gap |-> releases[r].gap, digest |-> releases[r].digest,
                   verdict |-> verdict]
           new == Len(outcomes) + 1
<1> USE DEF IInv, TypeOK, RowsRefer, marketVars
<1>1. /\ outcomes' = Append(outcomes, row) /\ recorder' = [recorder EXCEPT ![c] = None]
      /\ UNCHANGED <<proposals, releases, listing, publishes>>
  BY DEF RecordCanaryOutcome
<1>2. r \in DOMAIN releases /\ releases[r].promoted
  BY DEF RecordCanaryOutcome
<1>3. row \in OutcomeRows
  <2>1. r \in Nat /\ releases[r] \in ReleaseRows
    BY <1>2
  <2> QED
    BY <2>1 DEF ReleaseRows, OutcomeRows
<1>4. /\ outcomes' \in Seq(OutcomeRows) /\ DOMAIN outcomes' = DOMAIN outcomes \cup {new}
      /\ outcomes'[new] = row
      /\ \A o \in DOMAIN outcomes : outcomes'[o] = outcomes[o]
  BY <1>1, <1>3
<1> HIDE DEF new
<1>5. TypeOK'
  BY <1>1, <1>4
<1>6. RowsRefer'
  BY <1>1, <1>2, <1>4
<1>7. ReleasesAreReviewed' /\ ListingsStayTrue'
  BY <1>1 DEF CreationsAreVouched, ReleasesAreReviewed, ListingsStayTrue
<1>8. OutcomesWereObserved'
  <2> SUFFICES ASSUME NEW o \in DOMAIN outcomes'
               PROVE  LET s == outcomes'[o].release
                      IN /\ releases[s].promoted /\ outcomes'[o].gap = releases[s].gap
                         /\ outcomes'[o].digest = proposals[releases[s].proposal].evidence
                         /\ s \in DOMAIN releases
    BY <1>1 DEF OutcomesWereObserved, OutcomesOf, ReleasesOf
  <2>1. CASE o = new
    BY <1>2, <1>4, <2>1 DEF CreationsAreVouched, ReleasesAreReviewed
  <2>2. CASE o \in DOMAIN outcomes
    BY <1>4, <2>2 DEF CreationsAreVouched, OutcomesWereObserved
  <2> QED
    BY <1>4, <2>1, <2>2
<1> QED
  BY <1>5, <1>6, <1>7, <1>8 DEF CreationsAreVouched

\* A slug keeps its publisher, and only a verified manifest is published.
LEMMA PublishStep ==
  ASSUME ManifestsAreRecords, IInv, NEW org \in Orgs, NEW m \in Manifests, NEW signed \in Manifests,
         NEW key \in Keys, PublishListing(org, m, Sign(key, signed), key)
  PROVE  IInv'
<1> USE DEF IInv, TypeOK, RowsRefer, releaseVars
<1>1. /\ UNCHANGED <<proposals, releases, outcomes, recorder>>
      /\ VerifyPlugin(m, Sign(key, signed), key)
      /\ listing' = [org |-> org, manifest |-> Stored(m), signature |-> Sign(key, signed),
                     key |-> key, status |-> "verified",
                     installed |-> IF listing = None THEN {} ELSE listing.installed,
                     publishers |-> {org} \cup IF listing = None THEN {} ELSE listing.publishers]
  BY DEF PublishListing
<1>2. listing # None => listing \in ListingRows /\ listing.publishers = {org}
  BY DEF PublishListing, OwnsSlug, CreationsAreVouched, ListingsStayTrue
<1>3. listing' \in ListingRows /\ listing'.publishers = {org}
  BY <1>1, <1>2 DEF ListingRows, Sign
<1>4. TypeOK' /\ RowsRefer' /\ ReleasesAreReviewed' /\ OutcomesWereObserved'
  BY <1>1, <1>3 DEF CreationsAreVouched, ReleasesAreReviewed, OutcomesWereObserved, OutcomesOf,
                    ReleasesOf
<1>5. Stored(m).text = "plain" => VerifyPlugin(Stored(m), Sign(key, signed), key)
  BY <1>1, StoredVerifies
<1>6. ListingsStayTrue'
  BY <1>1, <1>3, <1>5 DEF ListingsStayTrue
<1> QED
  BY <1>4, <1>6 DEF CreationsAreVouched

\* Retracting, installing and uninstalling leave manifest, signature and
\* publisher as they are, and verify nothing.
LEMMA ListingStep ==
  ASSUME IInv, NEW org \in Orgs, RetractListing(org) \/ InstallListing(org) \/ UninstallListing(org)
  PROVE  IInv'
<1> USE DEF IInv, TypeOK, RowsRefer, releaseVars
<1>1. UNCHANGED <<proposals, releases, outcomes, recorder>>
  BY DEF RetractListing, InstallListing, UninstallListing
<1>2. /\ listing # None /\ listing' \in ListingRows
      /\ listing'.publishers = listing.publishers /\ listing'.org = listing.org
      /\ listing'.manifest = listing.manifest /\ listing'.signature = listing.signature
      /\ listing'.key = listing.key
      /\ listing'.status = "verified" => listing.status = "verified"
  BY DEF RetractListing, InstallListing, UninstallListing, ListingRows
<1>3. TypeOK' /\ RowsRefer' /\ ReleasesAreReviewed' /\ OutcomesWereObserved'
  BY <1>1, <1>2 DEF CreationsAreVouched, ReleasesAreReviewed, OutcomesWereObserved, OutcomesOf,
                    ReleasesOf
<1>4. ListingsStayTrue'
  BY <1>2 DEF CreationsAreVouched, ListingsStayTrue, VerifyPlugin, ValidateManifest
<1> QED
  BY <1>3, <1>4 DEF CreationsAreVouched

-----------------------------------------------------------------------------

\* The tables start empty.
LEMMA InitInv == Init => IInv
  BY DEF Init, IInv, TypeOK, RowsRefer, CreationsAreVouched, ReleasesAreReviewed,
         OutcomesWereObserved, ListingsStayTrue

\* Every step keeps the invariant.
LEMMA StepInv ==
  ASSUME ManifestsAreRecords, IInv, [Next]_vars
  PROVE  IInv'
<1>1. CASE UNCHANGED vars
  BY <1>1 DEF vars, IInv, TypeOK, RowsRefer, CreationsAreVouched, ReleasesAreReviewed,
              OutcomesWereObserved, ListingsStayTrue, OutcomesOf, ReleasesOf
<1>2. ASSUME NEW in \in SubmitInputs, SubmitProposal(in.gap, in.evidence) PROVE IInv'
  <2>1. in.gap \in Tickets \cup {None} /\ in.evidence \in Digests \cup {None, "skeleton"}
    BY DEF SubmitInputs
  <2> QED
    BY <1>2, <2>1, ProposeStep DEF SubmitProposal
<1>3. ASSUME NEW g \in ScaffoldInputs, ScaffoldCapability(g) PROVE IInv'
  BY <1>3, ProposeStep DEF ScaffoldCapability, ScaffoldInputs
<1>4. ASSUME NEW p \in DOMAIN proposals, NEW in \in StageInputs,
             StageCandidate(p, in.gap, in.digest, in.artifact)
      PROVE  IInv'
  <2>1. in.gap \in Tickets /\ in.digest \in Digests /\ in.artifact \in Artifacts
    BY DEF StageInputs
  <2> QED
    BY <1>4, <2>1, StageStep
<1>5. ASSUME NEW org \in Orgs, NEW in \in PublishInputs,
             PublishListing(org, in.manifest, Sign(in.key, in.signed), in.key)
      PROVE  IInv'
  <2>1. in.manifest \in Manifests /\ in.signed \in Manifests /\ in.key \in Keys
    BY DEF PublishInputs
  <2> QED
    BY <1>5, <2>1, PublishStep
<1> QED
  BY <1>1, <1>2, <1>3, <1>4, <1>5, ReviewStep, SettleStep, ReadStep, RecordStep, ListingStep DEF Next

\* The inductive invariant holds throughout.
LEMMA InvAlways ==
  ASSUME ManifestsAreRecords
  PROVE  Spec => []IInv
<1>1. IInv /\ [Next]_vars => IInv'
  BY StepInv
<1> QED
  BY <1>1, InitInv, PTL DEF Spec

\* Every release is of an approved proposal with the candidate's own digest and
\* gap, one staged release to a key; every canary outcome is of a promoted
\* release; a slug has one publisher, and a verified listing verifies again at
\* installation, but for a string that decoding changed (creator_releases.go,
\* creator_proposals.go and the marketplace capabilities).
THEOREM CreatorVouches ==
  ASSUME ManifestsAreRecords
  PROVE  Spec => []CreationsAreVouched
<1>1. Spec => []IInv
  BY InvAlways
<1>2. IInv => CreationsAreVouched
  BY DEF IInv
<1> QED
  BY <1>1, <1>2, PTL
=============================================================================
