------------------------------- MODULE Creator -------------------------------
(***************************************************************************)
(* Creator Mode: proposals and their review, the releases of a verified    *)
(* candidate with their canary outcomes, and the plugin marketplace with   *)
(* its signed manifests.  One organization's proposals and releases; two   *)
(* or more organizations meet in the marketplace, whose rows are shared.   *)
(***************************************************************************)
EXTENDS Naturals, Sequences, FiniteSets

CONSTANTS Gaps, OtherTickets, Digests, Artifacts, Recorders, Orgs, Keys, Manifests,
          MaxProposals, MaxReleases, MaxOutcomes, MaxPublishes, None

VARIABLES proposals, releases, outcomes, recorder, listing, publishes

vars == <<proposals, releases, outcomes, recorder, listing, publishes>>
releaseVars == <<proposals, releases, outcomes, recorder>>
marketVars == <<listing, publishes>>

Init == /\ proposals = <<>> /\ releases = <<>> /\ outcomes = <<>>
        /\ recorder = [r \in Recorders |-> None]
        /\ listing = None /\ publishes = 0

-----------------------------------------------------------------------------
(* Proposals are [gap, evidence, status]; evidence is the digest of an     *)
(* isolated candidate, "skeleton" for the test a scaffold renders, or      *)
(* None.  A decision is taken once, by an update guarded by in_review.     *)

VerifyGapTicket(t) == t \in Gaps
Propose(gap, evidence) ==
  /\ Len(proposals) < MaxProposals
  /\ gap # None => VerifyGapTicket(gap)
  /\ proposals' = Append(proposals, [gap |-> gap, evidence |-> evidence, status |-> "in_review"])
  /\ UNCHANGED <<releases, outcomes, recorder, marketVars>>
SubmitProposal(gap, evidence) == Propose(gap, evidence)
ScaffoldCapability(gap) == Propose(gap, "skeleton")
ReviewProposal(p, decision) ==
  /\ proposals[p].status = "in_review"
  /\ proposals' = [proposals EXCEPT ![p].status = decision]
  /\ UNCHANGED <<releases, outcomes, recorder, marketVars>>

-----------------------------------------------------------------------------
(* Releases are [proposal, gap, digest, artifact, status, promoted].       *)

VerifiedCandidate(p, digest) ==
  /\ proposals[p].status = "approved"
  /\ proposals[p].evidence \in Digests
  /\ proposals[p].evidence = digest
  /\ proposals[p].gap # None

Staged(p, digest, artifact) ==
  {r \in DOMAIN releases : /\ releases[r].proposal = p /\ releases[r].digest = digest
                           /\ releases[r].artifact = artifact /\ releases[r].status = "staged"}
(* The advisory lock on the key makes the lookup and the insert one step;  *)
(* a repeated call returns the staged row it finds.                        *)
StageCandidate(p, gap, digest, artifact) ==
  /\ VerifiedCandidate(p, digest) /\ proposals[p].gap = gap /\ VerifyGapTicket(gap)
  /\ Staged(p, digest, artifact) = {} /\ Len(releases) < MaxReleases
  /\ releases' = Append(releases, [proposal |-> p, gap |-> gap, digest |-> digest,
                                   artifact |-> artifact, status |-> "staged", promoted |-> FALSE])
  /\ UNCHANGED <<proposals, outcomes, recorder, marketVars>>
PromoteCandidate(r, digest) ==
  /\ releases[r].digest = digest /\ releases[r].status = "staged"
  /\ releases' = [releases EXCEPT ![r].status = "promoted", ![r].promoted = TRUE]
  /\ UNCHANGED <<proposals, outcomes, recorder, marketVars>>
RollbackCandidate(r, digest) ==
  /\ releases[r].digest = digest /\ releases[r].status \in {"staged", "promoted"}
  /\ releases' = [releases EXCEPT ![r].status = "rolled_back"]
  /\ UNCHANGED <<proposals, outcomes, recorder, marketVars>>

(* The release is read without a lock: a rollback may come before the      *)
(* outcome is inserted.                                                    *)
StagedToo(r) == releases[r].status \in {"staged", "promoted"}
Observable(r) == releases[r].status = "promoted"
ReadRelease(c, r, gap, digest) ==
  /\ recorder[c] = None /\ Observable(r)
  /\ releases[r].digest = digest /\ releases[r].gap = gap /\ VerifyGapTicket(gap)
  /\ recorder' = [recorder EXCEPT ![c] = r]
  /\ UNCHANGED <<proposals, releases, outcomes, marketVars>>
RecordCanaryOutcome(c, verdict) ==
  /\ recorder[c] # None /\ Len(outcomes) < MaxOutcomes
  /\ LET r == recorder[c]
     IN outcomes' = Append(outcomes, [release |-> r, gap |-> releases[r].gap,
                                      digest |-> releases[r].digest, verdict |-> verdict])
  /\ recorder' = [recorder EXCEPT ![c] = None]
  /\ UNCHANGED <<proposals, releases, marketVars>>

(* What the review page shows of a proposal.                               *)
ReleasesOf(p) == {r \in DOMAIN releases : releases[r].proposal = p}
OutcomesOf(p) == {o \in DOMAIN outcomes : outcomes[o].release \in ReleasesOf(p)}

-----------------------------------------------------------------------------
(* The marketplace.  A manifest is [version, capabilities, risks, license, *)
(* text]: license is None when the field is absent, text is "lone" when a  *)
(* string holds half of a surrogate pair.  The digest is taken of the raw  *)
(* JSON, in which such a half survives; the row stores what encoding/json  *)
(* decoded, in which it is replaced.                                       *)

ValidateManifest(m) == m.capabilities # {} /\ m.version # None
Digest(m) == [m EXCEPT !.license = IF @ = None THEN "Apache-2.0" ELSE @]
Sign(key, m) == [key |-> key, digest |-> Digest(m)]
VerifyPlugin(m, signature, key) ==
  /\ ValidateManifest(m)
  /\ m.capabilities = DOMAIN m.risks
  /\ signature = [key |-> key, digest |-> Digest(m)]
Stored(m) == [m EXCEPT !.license = IF @ = None THEN "Apache-2.0" ELSE @,
                       !.text = IF @ = "lone" THEN "replaced" ELSE @]

(* The slug's advisory lock is held from the lookup to the upsert.         *)
OwnsSlug(org) == listing # None => listing.org = org
PublishListing(org, m, signature, key) ==
  /\ publishes < MaxPublishes
  /\ VerifyPlugin(m, signature, key)
  /\ OwnsSlug(org)
  /\ listing # None => listing.manifest.version # m.version
  /\ listing' = [org |-> org, manifest |-> Stored(m), signature |-> signature, key |-> key,
                 status |-> "verified",
                 installed |-> IF listing = None THEN {} ELSE listing.installed,
                 publishers |-> {org} \cup IF listing = None THEN {} ELSE listing.publishers]
  /\ publishes' = publishes + 1
  /\ UNCHANGED releaseVars
RetractListing(org) ==
  /\ listing # None /\ listing.org = org
  /\ listing' = [listing EXCEPT !.status = "rejected"]
  /\ UNCHANGED <<releaseVars, publishes>>
(* The row is locked, and its signature checked again.                     *)
InstallListing(org) ==
  /\ listing # None /\ listing.status = "verified"
  /\ VerifyPlugin(listing.manifest, listing.signature, listing.key)
  /\ listing' = [listing EXCEPT !.installed = @ \cup {org}]
  /\ UNCHANGED <<releaseVars, publishes>>
UninstallListing(org) ==
  /\ listing # None
  /\ listing' = [listing EXCEPT !.installed = @ \ {org}]
  /\ UNCHANGED <<releaseVars, publishes>>

-----------------------------------------------------------------------------
(* What a request may name: a gap is optional in a proposal and in a       *)
(* scaffold, never a null; evidence is optional in a proposal; everything  *)
(* else is required.                                                       *)

Tickets == Gaps \cup OtherTickets
SubmitInputs == [gap : Tickets \cup {None}, evidence : Digests \cup {None}]
ScaffoldInputs == Tickets \cup {None}
StageInputs == [gap : Tickets, digest : Digests, artifact : Artifacts]
CanaryInputs == [gap : Tickets, digest : Digests]
PublishInputs == [manifest : Manifests, signed : Manifests, key : Keys]

Next ==
  \/ \E in \in SubmitInputs : SubmitProposal(in.gap, in.evidence)
  \/ \E g \in ScaffoldInputs : ScaffoldCapability(g)
  \/ \E p \in DOMAIN proposals :
       \/ \E d \in {"approved", "rejected"} : ReviewProposal(p, d)
       \/ \E in \in StageInputs : StageCandidate(p, in.gap, in.digest, in.artifact)
  \/ \E r \in DOMAIN releases :
       \/ \E d \in Digests : PromoteCandidate(r, d) \/ RollbackCandidate(r, d)
       \/ \E c \in Recorders, in \in CanaryInputs : ReadRelease(c, r, in.gap, in.digest)
  \/ \E c \in Recorders, v \in {"pass", "fail"} : RecordCanaryOutcome(c, v)
  \/ \E org \in Orgs :
       \/ \E in \in PublishInputs :
            PublishListing(org, in.manifest, Sign(in.key, in.signed), in.key)
       \/ RetractListing(org) \/ InstallListing(org) \/ UninstallListing(org)

Spec == Init /\ [][Next]_vars

-----------------------------------------------------------------------------
(* Properties.                                                             *)

(* Whatever the order of staging, promotion, rollback and retries, a       *)
(* release is of an approved proposal whose isolated evidence has the      *)
(* release's digest and gap, so a scaffold's skeleton is never released,   *)
(* and one key has one staged release at a time.                           *)
ReleasesAreReviewed ==
  \A r \in DOMAIN releases :
    LET p == proposals[releases[r].proposal]
    IN /\ p.status = "approved" /\ p.evidence = releases[r].digest /\ p.gap = releases[r].gap
       /\ \A s \in DOMAIN releases :
            (/\ releases[s].proposal = releases[r].proposal
             /\ releases[s].artifact = releases[r].artifact
             /\ releases[s].status = "staged" /\ releases[r].status = "staged") => r = s

(* A canary outcome belongs to a release that was promoted, even when a    *)
(* rollback came between the read and the insert, and carries the gap and  *)
(* the digest of the proposal under review.                                *)
OutcomesWereObserved ==
  \A o \in DOMAIN outcomes :
    LET r == outcomes[o].release
    IN /\ releases[r].promoted /\ outcomes[o].gap = releases[r].gap
       /\ outcomes[o].digest = proposals[releases[r].proposal].evidence
       /\ o \in OutcomesOf(releases[r].proposal)

(* A slug has one publisher for ever, and what a verified listing stores   *)
(* still verifies at installation, unless a string of it holds half of a   *)
(* surrogate pair.                                                         *)
ListingsStayTrue ==
  listing # None =>
    /\ listing.publishers = {listing.org}
    /\ listing.status = "verified" /\ listing.manifest.text = "plain"
         => VerifyPlugin(listing.manifest, listing.signature, listing.key)

(* Nothing is released unreviewed and nothing is listed under a false name.*)
CreationsAreVouched == ReleasesAreReviewed /\ OutcomesWereObserved /\ ListingsStayTrue

-----------------------------------------------------------------------------
(* What makes these properties inductive (see CreatorProofs).              *)

\* The fields a decoded manifest has, whatever they hold.
ManifestsAreRecords ==
  \A m \in Manifests : DOMAIN m = {"version", "capabilities", "risks", "license", "text"}

ProposalRows == [gap : Tickets \cup {None}, evidence : Digests \cup {None, "skeleton"},
                 status : {"in_review", "approved", "rejected"}]
ReleaseRows == [proposal : Nat, gap : Tickets, digest : Digests, artifact : Artifacts,
                status : {"staged", "promoted", "rolled_back"}, promoted : BOOLEAN]
OutcomeRows == [release : Nat, gap : Tickets, digest : Digests, verdict : {"pass", "fail"}]
ListingRows == [org : Orgs, manifest : {Stored(m) : m \in Manifests},
                signature : [key : Keys, digest : {Digest(m) : m \in Manifests}], key : Keys,
                status : {"verified", "rejected"}, installed : SUBSET Orgs, publishers : SUBSET Orgs]

TypeOK == /\ proposals \in Seq(ProposalRows) /\ releases \in Seq(ReleaseRows)
          /\ outcomes \in Seq(OutcomeRows)
          /\ recorder \in [Recorders -> Nat \cup {None}]
          /\ listing \in ListingRows \cup {None}

\* The foreign keys hold, and what is, or is about to be, observed was promoted.
RowsRefer ==
  /\ \A r \in DOMAIN releases :
       /\ releases[r].proposal \in DOMAIN proposals
       /\ releases[r].status = "promoted" => releases[r].promoted
  /\ \A o \in DOMAIN outcomes : outcomes[o].release \in DOMAIN releases
  /\ \A c \in Recorders : recorder[c] # None =>
       recorder[c] \in DOMAIN releases /\ releases[recorder[c]].promoted

IInv == TypeOK /\ RowsRefer /\ CreationsAreVouched
=============================================================================
