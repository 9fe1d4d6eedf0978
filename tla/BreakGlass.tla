----------------------------- MODULE BreakGlass -----------------------------
(***************************************************************************)
(* Break-glass proposals in the metadata image (crates/metadata/src/       *)
(* break_glass.rs, image.rs): approvers add to the list they read, a       *)
(* gated handler spends an approved proposal, the proposer withdraws it,   *)
(* and the expiry sweep deletes it, all concurrently and from stale reads, *)
(* driven as MetadataLog says.  Every change writes the whole record back. *)
(*                                                                         *)
(* Time is the number of requests so far.  The rules on who may approve    *)
(* and when are the broker's (external) and are those the comments of      *)
(* break_glass.rs state.                                                   *)
(***************************************************************************)
EXTENDS Integers, Sequences, FiniteSets, SequencesExt, MetadataMaps

CONSTANTS
  Principal,   \* approvers
  Quorum,      \* approvals a proposal needs
  Window,      \* how long a proposal stays usable
  MaxAsked, MaxPending, MaxLag

VARIABLES image, replayed, unapplied, pending, asked, committed,
  settled      \* history: the proposals ever consumed or withdrawn

NewImage == EmptyMap   \* proposal id -> record

\* Mutant: any list that is not shorter will do.
ExtendsLonger(stored, candidate) == Len(candidate) >= Len(stored)

\* extends: candidate.starts_with(stored)
Extends(stored, candidate) == IsPrefix(stored, candidate)

Settled(proposal) == proposal.consumed # 0 \/ proposal.withdrawn

Apply(img, rec) ==
  CASE rec.kind = "Proposal"       -> Put(img, rec.id, rec.proposal)
    [] rec.kind = "DeleteProposal" -> Drop(img, {rec.id})

\* Mutant: a withdrawn proposal still takes changes.
ValidProposalUnlessConsumed(img, rec) ==
  rec.id \in DOMAIN img =>
    /\ img[rec.id].consumed = 0
    /\ Extends(img[rec.id].approvals, rec.proposal.approvals)

\* A settled proposal takes no change; an unknown id takes any.
ValidProposal(img, rec) ==
  rec.id \in DOMAIN img =>
    /\ ~Settled(img[rec.id])
    /\ Extends(img[rec.id].approvals, rec.proposal.approvals)

Valid(img, rec) ==
  \/ rec.kind = "Proposal" /\ ValidProposal(img, rec)
  \/ rec.kind = "DeleteProposal"

ToRecords(img) ==
  << {[kind |-> "Proposal", id |-> id, proposal |-> img[id]] : id \in DOMAIN img} >>

-----------------------------------------------------------------------------
(* The records the request handlers build (outside this repository).       *)

\* The proposal authorises the action at time now.
Authorises(proposal, now) ==
  /\ Len(proposal.approvals) >= Quorum
  /\ ~Settled(proposal)
  /\ now < proposal.expires

Rewrite(id, proposal) == [kind |-> "Proposal", id |-> id, proposal |-> proposal]

Propose(now) ==
  {Rewrite(now, [approvals |-> <<>>, consumed |-> 0, withdrawn |-> FALSE,
                 expires |-> now + Window])}

Open(img, now) == {id \in DOMAIN img : ~Settled(img[id]) /\ now < img[id].expires}

Approve(img, now) ==
  {Rewrite(id, [img[id] EXCEPT !.approvals = Append(img[id].approvals, who)]) :
     id \in Open(img, now), who \in Principal}

\* An approver is not in the list yet.
ApproveOnce(img, now) ==
  {rec \in Approve(img, now) : IsInjective(rec.proposal.approvals)}

\* The gated handler stamps the time at which it spends the approval.
Consume(img, now) ==
  {Rewrite(id, [img[id] EXCEPT !.consumed = now]) :
     id \in {x \in DOMAIN img : Authorises(img[x], now)}}

Withdraw(img, now) ==
  {Rewrite(id, [img[id] EXCEPT !.withdrawn = TRUE]) : id \in Open(img, now)}

\* The expiry sweep.
Sweep(img, now) ==
  {[kind |-> "DeleteProposal", id |-> id] :
     id \in {x \in DOMAIN img : now >= img[x].expires}}

Requests(img, now) ==
  Propose(now) \cup ApproveOnce(img, now) \cup Consume(img, now)
  \cup Withdraw(img, now) \cup Sweep(img, now)

Stamped(rec, offset) == rec

Log == INSTANCE MetadataLog WITH Empty <- NewImage

vars == <<Log!vars, settled>>

Init == Log!Init /\ settled = {}

Next ==
  /\ Log!Next
  /\ settled' = settled \cup {id \in DOMAIN image' : Settled(image'[id])}

Spec == Init /\ [][Next]_vars

-----------------------------------------------------------------------------
(* Properties *)

\* Two concurrent approvals cannot overwrite each other (the comment at the
\* head of break_glass.rs): while a proposal is stored, no step removes or
\* reorders an approval.  And once it is settled nothing edits it until the
\* sweep deletes it: of two handlers that spend one approval, or one that
\* spends it while the proposer withdraws, one is refused.
ProposalsOnlyGrow ==
  \A id \in DOMAIN image \cap DOMAIN image' :
    /\ IsPrefix(image[id].approvals, image'[id].approvals)
    /\ Settled(image[id]) => image'[id] = image[id]

\* A proposal that was consumed or withdrawn never authorises again.  validate
\* accepts any record for an id it does not know, so a stale approval can
\* bring a swept proposal back, unsettled; it authorises nothing because the
\* sweep deletes only what has expired.
SpentOnce ==
  \A id \in settled \cap DOMAIN image : ~Authorises(image[id], asked)

\* A restart neither drops a proposal nor an approval.
RestartedAgrees == image = replayed
=============================================================================
