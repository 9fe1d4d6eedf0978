------------------------- MODULE ClusterImageProofs -------------------------
(***************************************************************************)
(* The cluster parts of the metadata image for any number of requests,     *)
(* principals, brokers, features, voters and config owners: break-glass    *)
(* proposals (BreakGlass), registrations and producer ids                  *)
(* (BrokerRegistry), features and quorum state (FeatureLevels), configs,   *)
(* quotas, credentials and tokens (ConfigMaps).                            *)
(*                                                                         *)
(* Each part has an inductive invariant (GlassInv, BrokersInv,             *)
(* FeaturesInv, ConfigsInv) that says what an image can hold, what the     *)
(* requests still under way can ask of it, and that the replica that       *)
(* restarts agrees with the one that never did.  The last needs that       *)
(* from_records undoes to_records on every such image (GlassRestored,      *)
(* BrokersRestored, FeaturesRestored, ConfigsRestored), in whatever order  *)
(* a HashMap gives the records: this is where FoldProofs is used.          *)
(* For configs and quotas it gives back the owners that have a key, so     *)
(* those proofs also show that an owner without one makes no difference to *)
(* any record applied later (KeyedSet), and that sorting the components of *)
(* a quota entity twice is sorting them once (CanonicalStable), for entity *)
(* types that are numbers in the order of the names.                       *)
(*                                                                         *)
(* The theorems about registrations, producer ids, features and configs    *)
(* hold however far the validating image lags.  Those about break-glass    *)
(* proposals are for a controller that serialises validate, append and     *)
(* apply (MaxLag.glass = 0): validate is all that keeps a stale approval   *)
(* from undoing a consumption, and apply would let it through.             *)
(*                                                                         *)
(* And the safety properties of VersionDowngrade for every set of users,   *)
(* tokens, ACLs, brokers, replicas and epochs, and for every set of        *)
(* supported metadata.version levels.  The inductive invariant is          *)
(* CarryInv: the removals still to be applied are exactly the ones         *)
(* metadata_version_downgrade_records would compute from the image as it   *)
(* stands.  Applying one of them takes that one out of both sides, so that *)
(* when none is left the image has nothing the target cannot carry,        *)
(* whatever the order they were applied in.                                *)
(***************************************************************************)
EXTENDS ClusterImage, VersionDowngrade, Integers, Sequences, FiniteSets, TLAPS, FiniteSetTheorems,
        SequenceTheorems

-----------------------------------------------------------------------------
(* Break-glass proposals *)

GlassLog == INSTANCE FoldProofs WITH Empty <- Glass!NewImage, Apply <- Glass!Apply

Proposals == [approvals : Seq(Principal), consumed : Nat, withdrawn : BOOLEAN,
              expires : Int]

\* The expiry of a proposal is fixed by the time at which it was proposed.
GlassImage(img) ==
  /\ IsFiniteSet(DOMAIN img) /\ DOMAIN img \subseteq Nat
  /\ img \in [DOMAIN img -> Proposals]
  /\ \A id \in DOMAIN img : img[id].expires = id + Window

ProposalOf(img, id) == [kind |-> "Proposal", id |-> id, proposal |-> img[id]]

\* from_records after to_records gives the proposals back.
LEMMA GlassRestored ==
  ASSUME NEW img, GlassImage(img)
  PROVE  Glass!Log!FromRecords(Glass!ToRecords(img)) = img
<1> DEFINE S == {ProposalOf(img, id) : id \in DOMAIN img}
           Ids(s) == {rec.id : rec \in s}
           h == [s \in SUBSET S |-> [id \in Ids(s) |-> img[id]]]
<1>1. Glass!Log!FromRecords(Glass!ToRecords(img)) = GlassLog!FromRecords(<<S>>)
  BY DEF Glass!ToRecords, ProposalOf, Glass!Log!FromRecords, GlassLog!FromRecords,
     Glass!Log!FoldLeft, GlassLog!FoldLeft, Glass!Log!MapThenFoldSet,
     GlassLog!MapThenFoldSet, Glass!Log!Max, GlassLog!Max, Glass!Log!FoldSet,
     GlassLog!FoldSet
<1>2. GlassLog!Tracks(h, Glass!NewImage, S)
  <2>1. h[{}] = Glass!NewImage
    BY DEF Glass!NewImage, Glass!EmptyMap
  <2>2. ASSUME NEW s \in SUBSET S, NEW x \in s
        PROVE  h[s] = Glass!Apply(h[s \ {x}], x)
    <3>1. PICK id \in DOMAIN img : x = ProposalOf(img, id)
      OBVIOUS
    <3> DEFINE A == Ids(s)
               B == Ids(s \ {x})
    <3>2. Glass!Apply(h[s \ {x}], x) = Glass!Put(h[s \ {x}], id, img[id])
      BY <3>1 DEF Glass!Apply, ProposalOf
    <3>3. A = B \cup {id}
      BY <3>1 DEF ProposalOf
    <3>4. h[s] = [i \in A |-> img[i]] /\ h[s \ {x}] = [i \in B |-> img[i]]
      OBVIOUS
    <3> HIDE DEF A, B, h
    <3>5. Glass!Put(h[s \ {x}], id, img[id]) = h[s]
      BY <3>3, <3>4 DEF Glass!Put
    <3> QED
      BY <3>2, <3>5
  <2> HIDE DEF S
  <2>3. h = [s \in SUBSET S |-> h[s]]
    OBVIOUS
  <2> HIDE DEF h
  <2> QED
    BY <2>1, <2>2, <2>3 DEF GlassLog!Tracks
<1>3. IsFiniteSet(S)
  <2> DEFINE f == [id \in DOMAIN img |-> ProposalOf(img, id)]
  <2>1. f \in Surjection(DOMAIN img, S)
    BY DEF Surjection
  <2> HIDE DEF S, f
  <2> QED
    BY <2>1, FS_Surjection DEF GlassImage
<1>4. h[S] = img
  <2>1. \A id \in DOMAIN img : ProposalOf(img, id) \in S /\ ProposalOf(img, id).id = id
    BY DEF ProposalOf
  <2>2. Ids(S) = DOMAIN img
    <3>1. DOMAIN img \subseteq Ids(S)
      BY <2>1
    <3>2. Ids(S) \subseteq DOMAIN img
      BY <2>1
    <3> QED BY <3>1, <3>2
  <2>3. h[S] = [id \in Ids(S) |-> img[id]]
    OBVIOUS
  <2> HIDE DEF S, h, Ids
  <2> QED
    BY <2>2, <2>3 DEF GlassImage
<1> HIDE DEF S, h
<1>5. GlassLog!Replay(Glass!NewImage, S) = img
  <2>1. GlassLog!IsFiniteSet(S)
    BY <1>3 DEF IsFiniteSet, GlassLog!IsFiniteSet
  <2> QED
    BY <2>1, <1>2, <1>4, GlassLog!ReplayIs
<1>6. GlassLog!FromRecords(<<S>>) = img
  <2> DEFINE m == [k \in 0..1 |-> IF k = 0 THEN Glass!NewImage ELSE img]
  <2>1. GlassLog!Between(m, <<S>>, 1)
    BY <1>5 DEF GlassLog!Between
  <2>2. m[1] = img /\ DOMAIN <<S>> = 1..1 /\ 1 \in Nat
    OBVIOUS
  <2> HIDE DEF m
  <2> QED
    BY <2>1, <2>2, GlassLog!FromRecordsIs
<1> QED
  BY <1>1, <1>6

\* A record is about a proposal that expires when its id says; the expiry
\* sweep removes it only after that.
GlassRecord(rec) ==
  \/ /\ rec \in [kind : {"Proposal"}, id : Nat, proposal : Proposals]
     /\ rec.proposal.expires = rec.id + Window
  \/ rec \in [kind : {"DeleteProposal"}, id : Nat] /\ rec.id + Window <= asked

\* What was settled still is, or has expired.
StaysSettled ==
  \A id \in settled :
    \/ id \in DOMAIN image /\ Glass!Settled(image[id])
    \/ id \in Nat /\ id + Window <= asked

GlassRequest(request) ==
  request = [record |-> request.record, seen |-> request.seen] /\ GlassRecord(request.record)

\* The validating image has applied all but the record it validated last.
Serialised ==
  \/ unapplied = <<>>
  \/ /\ unapplied = <<unapplied[1]>>
     /\ GlassRequest(unapplied[1]) /\ Glass!Valid(image, unapplied[1].record)

GlassInv ==
  /\ asked \in Nat /\ GlassImage(image) /\ replayed = image
  /\ \A request \in pending : GlassRequest(request)
  /\ Serialised /\ StaysSettled

\* Every handler keeps the expiry of the proposal it read, and the sweep
\* picks expired ones.
LEMMA GlassRequestsSound ==
  ASSUME Window \in Nat, asked \in Nat, GlassImage(image),
         NEW rec \in Glass!Requests(image, asked)
  PROVE  GlassRecord(rec)
<1> USE DEF Proposals, Glass!Rewrite
<1>1. CASE rec \in Glass!Propose(asked)
  <2> DEFINE p == [approvals |-> <<>>, consumed |-> 0, withdrawn |-> FALSE,
                   expires |-> asked + Window]
  <2>1. p \in Proposals /\ p.expires = asked + Window
    OBVIOUS
  <2>2. rec = [kind |-> "Proposal", id |-> asked, proposal |-> p]
    BY <1>1 DEF Glass!Propose
  <2> HIDE DEF p
  <2> QED BY <2>1, <2>2 DEF GlassRecord
<1>2. ASSUME NEW id \in DOMAIN image, NEW p \in Proposals, p.expires = image[id].expires,
             rec = Glass!Rewrite(id, p)
      PROVE  GlassRecord(rec)
  BY <1>2 DEF GlassRecord, GlassImage
<1>3. CASE rec \in Glass!ApproveOnce(image, asked)
  <2>1. PICK id \in Glass!Open(image, asked), who \in Principal :
          rec = Glass!Rewrite(id, [image[id] EXCEPT !.approvals =
                                     Append(image[id].approvals, who)])
    BY <1>3 DEF Glass!ApproveOnce, Glass!Approve
  <2> DEFINE p == [image[id] EXCEPT !.approvals = Append(image[id].approvals, who)]
  <2>2. id \in DOMAIN image /\ image[id] \in Proposals
    BY DEF Glass!Open, GlassImage
  <2>3. p \in Proposals /\ p.expires = image[id].expires
    BY <2>2
  <2> HIDE DEF p
  <2> QED BY <2>1, <2>2, <2>3, <1>2 DEF p
<1>4. CASE rec \in Glass!Consume(image, asked)
  <2>1. PICK id \in DOMAIN image :
          rec = Glass!Rewrite(id, [image[id] EXCEPT !.consumed = asked])
    BY <1>4 DEF Glass!Consume
  <2> DEFINE p == [image[id] EXCEPT !.consumed = asked]
  <2>2. image[id] \in Proposals
    BY DEF GlassImage
  <2>3. p \in Proposals /\ p.expires = image[id].expires
    BY <2>2
  <2> QED BY <2>1, <2>3, <1>2
<1>5. CASE rec \in Glass!Withdraw(image, asked)
  <2>1. PICK id \in DOMAIN image :
          rec = Glass!Rewrite(id, [image[id] EXCEPT !.withdrawn = TRUE])
    BY <1>5 DEF Glass!Withdraw, Glass!Open
  <2> DEFINE p == [image[id] EXCEPT !.withdrawn = TRUE]
  <2>2. image[id] \in Proposals
    BY DEF GlassImage
  <2>3. p \in Proposals /\ p.expires = image[id].expires
    BY <2>2
  <2> QED BY <2>1, <2>3, <1>2
<1>6. CASE rec \in Glass!Sweep(image, asked)
  <2>1. PICK id \in DOMAIN image :
          rec = [kind |-> "DeleteProposal", id |-> id] /\ asked >= image[id].expires
    BY <1>6 DEF Glass!Sweep
  <2> QED BY <2>1 DEF GlassRecord, GlassImage
<1> QED
  BY <1>1, <1>3, <1>4, <1>5, <1>6 DEF Glass!Requests

\* A record stays sound as time passes.
LEMMA GlassRecordKept ==
  ASSUME asked \in Nat, asked' \in Nat, asked <= asked', Window \in Nat, NEW rec, GlassRecord(rec)
  PROVE  GlassRecord(rec)'
BY DEF GlassRecord

\* Applying a sound record keeps the image sound.
LEMMA GlassApplySound ==
  ASSUME NEW img, GlassImage(img), NEW rec, GlassRecord(rec)
  PROVE  GlassImage(Glass!Apply(img, rec))
<1>1. CASE rec.kind = "Proposal"
  <2> DEFINE new == Glass!Put(img, rec.id, rec.proposal)
  <2>1. rec.id \in Nat /\ rec.proposal \in Proposals
        /\ rec.proposal.expires = rec.id + Window
    BY <1>1 DEF GlassRecord
  <2>2. DOMAIN new = DOMAIN img \cup {rec.id} /\ IsFiniteSet(DOMAIN new)
    BY FS_AddElement DEF GlassImage, Glass!Put
  <2>3. new \in [DOMAIN new -> Proposals]
        /\ \A id \in DOMAIN new : new[id].expires = id + Window
    BY <2>1, <2>2 DEF GlassImage, Glass!Put
  <2>4. Glass!Apply(img, rec) = new
    BY <1>1 DEF Glass!Apply
  <2> HIDE DEF new
  <2> QED BY <2>1, <2>2, <2>3, <2>4 DEF GlassImage
<1>2. CASE rec.kind = "DeleteProposal"
  <2> DEFINE new == Glass!Drop(img, {rec.id})
  <2>2. DOMAIN new = DOMAIN img \ {rec.id} /\ IsFiniteSet(DOMAIN new)
    BY FS_RemoveElement DEF GlassImage, Glass!Drop
  <2>3. new \in [DOMAIN new -> Proposals]
        /\ \A id \in DOMAIN new : new[id].expires = id + Window
    BY <2>2 DEF GlassImage, Glass!Drop
  <2>4. Glass!Apply(img, rec) = new
    BY <1>2 DEF Glass!Apply
  <2> HIDE DEF new
  <2> QED BY <2>2, <2>3, <2>4 DEF GlassImage
<1> QED
  BY <1>1, <1>2 DEF GlassRecord

\* What a record that validate accepted does to the proposals: it edits none
\* that is settled, extends the approvals of the one it edits, and deletes
\* none that could still be used.
LEMMA GlassApplied ==
  ASSUME NEW img, GlassImage(img), NEW rec, GlassRecord(rec), Glass!Valid(img, rec),
         NEW new, new = Glass!Apply(img, rec), NEW id \in DOMAIN img
  PROVE  /\ id \in DOMAIN new \/ id + Window <= asked
         /\ id \in DOMAIN new =>
              /\ Glass!IsPrefix(img[id].approvals, new[id].approvals)
              /\ Glass!Settled(img[id]) => new[id] = img[id]
<1>0. Glass!IsPrefix(img[id].approvals, img[id].approvals)
  <2>1. Len(img[id].approvals) \in Nat
    BY DEF GlassImage, Proposals
  <2> QED BY <2>1 DEF Glass!IsPrefix
<1>1. CASE rec.kind = "Proposal"
  <2>1. new = Glass!Put(img, rec.id, rec.proposal)
    BY <1>1 DEF Glass!Apply
  <2>2. CASE rec.id = id
    <3>1. ~Glass!Settled(img[id]) /\ Glass!IsPrefix(img[id].approvals, rec.proposal.approvals)
      BY <1>1, <2>2 DEF Glass!Valid, Glass!ValidProposal, Glass!Extends
    <3>2. id \in DOMAIN new /\ new[id] = rec.proposal
      BY <2>1, <2>2 DEF Glass!Put
    <3> QED BY <3>1, <3>2
  <2>3. CASE rec.id # id
    <3>1. id \in DOMAIN new /\ new[id] = img[id]
      BY <2>1, <2>3 DEF Glass!Put
    <3> QED BY <3>1, <1>0
  <2> QED BY <2>2, <2>3
<1>2. CASE rec.kind = "DeleteProposal"
  <2>1. new = Glass!Drop(img, {rec.id}) /\ rec.id + Window <= asked
    BY <1>2 DEF Glass!Apply, GlassRecord
  <2> QED BY <2>1, <1>0 DEF Glass!Drop
<1> QED
  BY <1>1, <1>2 DEF GlassRecord

\* The head of the log, when there is one, is a valid record.
LEMMA GlassHead ==
  ASSUME Serialised, unapplied # <<>>
  PROVE  /\ Head(unapplied) = unapplied[1] /\ Tail(unapplied) = <<>>
         /\ GlassRecord(Head(unapplied).record)
         /\ Glass!Valid(image, Head(unapplied).record)
<1> DEFINE r == unapplied[1]
<1>1. unapplied = <<r>> /\ GlassRecord(r.record) /\ Glass!Valid(image, r.record)
  BY DEF Serialised, GlassRequest
<1> HIDE DEF r
<1>2. Head(unapplied) = r /\ unapplied[1] = r /\ Tail(unapplied) = <<>>
  BY <1>1
<1> QED
  BY <1>1, <1>2

\* No step forgets that a proposal was settled before it expired.
LEMMA GlassStepSettled ==
  ASSUME GlassInv, asked' \in Nat, asked <= asked', Window \in Nat,
         settled' = settled \cup {id \in DOMAIN image' : Glass!Settled(image'[id])},
         \A id \in DOMAIN image :
           \/ id \in DOMAIN image' /\ (Glass!Settled(image[id]) => image'[id] = image[id])
           \/ id + Window <= asked
  PROVE  StaysSettled'
<1> SUFFICES ASSUME NEW id \in settled', ~(id \in DOMAIN image' /\ Glass!Settled(image'[id]))
             PROVE  id \in Nat /\ id + Window <= asked'
  BY DEF StaysSettled, Glass!Settled
<1>1. id \in settled
  OBVIOUS
<1>2. id \in Nat /\ id + Window <= asked
  BY <1>1 DEF GlassInv, StaysSettled, GlassImage
<1> QED
  BY <1>2 DEF GlassInv

\* GlassInv holds at first.
LEMMA GlassStart == Glass!Init => GlassInv
<1>1. DOMAIN Glass!NewImage = {}
  BY DEF Glass!NewImage, Glass!EmptyMap
<1>2. Glass!NewImage \in [{} -> Proposals]
  BY DEF Glass!NewImage, Glass!EmptyMap
<1> QED
  BY <1>1, <1>2, FS_EmptySet DEF Glass!Init, Glass!Log!Init, GlassInv, GlassImage, Serialised, StaysSettled

\* Every step of BreakGlass keeps GlassInv.
LEMMA GlassStep ==
  ASSUME MaxLag.glass = 0, Window \in Nat, GlassInv, [Glass!Next]_(Glass!vars)
  PROVE  GlassInv'
<1>0. CASE UNCHANGED Glass!vars
  BY <1>0 DEF Glass!vars, Glass!Log!vars, GlassInv, GlassImage, GlassRequest, GlassRecord,
       Serialised, StaysSettled
<1> SUFFICES ASSUME Glass!Next PROVE GlassInv'
  BY <1>0
<1>1. settled' = settled \cup {id \in DOMAIN image' : Glass!Settled(image'[id])}
  BY DEF Glass!Next
<1>2. CASE Glass!Log!Ask
  <2>1. UNCHANGED <<image, replayed, unapplied>> /\ asked' = asked + 1
    BY <1>2 DEF Glass!Log!Ask
  <2>2. asked' \in Nat /\ asked <= asked'
    BY <2>1 DEF GlassInv
  <2>3. \A rec : GlassRecord(rec) => GlassRecord(rec)'
    BY <2>2, GlassRecordKept DEF GlassInv
  <2>4. PICK rec \in Glass!Requests(image, asked) :
          pending' = pending \cup {[record |-> rec, seen |-> committed]}
    BY <1>2 DEF Glass!Log!Ask
  <2>5. GlassRecord(rec)
    BY GlassRequestsSound DEF GlassInv
  <2>6. \A request \in pending' : GlassRequest(request)'
    BY <2>3, <2>4, <2>5 DEF GlassInv, GlassRequest
  <2>7. Serialised'
    BY <2>1, <2>3 DEF GlassInv, Serialised, GlassRequest
  <2>8. StaysSettled'
    BY <2>1, <2>2, <1>1, GlassStepSettled
  <2> QED
    BY <2>1, <2>2, <2>6, <2>7, <2>8 DEF GlassInv
<1>3. ASSUME NEW request \in pending, Glass!Log!Submit(request) PROVE GlassInv'
  <2>1. UNCHANGED <<image, replayed, asked>> /\ pending' = pending \ {request}
    BY <1>3 DEF Glass!Log!Submit
  <2>2. unapplied = <<>>
    BY <1>3 DEF Glass!Log!Submit, GlassInv, Serialised
  <2>3. unapplied' = <<request>>
    BY <1>3, <2>2 DEF Glass!Log!Submit, Glass!Stamped, GlassInv, GlassRequest
  <2>4. Serialised'
    <3>1. unapplied'[1] = request
      BY <2>3
    <3>2. GlassRequest(request)'
      BY <2>1 DEF GlassInv, GlassRequest, GlassRecord
    <3>3. Glass!Valid(image', request.record)
      BY <1>3, <2>1 DEF Glass!Log!Submit
    <3> QED BY <2>3, <3>1, <3>2, <3>3 DEF Serialised, GlassRequest
  <2>5. StaysSettled'
    BY <2>1, <1>1, GlassStepSettled DEF GlassInv
  <2> QED
    BY <2>1, <2>4, <2>5 DEF GlassInv, GlassRequest, GlassRecord
<1>4. ASSUME NEW request \in pending, Glass!Log!Refuse(request) PROVE GlassInv'
  <2>1. UNCHANGED <<image, replayed, asked, unapplied>> /\ pending' = pending \ {request}
    BY <1>4 DEF Glass!Log!Refuse
  <2>2. StaysSettled'
    BY <2>1, <1>1, GlassStepSettled DEF GlassInv
  <2> QED
    BY <2>1, <2>2 DEF GlassInv, GlassRequest, GlassRecord, Serialised
<1>5. CASE Glass!Log!ApplyNext
  <2> DEFINE rec == Head(unapplied).record
  <2>1. UNCHANGED <<pending, asked>> /\ unapplied # <<>>
        /\ image' = Glass!Apply(image, rec) /\ replayed' = Glass!Apply(replayed, rec)
        /\ unapplied' = Tail(unapplied)
    BY <1>5 DEF Glass!Log!ApplyNext
  <2>2. unapplied' = <<>> /\ GlassRecord(rec) /\ Glass!Valid(image, rec)
    BY <2>1, GlassHead DEF GlassInv
  <2> HIDE DEF rec
  <2>3. GlassImage(image')
    BY <2>1, <2>2, GlassApplySound DEF GlassInv
  <2>4. \A id \in DOMAIN image :
         \/ id \in DOMAIN image' /\ (Glass!Settled(image[id]) => image'[id] = image[id])
         \/ id + Window <= asked
    BY <2>1, <2>2, GlassApplied DEF GlassInv
  <2>5. StaysSettled'
    BY <2>1, <2>4, <1>1, GlassStepSettled DEF GlassInv
  <2> QED
    BY <2>1, <2>2, <2>3, <2>5 DEF GlassInv, GlassImage, GlassRequest, GlassRecord, Serialised
<1>6. CASE Glass!Log!Restart
  <2>1. image' = image /\ UNCHANGED <<replayed, unapplied, pending, asked>>
    BY <1>6, GlassRestored DEF Glass!Log!Restart, GlassInv
  <2>2. StaysSettled'
    BY <2>1, <1>1, GlassStepSettled DEF GlassInv
  <2> QED
    BY <2>1, <2>2 DEF GlassInv, GlassRequest, GlassRecord, Serialised
<1> QED
  BY <1>2, <1>3, <1>4, <1>5, <1>6 DEF Glass!Next, Glass!Log!Next

\* GlassInv is an invariant of the image while break-glass proposals are at
\* work.
THEOREM GlassInductive ==
  ASSUME MaxLag.glass = 0, Window \in Nat
  PROVE  ImageSpec => [](part = "glass" => GlassInv)
<1>1. ImageInit => (part = "glass" => GlassInv)
  BY GlassStart DEF ImageInit
<1>2. (part = "glass" => GlassInv) /\ [ImageNext]_imageVars => (part = "glass" => GlassInv)'
  <2> SUFFICES ASSUME part = "glass", GlassInv, [ImageNext]_imageVars PROVE GlassInv'
    BY DEF ImageNext, imageVars
  <2>1. [Glass!Next]_(Glass!vars)
    BY DEF ImageNext, imageVars, Glass!vars, Glass!Log!vars
  <2> QED BY <2>1, GlassStep
<1> QED
  BY <1>1, <1>2, PTL DEF ImageSpec

\* A proposal that was consumed or withdrawn never authorises the gated
\* action again, although validate accepts any record for an id it does not
\* know and a stale approval may bring a swept proposal back.
THEOREM SettledNeverAuthorises ==
  ASSUME MaxLag.glass = 0, Window \in Nat
  PROVE  ImageSpec => []SpentOnce
<1>1. (part = "glass" => GlassInv) => SpentOnce
  <2> SUFFICES ASSUME GlassInv, NEW id \in settled \cap DOMAIN image,
                      ~Glass!Settled(image[id]), asked < image[id].expires
               PROVE  FALSE
    BY DEF SpentOnce, Glass!SpentOnce, Glass!Authorises
  <2>1. id + Window <= asked /\ image[id].expires = id + Window /\ id \in Nat /\ asked \in Nat
    BY DEF GlassInv, StaysSettled, GlassImage
  <2> QED BY <2>1
<1> QED
  BY <1>1, GlassInductive, PTL

\* Two concurrent approvals cannot overwrite each other, and a settled
\* proposal takes no change until the sweep deletes it: validate compares
\* the record with the proposal stored, and a restart changes nothing.
THEOREM ApprovalsOnlyGrow ==
  ASSUME MaxLag.glass = 0, Window \in Nat
  PROVE  ImageSpec => ProposalsOnlyGrow
<1>1. (part = "glass" => GlassInv) /\ [ImageNext]_imageVars
        => [part = "glass" => Glass!ProposalsOnlyGrow]_imageVars
  <2> SUFFICES ASSUME GlassInv, Glass!Next, NEW id \in DOMAIN image \cap DOMAIN image'
               PROVE  /\ Glass!IsPrefix(image[id].approvals, image'[id].approvals)
                      /\ Glass!Settled(image[id]) => image'[id] = image[id]
    BY DEF ImageNext, Glass!ProposalsOnlyGrow
  <2>1. CASE image' = image
    <3>1. Len(image[id].approvals) \in Nat
      BY DEF GlassInv, GlassImage, Proposals
    <3> QED BY <2>1, <3>1 DEF Glass!IsPrefix
  <2>2. CASE Glass!Log!ApplyNext
    BY <2>2, GlassHead, GlassApplied DEF Glass!Log!ApplyNext, GlassInv
  <2>3. CASE Glass!Log!Restart
    BY <2>3, <2>1, GlassRestored DEF Glass!Log!Restart, GlassInv
  <2> QED
    BY <2>1, <2>2, <2>3 DEF Glass!Next, Glass!Log!Next, Glass!Log!Ask, Glass!Log!Submit,
       Glass!Log!Refuse
<1> QED
  BY <1>1, GlassInductive, PTL DEF ImageSpec, ProposalsOnlyGrow

-----------------------------------------------------------------------------
(* Node and controller registrations, producer ids *)

BrokersLog == INSTANCE FoldProofs WITH Empty <- Brokers!NewImage, Apply <- Brokers!Apply

Cordoned == {{}, {{}}}

Registrations == [epoch : Nat, fenced : BOOLEAN, shutdown : BOOLEAN,
                  dirs : SUBSET Dirs, cordoned : Cordoned]

Blocks == [broker : Node, epoch : Nat, next : Nat \ {0}]

BrokerImage(img) ==
  /\ img = [brokers |-> img.brokers, controllers |-> img.controllers,
            producers |-> img.producers]
  /\ IsFiniteSet(DOMAIN img.brokers) /\ DOMAIN img.brokers \subseteq Node
  /\ img.brokers \in [DOMAIN img.brokers -> Registrations]
  /\ IsFiniteSet(DOMAIN img.controllers) /\ DOMAIN img.controllers \subseteq Node
  /\ img.controllers \in [DOMAIN img.controllers -> Nat]
  /\ img.producers = {} \/ \E block \in Blocks : img.producers = {block}

RegistrationOf(img, b) ==
  [kind |-> "Registration", broker |-> b, registration |-> img.brokers[b]]

ControllerOf(img, c) ==
  [kind |-> "ControllerRegistration", controller |-> c, incarnation |-> img.controllers[c]]

BlockRecord(block) ==
  [kind |-> "ProducerIds", broker |-> block.broker, epoch |-> block.epoch,
   next |-> block.next]

\* The three sections of a snapshot, and the images between them.
Image(registered, controllers, producers) ==
  [brokers |-> registered, controllers |-> controllers, producers |-> producers]

\* The registrations of the brokers are replayed into an empty image.
LEMMA RegistrationsRestored ==
  ASSUME NEW img, BrokerImage(img)
  PROVE  BrokersLog!Replay(Brokers!NewImage, {RegistrationOf(img, b) : b \in DOMAIN img.brokers})
           = Image(img.brokers, Brokers!EmptyMap, {})
<1> DEFINE map == img.brokers
           S == {RegistrationOf(img, b) : b \in DOMAIN map}
           Ids(s) == {rec.broker : rec \in s}
           M(s) == [b \in Ids(s) |-> map[b]]
           h == [s \in SUBSET S |-> Image(M(s), Brokers!EmptyMap, {})]
<1>1. BrokersLog!Tracks(h, Brokers!NewImage, S)
  <2>1. h[{}] = Brokers!NewImage
    BY DEF Brokers!NewImage, Brokers!EmptyMap, Brokers!None, Image
  <2>2. ASSUME NEW s \in SUBSET S, NEW x \in s
        PROVE  h[s] = Brokers!Apply(h[s \ {x}], x)
    <3>1. PICK b \in DOMAIN map : x = RegistrationOf(img, b)
      OBVIOUS
    <3> DEFINE A == Ids(s)
               B == Ids(s \ {x})
    <3>2. A = B \cup {b}
      BY <3>1 DEF RegistrationOf
    <3>3. Brokers!Put(M(s \ {x}), b, map[b]) = M(s)
      <4> HIDE DEF map, S
      <4>1. M(s) = [i \in A |-> map[i]] /\ M(s \ {x}) = [i \in B |-> map[i]]
        OBVIOUS
      <4> HIDE DEF A, B, M
      <4> QED BY <3>2, <4>1 DEF Brokers!Put
    <3>4. h[s] = Image(M(s), Brokers!EmptyMap, {})
          /\ h[s \ {x}] = Image(M(s \ {x}), Brokers!EmptyMap, {})
      OBVIOUS
    <3> HIDE DEF h, M, S, map
    <3>5. Brokers!Apply(h[s \ {x}], x)
            = [h[s \ {x}] EXCEPT !.brokers = Brokers!Put(h[s \ {x}].brokers, b, map[b])]
      BY <3>1 DEF Brokers!Apply, RegistrationOf, map
    <3> QED
      BY <3>3, <3>4, <3>5 DEF Image
  <2> HIDE DEF S
  <2>3. h = [s \in SUBSET S |-> h[s]]
    OBVIOUS
  <2> HIDE DEF h
  <2> QED
    BY <2>1, <2>2, <2>3 DEF BrokersLog!Tracks
<1>2. BrokersLog!IsFiniteSet(S)
  <2> DEFINE f == [b \in DOMAIN map |-> RegistrationOf(img, b)]
  <2>1. f \in Surjection(DOMAIN map, S)
    BY DEF Surjection
  <2>2. IsFiniteSet(DOMAIN map)
    BY DEF BrokerImage
  <2> HIDE DEF S, f, map
  <2>3. IsFiniteSet(S)
    BY <2>1, <2>2, FS_Surjection
  <2> QED BY <2>3 DEF IsFiniteSet, BrokersLog!IsFiniteSet
<1>3. M(S) = map
  <2>1. \A b \in DOMAIN map : RegistrationOf(img, b) \in S /\ RegistrationOf(img, b).broker = b
    BY DEF RegistrationOf
  <2>2. Ids(S) \subseteq DOMAIN map /\ DOMAIN map \subseteq Ids(S)
    BY <2>1
  <2>3. Ids(S) = DOMAIN map
    BY <2>2
  <2>4. map = [b \in DOMAIN map |-> map[b]]
    BY DEF BrokerImage
  <2> HIDE DEF S, Ids, map
  <2> QED
    BY <2>3, <2>4
<1>4. h[S] = Image(map, Brokers!EmptyMap, {})
  BY <1>3
<1> HIDE DEF h, S
<1> QED
  BY <1>1, <1>2, <1>4, BrokersLog!ReplayIs DEF S

\* Those of the controllers follow.
LEMMA ControllersRestored ==
  ASSUME NEW img, BrokerImage(img)
  PROVE  BrokersLog!Replay(Image(img.brokers, Brokers!EmptyMap, {}),
             {ControllerOf(img, b) : b \in DOMAIN img.controllers})
           = Image(img.brokers, img.controllers, {})
<1> DEFINE base == Image(img.brokers, Brokers!EmptyMap, {})
           map == img.controllers
           S == {ControllerOf(img, b) : b \in DOMAIN map}
           Ids(s) == {rec.controller : rec \in s}
           M(s) == [b \in Ids(s) |-> map[b]]
           h == [s \in SUBSET S |-> Image(img.brokers, M(s), {})]
<1>1. BrokersLog!Tracks(h, base, S)
  <2>1. h[{}] = base
    BY DEF Brokers!EmptyMap, Image
  <2>2. ASSUME NEW s \in SUBSET S, NEW x \in s
        PROVE  h[s] = Brokers!Apply(h[s \ {x}], x)
    <3>1. PICK b \in DOMAIN map : x = ControllerOf(img, b)
      OBVIOUS
    <3> DEFINE A == Ids(s)
               B == Ids(s \ {x})
    <3>2. A = B \cup {b}
      BY <3>1 DEF ControllerOf
    <3>3. Brokers!Put(M(s \ {x}), b, map[b]) = M(s)
      <4> HIDE DEF map, S
      <4>1. M(s) = [i \in A |-> map[i]] /\ M(s \ {x}) = [i \in B |-> map[i]]
        OBVIOUS
      <4> HIDE DEF A, B, M
      <4> QED BY <3>2, <4>1 DEF Brokers!Put
    <3>4. h[s] = Image(img.brokers, M(s), {})
          /\ h[s \ {x}] = Image(img.brokers, M(s \ {x}), {})
      OBVIOUS
    <3> HIDE DEF h, M, S, map
    <3>5. Brokers!Apply(h[s \ {x}], x)
            = [h[s \ {x}] EXCEPT !.controllers = Brokers!Put(h[s \ {x}].controllers, b, map[b])]
      BY <3>1 DEF Brokers!Apply, ControllerOf, map
    <3> QED
      BY <3>3, <3>4, <3>5 DEF Image
  <2> HIDE DEF S
  <2>3. h = [s \in SUBSET S |-> h[s]]
    OBVIOUS
  <2> HIDE DEF h
  <2> QED
    BY <2>1, <2>2, <2>3 DEF BrokersLog!Tracks
<1>2. BrokersLog!IsFiniteSet(S)
  <2> DEFINE f == [b \in DOMAIN map |-> ControllerOf(img, b)]
  <2>1. f \in Surjection(DOMAIN map, S)
    BY DEF Surjection
  <2>2. IsFiniteSet(DOMAIN map)
    BY DEF BrokerImage
  <2> HIDE DEF S, f, map
  <2>3. IsFiniteSet(S)
    BY <2>1, <2>2, FS_Surjection
  <2> QED BY <2>3 DEF IsFiniteSet, BrokersLog!IsFiniteSet
<1>3. M(S) = map
  <2>1. \A b \in DOMAIN map : ControllerOf(img, b) \in S /\ ControllerOf(img, b).controller = b
    BY DEF ControllerOf
  <2>2. Ids(S) \subseteq DOMAIN map /\ DOMAIN map \subseteq Ids(S)
    BY <2>1
  <2>3. Ids(S) = DOMAIN map
    BY <2>2
  <2>4. map = [b \in DOMAIN map |-> map[b]]
    BY DEF BrokerImage
  <2> HIDE DEF S, Ids, map
  <2> QED
    BY <2>3, <2>4
<1>4. h[S] = Image(img.brokers, map, {})
  BY <1>3
<1> HIDE DEF h, S, base
<1> QED
  BY <1>1, <1>2, <1>4, BrokersLog!ReplayIs DEF S, base

\* Last comes the producer id block, which advances the next id from 0.
LEMMA ProducersRestored ==
  ASSUME NEW img, BrokerImage(img)
  PROVE  BrokersLog!Replay(Image(img.brokers, img.controllers, {}),
                           Brokers!ProducerRecords(img)) = img
<1> DEFINE base == Image(img.brokers, img.controllers, {})
           S == Brokers!ProducerRecords(img)
<1>0. img = Image(img.brokers, img.controllers, img.producers)
  BY DEF BrokerImage, Image
<1>1. CASE img.producers = {}
  <2>1. S = {} /\ base = img
    BY <1>0, <1>1 DEF Brokers!ProducerRecords
  <2> HIDE DEF S, base
  <2> QED BY <2>1, BrokersLog!ReplayNone DEF S, base
<1>2. ASSUME NEW block \in Blocks, img.producers = {block}
      PROVE  BrokersLog!Replay(base, S) = img
  <2> DEFINE x == BlockRecord(block)
  <2>1. S = {x}
    BY <1>2 DEF Brokers!ProducerRecords, BlockRecord
  <2>2. Brokers!Apply(base, x) = img
    <3>1. Brokers!NextProducerId(base) = 0 /\ block.next > 0
      BY DEF Brokers!NextProducerId, Brokers!None, Image, Blocks
    <3>2. Brokers!Advances(base, x)
      BY <3>1 DEF Brokers!Advances, BlockRecord
    <3>3. Brokers!Apply(base, x) = Brokers!ApplyProducerIds(base, x)
      BY DEF Brokers!Apply, BlockRecord
    <3>4. [broker |-> x.broker, epoch |-> x.epoch, next |-> x.next] = block
      BY DEF Blocks, BlockRecord
    <3>5. Brokers!ApplyProducerIds(base, x) = [base EXCEPT !.producers = {block}]
      BY <3>2, <3>4 DEF Brokers!ApplyProducerIds, Brokers!Some
    <3> QED BY <3>3, <3>5, <1>0, <1>2 DEF Image
  <2> HIDE DEF S, x, base
  <2> QED BY <2>1, <2>2, BrokersLog!ReplayOne
<1> QED
  BY <1>1, <1>2 DEF BrokerImage

\* from_records after to_records gives the registrations and the next
\* producer id back.
LEMMA BrokersRestored ==
  ASSUME NEW img, BrokerImage(img)
  PROVE  Brokers!FromRecords(Brokers!ToRecords(img)) = img
<1> DEFINE S1 == {RegistrationOf(img, b) : b \in DOMAIN img.brokers}
           S2 == {ControllerOf(img, b) : b \in DOMAIN img.controllers}
           S3 == Brokers!ProducerRecords(img)
           m == [k \in 0..3 |->
                   CASE k = 0 -> Brokers!NewImage
                     [] k = 1 -> Image(img.brokers, Brokers!EmptyMap, {})
                     [] k = 2 -> Image(img.brokers, img.controllers, {})
                     [] k = 3 -> img]
<1>1. Brokers!FromRecords(Brokers!ToRecords(img)) = BrokersLog!FromRecords(<<S1, S2, S3>>)
  <2>1. Brokers!ToRecords(img) = <<S1, S2, S3>>
    BY DEF Brokers!ToRecords, Brokers!RegistrationRecords, RegistrationOf, ControllerOf
  <2>2. \A x : Brokers!FromRecords(x) = BrokersLog!FromRecords(x)
    BY DEF Brokers!FromRecords, BrokersLog!FromRecords,
       Brokers!FoldLeft, BrokersLog!FoldLeft, Brokers!MapThenFoldSet,
       BrokersLog!MapThenFoldSet, Brokers!Max, BrokersLog!Max, Brokers!FoldSet,
       BrokersLog!FoldSet
  <2> QED BY <2>1, <2>2
<1> DEFINE sections == <<S1, S2, S3>>
<1> HIDE DEF S1, S2, S3
<1>2. m[0] = Brokers!NewImage /\ m[1] = Image(img.brokers, Brokers!EmptyMap, {})
      /\ m[2] = Image(img.brokers, img.controllers, {}) /\ m[3] = img
  OBVIOUS
<1> HIDE DEF m
<1>3. m[1] = BrokersLog!Replay(m[0], S1)
  BY <1>2, RegistrationsRestored DEF S1
<1>4. m[2] = BrokersLog!Replay(m[1], S2)
  BY <1>2, ControllersRestored DEF S2
<1>5. m[3] = BrokersLog!Replay(m[2], S3)
  BY <1>2, ProducersRestored DEF S3
<1>6. DOMAIN sections = 1..3 /\ sections[1] = S1 /\ sections[2] = S2 /\ sections[3] = S3
  OBVIOUS
<1>7. BrokersLog!Between(m, sections, 3)
  <2> HIDE DEF sections
  <2>1. \A k \in 1..3 : k = 1 \/ k = 2 \/ k = 3
    OBVIOUS
  <2> QED
    BY <1>2, <1>3, <1>4, <1>5, <1>6, <2>1 DEF BrokersLog!Between
<1> HIDE DEF sections
<1>8. BrokersLog!FromRecords(sections) = m[3]
  BY <1>6, <1>7, BrokersLog!FromRecordsIs
<1> QED
  BY <1>1, <1>2, <1>8 DEF sections

\* What a request built after reading the image at offset `seen` carries: an
\* epoch from before that offset, and at most the next block of producer ids.
BrokerRecord(rec, seen) ==
  \/ rec \in [kind : {"Registration"}, broker : Node, registration : Registrations]
  \/ /\ rec \in [kind : {"RegistrationChange"}, broker : Node, epoch : Nat,
                 fencing : {"unfence", "none", "fence"}, shutdown : BOOLEAN,
                 dirs : SUBSET Dirs, cordoned : Cordoned]
     /\ rec.epoch < seen
  \/ /\ rec \in [kind : {"UnregisterBroker"}, broker : Node, epoch : Nat]
     /\ rec.epoch < seen
  \/ rec \in [kind : {"ControllerRegistration"}, controller : Node, incarnation : Nat]
  \/ rec \in [kind : {"UnregisterController"}, controller : Node]
  \/ rec \in [kind : {"ProducerIds"}, broker : Node, epoch : Nat, next : Nat \ {0}]

NextInReach(img, rec) ==
  rec.kind = "ProducerIds" => rec.next <= Brokers!NextProducerId(img) + 1

BrokerRequest(request) ==
  /\ request = [record |-> request.record, seen |-> request.seen]
  /\ request.seen \in Nat
  /\ BrokerRecord(request.record, request.seen)
  /\ NextInReach(image, request.record)

\* The epoch of a committed registration is its offset.
Appended(request) ==
  /\ BrokerRequest(request)
  /\ request.record.kind = "Registration" => request.record.registration.epoch < committed

EpochsBelow(img, offset) == \A b \in DOMAIN img.brokers : img.brokers[b].epoch < offset

\* A sequence, of whatever it holds.
IsSequence(s) == s \in Seq({s[i] : i \in DOMAIN s})

BrokersInv ==
  /\ asked \in Nat /\ committed \in Nat
  /\ BrokerImage(image) /\ EpochsBelow(image, committed) /\ replayed = image
  /\ \A request \in pending : BrokerRequest(request)
  /\ IsSequence(unapplied)
  /\ \A i \in DOMAIN unapplied : Appended(unapplied[i])

\* Every handler takes the epoch and the next producer id from the image.
LEMMA BrokerRequestsSound ==
  ASSUME asked \in Nat, committed \in Nat, BrokerImage(image), EpochsBelow(image, committed),
         NEW rec \in Brokers!Requests(image, asked)
  PROVE  BrokerRecord(rec, committed) /\ NextInReach(image, rec)
<1>0. \A b \in DOMAIN image.brokers :
        /\ b \in Node /\ image.brokers[b].epoch \in Nat
        /\ image.brokers[b].epoch < committed
  BY DEF BrokerImage, EpochsBelow, Registrations
<1>1. CASE rec \in Brokers!Register
  <2>1. PICK b \in Node, online \in SUBSET Dirs :
          rec = [kind |-> "Registration", broker |-> b,
                 registration |-> [epoch |-> 0, fenced |-> TRUE, shutdown |-> FALSE,
                                   dirs |-> online, cordoned |-> {}]]
    BY <1>1 DEF Brokers!Register, Brokers!None
  <2> DEFINE reg == [epoch |-> 0, fenced |-> TRUE, shutdown |-> FALSE,
                     dirs |-> online, cordoned |-> {}]
  <2>2. reg \in Registrations
    BY DEF Registrations, Cordoned
  <2> HIDE DEF reg
  <2> QED BY <2>1, <2>2 DEF BrokerRecord, NextInReach, reg
<1>2. CASE rec \in Brokers!Heartbeat(image)
  <2>1. PICK b \in DOMAIN image.brokers, fencing \in {"unfence", "none", "fence"},
             shutdown \in BOOLEAN, online \in SUBSET Dirs, cordoned \in Cordoned :
          rec = [kind |-> "RegistrationChange", broker |-> b,
                 epoch |-> image.brokers[b].epoch, fencing |-> fencing,
                 shutdown |-> shutdown, dirs |-> online, cordoned |-> cordoned]
    BY <1>2 DEF Brokers!Heartbeat, Brokers!None, Brokers!Some, Cordoned
  <2> QED BY <2>1, <1>0 DEF BrokerRecord, NextInReach
<1>3. CASE rec \in Brokers!UnregisterBroker(image)
  BY <1>0, <1>3 DEF Brokers!UnregisterBroker, BrokerRecord, NextInReach
<1>4. CASE rec \in Brokers!RegisterController(asked)
  BY <1>4 DEF Brokers!RegisterController, BrokerRecord, NextInReach
<1>5. CASE rec \in Brokers!UnregisterController(image)
  BY <1>5 DEF Brokers!UnregisterController, BrokerRecord, NextInReach, BrokerImage
<1>6. CASE rec \in Brokers!AllocateProducerIds(image)
  <2>1. Brokers!NextProducerId(image) \in Nat
    BY DEF Brokers!NextProducerId, Brokers!None, BrokerImage, Blocks
  <2> QED BY <1>0, <1>6, <2>1 DEF Brokers!AllocateProducerIds, BrokerRecord, NextInReach
<1> QED
  BY <1>1, <1>2, <1>3, <1>4, <1>5, <1>6 DEF Brokers!Requests

\* What applying a record may do: nothing to a registration made after the
\* record was built, unless it is a registration itself, and to the producer
\* ids one block at most.
BrokerEffect(img, new, rec, seen) ==
  /\ \A b \in DOMAIN img.brokers :
       \/ b \in DOMAIN new.brokers /\ new.brokers[b] = img.brokers[b]
       \/ rec.kind = "Registration"
       \/ seen > img.brokers[b].epoch
  /\ new.producers # img.producers =>
       Brokers!NextProducerId(new) = Brokers!NextProducerId(img) + 1

\* A step that leaves an image sound, with the epochs below the offset.
BrokerSound(img, new, rec, seen, offset) ==
  BrokerImage(new) /\ EpochsBelow(new, offset) /\ BrokerEffect(img, new, rec, seen)

\* The epoch of a record that apply accepts is that of the registration.
LEMMA AtEpochIs ==
  ASSUME NEW img, NEW rec, Brokers!AtEpoch(img, rec)
  PROVE  rec.broker \in DOMAIN img.brokers /\ img.brokers[rec.broker].epoch = rec.epoch
BY DEF Brokers!AtEpoch, Brokers!BrokerEpoch, Brokers!Some, Brokers!None

\* Records that change the brokers only.
LEMMA BrokersChanged ==
  ASSUME NEW img, BrokerImage(img), NEW map, NEW new, new = [img EXCEPT !.brokers = map],
         IsFiniteSet(DOMAIN map), DOMAIN map \subseteq Node,
         map \in [DOMAIN map -> Registrations]
  PROVE  /\ BrokerImage(new) /\ new.brokers = map
         /\ new.producers = img.producers
<1>1. new = [brokers |-> map, controllers |-> img.controllers, producers |-> img.producers]
  BY DEF BrokerImage
<1>2. new.brokers = map /\ new.controllers = img.controllers /\ new.producers = img.producers
  BY <1>1
<1> QED
  BY <1>1, <1>2 DEF BrokerImage

\* A registration replaces the one before it.
LEMMA ApplyRegistrationSound ==
  ASSUME NEW img, BrokerImage(img), NEW offset \in Nat, EpochsBelow(img, offset),
         NEW rec, NEW seen \in Nat, rec.kind = "Registration", BrokerRecord(rec, seen),
         rec.registration.epoch < offset
  PROVE  BrokerSound(img, Brokers!Apply(img, rec), rec, seen, offset)
<1> DEFINE map == Brokers!Put(img.brokers, rec.broker, rec.registration)
           new == [img EXCEPT !.brokers = map]
<1>1. Brokers!Apply(img, rec) = new
  BY DEF Brokers!Apply
<1>2. rec.broker \in Node /\ rec.registration \in Registrations
  BY DEF BrokerRecord
<1>3. DOMAIN map = DOMAIN img.brokers \cup {rec.broker} /\ IsFiniteSet(DOMAIN map)
  BY FS_AddElement DEF BrokerImage, Brokers!Put
<1>4. map \in [DOMAIN map -> Registrations] /\ DOMAIN map \subseteq Node
      /\ \A b \in DOMAIN map : map[b].epoch < offset
  BY <1>2, <1>3 DEF BrokerImage, EpochsBelow, Brokers!Put
<1> HIDE DEF map
<1>5. BrokerImage(new) /\ new.brokers = map /\ new.producers = img.producers
  BY <1>3, <1>4, BrokersChanged
<1> HIDE DEF new
<1> QED
  BY <1>1, <1>4, <1>5 DEF BrokerSound, BrokerEffect, EpochsBelow

\* A change acts on the registration of its epoch, or on nothing.
LEMMA ApplyChangeSound ==
  ASSUME NEW img, BrokerImage(img), NEW offset \in Nat, EpochsBelow(img, offset),
         NEW rec, NEW seen \in Nat, rec.kind = "RegistrationChange", BrokerRecord(rec, seen)
  PROVE  BrokerSound(img, Brokers!Apply(img, rec), rec, seen, offset)
<1>0. BrokerSound(img, img, rec, seen, offset)
  BY DEF BrokerSound, BrokerEffect
<1>1. Brokers!Apply(img, rec) = Brokers!ApplyRegistrationChange(img, rec)
  BY DEF Brokers!Apply
<1>2. CASE ~Brokers!AtEpoch(img, rec)
  BY <1>0, <1>1, <1>2 DEF Brokers!ApplyRegistrationChange
<1>3. CASE Brokers!AtEpoch(img, rec)
  <2> DEFINE reg == img.brokers[rec.broker]
             changed == Brokers!AppliedTo(rec, reg)
             map == [img.brokers EXCEPT ![rec.broker] = changed]
             new == [img EXCEPT !.brokers = map]
  <2>1. rec.broker \in DOMAIN img.brokers /\ reg.epoch = rec.epoch /\ reg \in Registrations
    BY <1>3, AtEpochIs DEF BrokerImage
  <2>2. rec.epoch < seen /\ rec.shutdown \in BOOLEAN /\ rec.dirs \in SUBSET Dirs
        /\ rec.cordoned \in Cordoned
    BY DEF BrokerRecord
  <2>3. changed \in Registrations /\ changed.epoch = reg.epoch
    <3> DEFINE f == Brokers!Fenced(rec.fencing, reg.fenced)
               u == reg.shutdown \/ rec.shutdown
               d == IF rec.dirs = {} THEN reg.dirs ELSE rec.dirs
               c == IF rec.cordoned = {} THEN reg.cordoned ELSE rec.cordoned
    <3>1. f \in BOOLEAN /\ u \in BOOLEAN
      BY DEF Brokers!Fenced
    <3>2. d \in SUBSET Dirs /\ c \in Cordoned
      BY <2>1, <2>2 DEF Registrations
    <3>3. changed = [reg EXCEPT !.fenced = f, !.shutdown = u, !.dirs = d, !.cordoned = c]
      BY DEF Brokers!AppliedTo, Brokers!None
    <3> HIDE DEF f, u, d, c, changed, reg
    <3> QED BY <2>1, <3>1, <3>2, <3>3 DEF Registrations
  <2> HIDE DEF changed
  <2>4. /\ map \in [DOMAIN img.brokers -> Registrations]
        /\ \A b \in DOMAIN map : map[b].epoch < offset
        /\ \A b \in DOMAIN map : b # rec.broker => map[b] = img.brokers[b]
    BY <2>1, <2>3 DEF BrokerImage, EpochsBelow
  <2>5. Brokers!Apply(img, rec) = new
    BY <1>1, <1>3 DEF Brokers!ApplyRegistrationChange, changed
  <2> HIDE DEF map
  <2>6. DOMAIN map = DOMAIN img.brokers
    BY <2>4
  <2>7. BrokerImage(new) /\ new.brokers = map /\ new.producers = img.producers
    BY <2>4, <2>6, BrokersChanged DEF BrokerImage
  <2> HIDE DEF new
  <2> QED
    BY <2>1, <2>2, <2>4, <2>5, <2>6, <2>7 DEF BrokerSound, BrokerEffect, EpochsBelow
<1> QED
  BY <1>2, <1>3

\* An unregistration removes the registration of its epoch, or nothing.
LEMMA ApplyUnregisterSound ==
  ASSUME NEW img, BrokerImage(img), NEW offset \in Nat, EpochsBelow(img, offset),
         NEW rec, NEW seen \in Nat, rec.kind = "UnregisterBroker", BrokerRecord(rec, seen)
  PROVE  BrokerSound(img, Brokers!Apply(img, rec), rec, seen, offset)
<1>0. BrokerSound(img, img, rec, seen, offset)
  BY DEF BrokerSound, BrokerEffect
<1>1. Brokers!Apply(img, rec) = Brokers!ApplyUnregisterBroker(img, rec)
  BY DEF Brokers!Apply
<1>2. CASE ~Brokers!AtEpoch(img, rec)
  BY <1>0, <1>1, <1>2 DEF Brokers!ApplyUnregisterBroker
<1>3. CASE Brokers!AtEpoch(img, rec)
  <2> DEFINE map == Brokers!Drop(img.brokers, {rec.broker})
             new == [img EXCEPT !.brokers = map]
  <2>1. img.brokers[rec.broker].epoch < seen
    BY <1>3, AtEpochIs DEF BrokerRecord
  <2>2. DOMAIN map = DOMAIN img.brokers \ {rec.broker} /\ IsFiniteSet(DOMAIN map)
    BY FS_RemoveElement DEF BrokerImage, Brokers!Drop
  <2>3. map \in [DOMAIN map -> Registrations] /\ DOMAIN map \subseteq Node
        /\ \A b \in DOMAIN map : map[b] = img.brokers[b]
    BY <2>2 DEF BrokerImage, Brokers!Drop
  <2>4. Brokers!Apply(img, rec) = new
    BY <1>1, <1>3 DEF Brokers!ApplyUnregisterBroker
  <2> HIDE DEF map
  <2>5. BrokerImage(new) /\ new.brokers = map /\ new.producers = img.producers
    BY <2>2, <2>3, BrokersChanged
  <2> HIDE DEF new
  <2> QED
    BY <2>1, <2>2, <2>3, <2>4, <2>5 DEF BrokerSound, BrokerEffect, EpochsBelow
<1> QED
  BY <1>2, <1>3

\* A controller's registration leaves the brokers and the producer ids.
LEMMA ApplyControllerSound ==
  ASSUME NEW img, BrokerImage(img), NEW offset \in Nat, EpochsBelow(img, offset),
         NEW rec, NEW seen \in Nat,
         rec.kind \in {"ControllerRegistration", "UnregisterController"},
         BrokerRecord(rec, seen)
  PROVE  BrokerSound(img, Brokers!Apply(img, rec), rec, seen, offset)
<1> DEFINE map == IF rec.kind = "UnregisterController"
                    THEN Brokers!Drop(img.controllers, {rec.controller})
                    ELSE Brokers!Put(img.controllers, rec.controller, rec.incarnation)
           new == [img EXCEPT !.controllers = map]
<1>1. Brokers!Apply(img, rec) = new
  BY DEF Brokers!Apply
<1>2. rec.controller \in Node
      /\ (rec.kind = "ControllerRegistration" => rec.incarnation \in Nat)
  BY DEF BrokerRecord
<1>3. IsFiniteSet(DOMAIN map) /\ DOMAIN map \subseteq Node /\ map \in [DOMAIN map -> Nat]
  <2>1. CASE rec.kind = "UnregisterController"
    <3>1. DOMAIN map = DOMAIN img.controllers \ {rec.controller}
      BY <2>1 DEF Brokers!Drop
    <3>2. IsFiniteSet(DOMAIN map)
      <4> HIDE DEF map
      <4> QED BY <3>1, FS_RemoveElement DEF BrokerImage
    <3> QED BY <2>1, <3>1, <3>2 DEF Brokers!Drop, BrokerImage
  <2>2. CASE rec.kind = "ControllerRegistration"
    <3>1. DOMAIN map = DOMAIN img.controllers \cup {rec.controller}
      BY <2>2 DEF Brokers!Put
    <3>2. IsFiniteSet(DOMAIN map)
      <4> HIDE DEF map
      <4> QED BY <3>1, FS_AddElement DEF BrokerImage
    <3> QED BY <1>2, <2>2, <3>1, <3>2 DEF Brokers!Put, BrokerImage
  <2> QED BY <2>1, <2>2
<1> HIDE DEF map
<1>4. new = [brokers |-> img.brokers, controllers |-> map, producers |-> img.producers]
  BY DEF BrokerImage
<1>5. new.brokers = img.brokers /\ new.controllers = map /\ new.producers = img.producers
  BY <1>4
<1> HIDE DEF new
<1>6. BrokerImage(new)
  BY <1>3, <1>4, <1>5 DEF BrokerImage
<1> QED
  BY <1>1, <1>5, <1>6 DEF BrokerSound, BrokerEffect, EpochsBelow

\* A block of producer ids is taken only right after the last one.
LEMMA ApplyProducerIdsSound ==
  ASSUME NEW img, BrokerImage(img), NEW offset \in Nat, EpochsBelow(img, offset),
         NEW rec, NEW seen \in Nat, rec.kind = "ProducerIds", BrokerRecord(rec, seen),
         NextInReach(img, rec)
  PROVE  BrokerSound(img, Brokers!Apply(img, rec), rec, seen, offset)
<1>0. BrokerSound(img, img, rec, seen, offset)
  BY DEF BrokerSound, BrokerEffect
<1>1. Brokers!Apply(img, rec) = Brokers!ApplyProducerIds(img, rec)
  BY DEF Brokers!Apply
<1>2. CASE ~Brokers!Advances(img, rec)
  BY <1>0, <1>1, <1>2 DEF Brokers!ApplyProducerIds
<1>3. CASE Brokers!Advances(img, rec)
  <2> DEFINE block == [broker |-> rec.broker, epoch |-> rec.epoch, next |-> rec.next]
             new == [img EXCEPT !.producers = {block}]
  <2>1. block \in Blocks /\ block.next = rec.next /\ rec.next \in Nat
    BY DEF BrokerRecord, Blocks
  <2>2. Brokers!Apply(img, rec) = new
    BY <1>1, <1>3 DEF Brokers!ApplyProducerIds, Brokers!Some
  <2> HIDE DEF block
  <2>3. new = [brokers |-> img.brokers, controllers |-> img.controllers,
               producers |-> {block}]
    BY DEF BrokerImage
  <2>4. new.brokers = img.brokers /\ new.controllers = img.controllers
        /\ new.producers = {block}
    BY <2>3
  <2> HIDE DEF new
  <2>5. BrokerImage(new)
    BY <2>1, <2>3, <2>4 DEF BrokerImage
  <2>6. Brokers!NextProducerId(new) = rec.next
    BY <2>1, <2>4 DEF Brokers!NextProducerId, Brokers!None
  <2>7. Brokers!NextProducerId(img) \in Nat
    BY DEF Brokers!NextProducerId, Brokers!None, BrokerImage, Blocks
  <2>8. rec.next = Brokers!NextProducerId(img) + 1
    BY <1>3, <2>1, <2>7 DEF Brokers!Advances, NextInReach
  <2> QED
    BY <2>2, <2>4, <2>5, <2>6, <2>8 DEF BrokerSound, BrokerEffect, EpochsBelow
<1> QED
  BY <1>2, <1>3

\* Every record of a request leaves the image sound.
LEMMA BrokerApplySound ==
  ASSUME NEW img, BrokerImage(img), NEW offset \in Nat, EpochsBelow(img, offset),
         NEW rec, NEW seen \in Nat, BrokerRecord(rec, seen), NextInReach(img, rec),
         rec.kind = "Registration" => rec.registration.epoch < offset
  PROVE  BrokerSound(img, Brokers!Apply(img, rec), rec, seen, offset)
<1>1. rec.kind \in {"Registration", "RegistrationChange", "UnregisterBroker", "ProducerIds"}
      \/ rec.kind \in {"ControllerRegistration", "UnregisterController"}
  BY DEF BrokerRecord
<1> QED
  BY <1>1, ApplyRegistrationSound, ApplyChangeSound, ApplyUnregisterSound,
     ApplyControllerSound, ApplyProducerIdsSound

\* The next producer id never goes back.
LEMMA NextNeverBack ==
  ASSUME NEW img, NEW new, BrokerImage(img), NEW rec, NEW seen, BrokerEffect(img, new, rec, seen)
  PROVE  /\ Brokers!NextProducerId(img) \in Nat
         /\ Brokers!NextProducerId(new) \in Nat
         /\ Brokers!NextProducerId(img) <= Brokers!NextProducerId(new)
<1>1. Brokers!NextProducerId(img) \in Nat
  BY DEF Brokers!NextProducerId, Brokers!None, BrokerImage, Blocks
<1>2. CASE new.producers = img.producers
  BY <1>1, <1>2 DEF Brokers!NextProducerId
<1>3. CASE new.producers # img.producers
  BY <1>1, <1>3 DEF BrokerEffect
<1> QED
  BY <1>2, <1>3, <1>1

\* The leader stamps a registration with the offset at which it is appended.
LEMMA StampedAppended ==
  ASSUME NEW offset \in Nat, NEW rec, NEW seen \in Nat, BrokerRecord(rec, seen),
         NEW new, new = Brokers!Stamped(rec, offset)
  PROVE  /\ BrokerRecord(new, seen)
         /\ new.kind = rec.kind
         /\ new.kind = "Registration" => new.registration.epoch = offset
         /\ new.kind # "Registration" => new = rec
<1>1. CASE rec.kind = "Registration"
  <2> DEFINE reg == [rec.registration EXCEPT !.epoch = offset]
  <2>1. rec \in [kind : {"Registration"}, broker : Node, registration : Registrations]
    BY <1>1 DEF BrokerRecord
  <2>2. reg \in Registrations /\ reg.epoch = offset
    BY <2>1 DEF Registrations
  <2>3. new = [rec EXCEPT !.registration = reg]
    BY <1>1 DEF Brokers!Stamped
  <2> HIDE DEF reg
  <2>4. new \in [kind : {"Registration"}, broker : Node, registration : Registrations]
        /\ new.registration = reg
    BY <2>1, <2>2, <2>3
  <2> QED
    BY <2>1, <2>2, <2>4 DEF BrokerRecord
<1>2. CASE rec.kind # "Registration"
  BY <1>2 DEF Brokers!Stamped
<1> QED
  BY <1>1, <1>2

\* The image of a registry whose requests are sound stays so.
BrokersKept ==
  /\ BrokerImage(image') /\ EpochsBelow(image', committed') /\ replayed' = image'
  /\ Brokers!NextProducerId(image) \in Nat /\ Brokers!NextProducerId(image') \in Nat
  /\ Brokers!NextProducerId(image) <= Brokers!NextProducerId(image')
  /\ committed' \in Nat /\ committed <= committed'

\* Requests stay sound while the next producer id and the log grow.
LEMMA RequestKept ==
  ASSUME BrokersInv, BrokersKept, NEW request
  PROVE  /\ BrokerRequest(request) => BrokerRequest(request)'
         /\ Appended(request) => Appended(request)'
<1>1. ASSUME BrokerRequest(request) PROVE BrokerRequest(request)'
  <2>1. request.record.kind = "ProducerIds" => request.record.next \in Nat
    BY <1>1 DEF BrokerRequest, BrokerRecord
  <2>2. NextInReach(image', request.record)
    BY <1>1, <2>1 DEF BrokerRequest, NextInReach, BrokersKept
  <2> QED BY <1>1, <2>2 DEF BrokerRequest
<1>2. ASSUME Appended(request), request.record.kind = "Registration"
      PROVE  request.record.registration.epoch < committed'
  <2>1. request.record.registration.epoch \in Nat
    BY <1>2 DEF Appended, BrokerRequest, BrokerRecord, Registrations
  <2> QED BY <1>2, <2>1 DEF Appended, BrokersInv, BrokersKept
<1> QED
  BY <1>1, <1>2 DEF Appended

\* Steps that leave the image alone.
LEMMA SameImageKept ==
  ASSUME BrokersInv, image' = image, replayed' = replayed, committed' \in Nat,
         committed <= committed'
  PROVE  BrokersKept
<1>1. Brokers!NextProducerId(image) \in Nat
  BY DEF Brokers!NextProducerId, Brokers!None, BrokerImage, Blocks, BrokersInv
<1>2. EpochsBelow(image', committed')
  BY DEF BrokersInv, EpochsBelow, BrokerImage, Registrations
<1> QED
  BY <1>1, <1>2 DEF BrokersKept, BrokersInv

\* The record at the head of the log, applied.
LEMMA HeadApplied ==
  ASSUME BrokersInv, Brokers!ApplyNext
  PROVE  /\ BrokersKept
         /\ BrokerEffect(image, image', Head(unapplied).record, Head(unapplied).seen)
<1> DEFINE q == unapplied[1]
<1>1. 1 \in DOMAIN unapplied /\ Head(unapplied) = q
  BY DEF BrokersInv, IsSequence, Brokers!ApplyNext
<1>2. Appended(q)
  BY <1>1 DEF BrokersInv
<1>3. image' = Brokers!Apply(image, q.record) /\ replayed' = Brokers!Apply(replayed, q.record)
      /\ committed' = committed
  BY <1>1 DEF Brokers!ApplyNext
<1> HIDE DEF q
<1>4. BrokerSound(image, image', q.record, q.seen, committed)
  BY <1>2, <1>3, BrokerApplySound DEF BrokersInv, Appended, BrokerRequest
<1>5. BrokerEffect(image, image', q.record, q.seen)
  BY <1>4 DEF BrokerSound
<1> QED
  BY <1>1, <1>3, <1>4, <1>5, NextNeverBack DEF BrokersKept, BrokersInv, BrokerSound

\* Append and Tail of a sequence, by their elements.
LEMMA SequenceOf ==
  ASSUME NEW S, NEW s \in Seq(S)
  PROVE  IsSequence(s) /\ DOMAIN s = 1..Len(s) /\ Len(s) \in Nat
<1>1. s \in [1..Len(s) -> {s[i] : i \in DOMAIN s}] /\ Len(s) \in Nat /\ DOMAIN s = 1..Len(s)
  OBVIOUS
<1> QED
  BY <1>1 DEF IsSequence

\* Append keeps the elements and adds one at the end.
LEMMA AppendOf ==
  ASSUME NEW s, IsSequence(s), NEW e, NEW t, t = Append(s, e)
  PROVE  IsSequence(t) /\ \A i \in DOMAIN t : t[i] = e \/ (i \in DOMAIN s /\ t[i] = s[i])
<1> DEFINE S == {s[i] : i \in DOMAIN s} \cup {e}
<1>1. s \in Seq(S)
  <2>1. s \in Seq({s[i] : i \in DOMAIN s})
    BY DEF IsSequence
  <2> QED BY <2>1
<1> HIDE DEF S
<1>2. t \in Seq(S) /\ Len(t) = Len(s) + 1
      /\ \A i \in 1..Len(t) : t[i] = IF i = Len(s) + 1 THEN e ELSE s[i]
  BY <1>1, e \in S DEF S
<1>3. IsSequence(t) /\ DOMAIN t = 1..Len(t) /\ DOMAIN s = 1..Len(s) /\ Len(s) \in Nat
  BY <1>1, <1>2, SequenceOf
<1> QED
  BY <1>2, <1>3

\* Tail keeps all elements but the first, one place down.
LEMMA TailOf ==
  ASSUME NEW s, IsSequence(s), s # <<>>, NEW t, t = Tail(s)
  PROVE  IsSequence(t) /\ \A i \in DOMAIN t : i + 1 \in DOMAIN s /\ t[i] = s[i + 1]
<1> DEFINE S == {s[i] : i \in DOMAIN s}
<1>1. s \in Seq(S)
  BY DEF IsSequence
<1> HIDE DEF S
<1>2. t \in Seq(S) /\ Len(t) = Len(s) - 1 /\ \A i \in 1..Len(t) : t[i] = s[i + 1]
  BY <1>1
<1>3. IsSequence(t) /\ DOMAIN t = 1..Len(t) /\ DOMAIN s = 1..Len(s) /\ Len(s) \in Nat
  BY <1>1, <1>2, SequenceOf
<1> QED
  BY <1>2, <1>3

\* BrokersInv holds at first.
LEMMA BrokersStart == Brokers!Init => BrokersInv
<1> SUFFICES ASSUME Brokers!Init PROVE BrokersInv
  OBVIOUS
<1>1. image.brokers = Brokers!EmptyMap /\ image.controllers = Brokers!EmptyMap
      /\ image.producers = {}
      /\ image = [brokers |-> image.brokers, controllers |-> image.controllers,
                  producers |-> image.producers]
  BY DEF Brokers!Init, Brokers!NewImage, Brokers!None
<1>2. DOMAIN Brokers!EmptyMap = {} /\ \A X : Brokers!EmptyMap \in [{} -> X]
  BY DEF Brokers!EmptyMap
<1>3. BrokerImage(image) /\ EpochsBelow(image, 0)
  BY <1>1, <1>2, FS_EmptySet DEF BrokerImage, EpochsBelow
<1>4. IsSequence(<<>>)
  BY DEF IsSequence
<1> QED
  BY <1>3, <1>4 DEF Brokers!Init, BrokersInv

\* Every step of BrokerRegistry keeps BrokersInv.
LEMMA BrokersStep ==
  ASSUME BrokersInv, [Brokers!Next]_(Brokers!vars)
  PROVE  BrokersInv'
<1>1. ASSUME BrokersKept, asked' \in Nat, UNCHANGED unapplied,
             \A request \in pending' : request \in pending \/ BrokerRequest(request)
      PROVE  BrokersInv'
  BY <1>1, RequestKept DEF BrokersInv, BrokersKept
<1>2. CASE Brokers!Ask
  <2>1. UNCHANGED <<image, replayed, unapplied, committed>> /\ asked' \in Nat
    BY <1>2 DEF Brokers!Ask, BrokersInv
  <2>2. BrokersKept
    BY <2>1, SameImageKept DEF BrokersInv
  <2>3. PICK rec \in Brokers!Requests(image, asked) :
          pending' = pending \cup {[record |-> rec, seen |-> committed]}
    BY <1>2 DEF Brokers!Ask
  <2>4. BrokerRequest([record |-> rec, seen |-> committed])
    BY BrokerRequestsSound DEF BrokersInv, BrokerRequest
  <2> QED
    BY <1>1, <2>1, <2>2, <2>3, <2>4
<1>3. ASSUME NEW request \in pending, Brokers!Submit(request) PROVE BrokersInv'
  <2>1. UNCHANGED <<image, replayed, asked>> /\ committed' = committed + 1
        /\ pending' = pending \ {request}
    BY <1>3 DEF Brokers!Submit
  <2>2. BrokersKept
    BY <2>1, SameImageKept DEF BrokersInv
  <2>3. BrokerRequest(request)
    BY DEF BrokersInv
  <2>4. PICK entry :
          /\ entry = [request EXCEPT !.record = Brokers!Stamped(request.record, committed)]
          /\ unapplied' = Append(unapplied, entry)
    BY <1>3 DEF Brokers!Submit
  <2>5. entry.record = Brokers!Stamped(request.record, committed) /\ entry.seen = request.seen
        /\ entry = [record |-> entry.record, seen |-> entry.seen] /\ entry.seen \in Nat
    BY <2>3, <2>4 DEF BrokerRequest
  <2>6. BrokerRecord(entry.record, entry.seen) /\ NextInReach(image, entry.record)
        /\ (entry.record.kind = "Registration" => entry.record.registration.epoch = committed)
    BY <2>3, <2>5, StampedAppended DEF BrokerRequest, BrokersInv, NextInReach
  <2>7. Appended(entry)'
    BY <2>1, <2>5, <2>6 DEF Appended, BrokerRequest, BrokersInv
  <2>8. IsSequence(unapplied') /\ \A i \in DOMAIN unapplied' :
          \/ unapplied'[i] = entry
          \/ i \in DOMAIN unapplied /\ unapplied'[i] = unapplied[i]
    <3>1. unapplied' = Append(unapplied, entry) /\ IsSequence(unapplied)
      BY <2>4 DEF BrokersInv
    <3>2. IsSequence(unapplied')
      BY <3>1, AppendOf
    <3>3. ASSUME NEW i \in DOMAIN unapplied', unapplied'[i] # entry
          PROVE  i \in DOMAIN unapplied /\ unapplied'[i] = unapplied[i]
      BY <3>1, <3>3, AppendOf
    <3> QED BY <3>2, <3>3
  <2>9. \A i \in DOMAIN unapplied' : \E q : q = unapplied'[i] /\ Appended(q)'
    BY <2>2, <2>7, <2>8, RequestKept DEF BrokersInv
  <2>10. (\A i \in DOMAIN unapplied : Appended(unapplied[i]))'
    BY <2>9 DEF Appended, BrokerRequest
  <2>11. (\A q \in pending : BrokerRequest(q))'
    BY <2>1, <2>2, RequestKept DEF BrokersInv
  <2> QED
    BY <2>1, <2>2, <2>8, <2>10, <2>11 DEF BrokersInv, BrokersKept
<1>4. ASSUME NEW request \in pending, Brokers!Refuse(request) PROVE BrokersInv'
  BY <1>1, <1>4, SameImageKept DEF Brokers!Refuse, BrokersInv
<1>5. CASE Brokers!ApplyNext
  <2>1. BrokersKept /\ UNCHANGED <<pending, asked>> /\ unapplied # <<>>
        /\ unapplied' = Tail(unapplied)
    BY <1>5, HeadApplied DEF Brokers!ApplyNext
  <2>2. IsSequence(unapplied') /\ \A i \in DOMAIN unapplied' :
          i + 1 \in DOMAIN unapplied /\ unapplied'[i] = unapplied[i + 1]
    BY <2>1, TailOf DEF BrokersInv
  <2>3. \A i \in DOMAIN unapplied' : \E q : q = unapplied'[i] /\ Appended(q)'
    BY <2>1, <2>2, RequestKept DEF BrokersInv
  <2>4. (\A i \in DOMAIN unapplied : Appended(unapplied[i]))'
    BY <2>3 DEF Appended, BrokerRequest
  <2>5. (\A q \in pending : BrokerRequest(q))'
    BY <2>1, RequestKept DEF BrokersInv
  <2> QED
    BY <2>1, <2>2, <2>4, <2>5 DEF BrokersInv, BrokersKept
<1>6. CASE Brokers!Restart
  <2>1. image' = image /\ UNCHANGED <<replayed, unapplied, pending, asked, committed>>
    BY <1>6, BrokersRestored DEF Brokers!Restart, BrokersInv
  <2> QED
    BY <1>1, <2>1, SameImageKept DEF BrokersInv
<1>7. CASE UNCHANGED Brokers!vars
  <2>1. image' = image /\ UNCHANGED <<replayed, unapplied, pending, asked, committed>>
    BY <1>7 DEF Brokers!vars
  <2> QED
    BY <1>1, <2>1, SameImageKept DEF BrokersInv
<1> QED
  BY <1>2, <1>3, <1>4, <1>5, <1>6, <1>7 DEF Brokers!Next

\* BrokersInv is an invariant of the image while registrations and producer
\* ids are at work.
THEOREM BrokersInductive == ImageSpec => [](part = "brokers" => BrokersInv)
<1>1. ImageInit => (part = "brokers" => BrokersInv)
  BY BrokersStart DEF ImageInit
<1>2. (part = "brokers" => BrokersInv) /\ [ImageNext]_imageVars => (part = "brokers" => BrokersInv)'
  <2> SUFFICES ASSUME part = "brokers", BrokersInv, [ImageNext]_imageVars PROVE BrokersInv'
    BY DEF ImageNext, imageVars
  <2>1. [Brokers!Next]_(Brokers!vars)
    BY DEF ImageNext, imageVars, Brokers!vars
  <2> QED BY <2>1, BrokersStep
<1> QED
  BY <1>1, <1>2, PTL DEF ImageSpec

\* The image changes only when a committed record is applied.
LEMMA OnlyAppliedChanges ==
  ASSUME BrokersInv, Brokers!Next
  PROVE  image' = image \/ Brokers!ApplyNext
BY BrokersRestored DEF BrokersInv, Brokers!Next, Brokers!Ask, Brokers!Submit, Brokers!Refuse,
   Brokers!Restart

\* A request that a handler built before a broker registered never changes
\* or removes that registration, however far the validating image lags:
\* apply compares the epochs.
THEOREM RegistrationUntouched ==
  ImageSpec => NewRegistrationUntouched
<1>1. (part = "brokers" => BrokersInv) /\ [ImageNext]_imageVars
        => [part = "brokers" => Brokers!NewRegistrationUntouched]_imageVars
  BY OnlyAppliedChanges, HeadApplied DEF ImageNext, Brokers!NewRegistrationUntouched, BrokerEffect
<1> QED
  BY <1>1, BrokersInductive, PTL DEF ImageSpec, NewRegistrationUntouched

\* Of two requests that read the same next producer id at most one gets a
\* block, and a restart gives no ids back.
THEOREM ProducerBlocksDisjoint ==
  ImageSpec => BlocksDisjoint
<1>1. (part = "brokers" => BrokersInv) /\ [ImageNext]_imageVars
        => [part = "brokers" => Brokers!BlocksDisjoint]_imageVars
  BY OnlyAppliedChanges, HeadApplied DEF ImageNext, Brokers!BlocksDisjoint, BrokerEffect
<1> QED
  BY <1>1, BrokersInductive, PTL DEF ImageSpec, BlocksDisjoint

-----------------------------------------------------------------------------
(* Finalized features and quorum state *)

FeaturesLog == INSTANCE FoldProofs WITH Empty <- Features!NewImage, Apply <- Features!Apply

\* The epoch counts the feature records so far: no feature without one.
FeatureImage(img) ==
  /\ img = [levels |-> img.levels, epoch |-> img.epoch, kraft |-> img.kraft,
            voters |-> img.voters]
  /\ IsFiniteSet(DOMAIN img.levels) /\ img.levels \in [DOMAIN img.levels -> Nat \ {0}]
  /\ img.epoch \in Nat \cup {-1} /\ (img.epoch = -1 => DOMAIN img.levels = {})
  /\ img.kraft \in Nat

Levels(finalized, epoch, kraft, voters) ==
  [levels |-> finalized, epoch |-> epoch, kraft |-> kraft, voters |-> voters]

LevelIn(img, f) == [kind |-> "FeatureLevel", name |-> f, level |-> img.levels[f]]

\* What a feature record does to an image.
Moved(b, l, n) == [b EXCEPT !.levels = l, !.epoch = n]

\* It replaces the levels and the epoch and leaves the rest.
LEMMA LevelsReplaced ==
  ASSUME NEW a, NEW e, NEW k, NEW v, NEW l, NEW n, NEW b, b = Levels(a, e, k, v)
  PROVE  Moved(b, l, n) = Levels(l, n, k, v)
<1> DEFINE c == [b EXCEPT !.levels = l, !.epoch = n]
<1>1. DOMAIN c = {"levels", "epoch", "kraft", "voters"}
  BY DEF Levels
<1>2. c.levels = l /\ c.epoch = n /\ c.kraft = k /\ c.voters = v
  BY DEF Levels
<1>3. c = [x \in DOMAIN c |-> c[x]]
  OBVIOUS
<1> HIDE DEF c
<1>4. c = Levels(l, n, k, v)
  BY <1>1, <1>2, <1>3 DEF Levels
<1> QED
  BY <1>4 DEF c, Moved

\* The concatenation of two pairs.
LEMMA PairsJoined ==
  ASSUME NEW a, NEW b, NEW c, NEW d
  PROVE  <<a, b>> \o <<c, d>> = <<a, b, c, d>>
<1>1. ASSUME NEW S, NEW s \in Seq(S), NEW t \in Seq(S), Len(s) = 2, Len(t) = 2
      PROVE  s \o t = <<s[1], s[2], t[1], t[2]>>
  <2>1. s \o t \in Seq(S) /\ Len(s \o t) = 4
    BY <1>1, ConcatProperties
  <2>2. /\ (s \o t)[1] = s[1] /\ (s \o t)[2] = s[2]
        /\ (s \o t)[3] = t[1] /\ (s \o t)[4] = t[2]
    BY <1>1, ConcatProperties
  <2>3. \A u \in Seq(S) : Len(u) = 4 => u = <<u[1], u[2], u[3], u[4]>>
    OBVIOUS
  <2>4. s \o t = <<(s \o t)[1], (s \o t)[2], (s \o t)[3], (s \o t)[4]>>
    BY <2>1, <2>3
  <2> QED
    BY <2>2, <2>4
<1> DEFINE S == {a, b, c, d}
           s == <<a, b>>
           t == <<c, d>>
<1>2. /\ s \in Seq(S) /\ Len(s) = 2 /\ s[1] = a /\ s[2] = b
      /\ t \in Seq(S) /\ Len(t) = 2 /\ t[1] = c /\ t[2] = d
  OBVIOUS
<1> HIDE DEF S, s, t
<1>3. s \o t = <<s[1], s[2], t[1], t[2]>>
  BY <1>1, <1>2
<1>4. s \o t = <<a, b, c, d>>
  BY <1>2, <1>3
<1> QED
  BY <1>4 DEF s, t

\* The replay of the levels counts them into the epoch, whatever it was.
LEMMA LevelsRestored ==
  ASSUME NEW img, FeatureImage(img)
  PROVE  FeaturesLog!Replay(Features!NewImage, {LevelIn(img, f) : f \in DOMAIN img.levels})
           = Levels(img.levels, Cardinality(DOMAIN img.levels) - 1, 0, {})
<1> DEFINE map == img.levels
           S == {LevelIn(img, f) : f \in DOMAIN map}
           Names(s) == {rec.name : rec \in s}
           M(s) == [f \in Names(s) |-> map[f]]
           h == [s \in SUBSET S |-> Levels(M(s), Cardinality(s) - 1, 0, {})]
<1>1. IsFiniteSet(S) /\ Cardinality(S) = Cardinality(DOMAIN map)
  <2> DEFINE g == [f \in DOMAIN map |-> LevelIn(img, f)]
  <2>1. g \in Surjection(DOMAIN map, S)
    BY DEF Surjection
  <2>2. g \in Injection(DOMAIN map, S)
    BY DEF Injection, IsInjective, LevelIn
  <2>3. IsFiniteSet(DOMAIN map)
    BY DEF FeatureImage
  <2> HIDE DEF S, g, map
  <2> QED
    BY <2>1, <2>2, <2>3, FS_Surjection
<1>2. FeaturesLog!Tracks(h, Features!NewImage, S)
  <2>1. h[{}] = Features!NewImage
    <3>1. Cardinality({}) - 1 = -1
      BY FS_EmptySet
    <3>2. M({}) = Features!EmptyMap
      BY DEF Features!EmptyMap
    <3>3. h[{}] = Levels(M({}), Cardinality({}) - 1, 0, {})
      OBVIOUS
    <3> QED BY <3>1, <3>2, <3>3 DEF Features!NewImage, Levels
  <2>2. ASSUME NEW s \in SUBSET S, NEW x \in s
        PROVE  h[s] = Features!Apply(h[s \ {x}], x)
    <3>1. PICK f \in DOMAIN map : x = LevelIn(img, f)
      OBVIOUS
    <3> DEFINE A == Names(s)
               B == Names(s \ {x})
    <3>2. A = B \cup {f}
      BY <3>1 DEF LevelIn
    <3>3. Features!Put(M(s \ {x}), f, map[f]) = M(s)
      <4> HIDE DEF map, S
      <4>1. M(s) = [i \in A |-> map[i]] /\ M(s \ {x}) = [i \in B |-> map[i]]
        OBVIOUS
      <4> HIDE DEF A, B, M
      <4> QED BY <3>2, <4>1 DEF Features!Put
    <3>4. h[s] = Levels(M(s), Cardinality(s) - 1, 0, {})
          /\ h[s \ {x}] = Levels(M(s \ {x}), Cardinality(s \ {x}) - 1, 0, {})
      OBVIOUS
    <3>5. Cardinality(s \ {x}) = Cardinality(s) - 1 /\ Cardinality(s \ {x}) \in Nat
          /\ Cardinality(s) \in Nat
      <4> HIDE DEF S
      <4>1. IsFiniteSet(s)
        BY <1>1, FS_Subset
      <4> QED BY <4>1, FS_RemoveElement, FS_CardinalityType
    <3>6. map[f] # 0 /\ x.level = map[f] /\ x.name = f /\ x.kind = "FeatureLevel"
      BY <3>1 DEF FeatureImage, LevelIn
    <3> HIDE DEF h, M, S, map
    <3> DEFINE b == h[s \ {x}]
    <3>7. Features!Apply(b, x)
            = [b EXCEPT !.levels = Features!Put(b.levels, f, map[f]),
                        !.epoch = Features!AtLeastZero(b.epoch + 1)]
      BY <3>6 DEF Features!Apply, Features!ApplyFeatureLevel
    <3>8. b = Levels(M(s \ {x}), Cardinality(s \ {x}) - 1, 0, {})
      BY <3>4
    <3>9. Features!AtLeastZero(b.epoch + 1) = Cardinality(s) - 1
      BY <3>5, <3>8 DEF Features!AtLeastZero, Levels
    <3>10. Features!Put(b.levels, f, map[f]) = M(s)
      BY <3>3, <3>8 DEF Levels
    <3> HIDE DEF b
    <3>11. Features!Apply(b, x) = Levels(M(s), Cardinality(s) - 1, 0, {})
      <4> DEFINE n == Cardinality(s) - 1
                 l == M(s)
      <4>1. Features!Apply(b, x) = Moved(b, l, n)
        BY <3>7, <3>9, <3>10 DEF Moved
      <4> HIDE DEF n, l
      <4>2. Moved(b, l, n) = Levels(l, n, 0, {})
        BY <3>8, LevelsReplaced
      <4> QED BY <4>1, <4>2 DEF n, l
    <3> QED
      BY <3>4, <3>11 DEF b
  <2> HIDE DEF S
  <2>3. h = [s \in SUBSET S |-> h[s]]
    OBVIOUS
  <2> HIDE DEF h
  <2> QED
    BY <2>1, <2>2, <2>3 DEF FeaturesLog!Tracks
<1>3. FeaturesLog!IsFiniteSet(S)
  BY <1>1 DEF IsFiniteSet, FeaturesLog!IsFiniteSet
<1>4. M(S) = map
  <2>1. \A f \in DOMAIN map : LevelIn(img, f) \in S /\ LevelIn(img, f).name = f
    BY DEF LevelIn
  <2>2. Names(S) \subseteq DOMAIN map /\ DOMAIN map \subseteq Names(S)
    BY <2>1
  <2>3. Names(S) = DOMAIN map
    BY <2>2
  <2>4. map = [f \in DOMAIN map |-> map[f]]
    BY DEF FeatureImage
  <2> HIDE DEF S, Names, map
  <2> QED
    BY <2>3, <2>4
<1>5. h[S] = Levels(map, Cardinality(DOMAIN map) - 1, 0, {})
  BY <1>1, <1>4
<1> HIDE DEF h, S
<1> QED
  BY <1>2, <1>3, <1>5, FeaturesLog!ReplayIs DEF S

\* from_records after to_records gives the levels, the epoch, kraft.version
\* and the voters back: the record of the epoch comes after the levels.
LEMMA FeaturesRestored ==
  ASSUME NEW img, FeatureImage(img)
  PROVE  Features!FromRecords(Features!ToRecords(img)) = img
<1> DEFINE S1 == {LevelIn(img, f) : f \in DOMAIN img.levels}
           S2 == Features!EpochRecords(img)
           S3 == {[kind |-> "KRaftVersion", version |-> v] : v \in {img.kraft} \ {0}}
           S4 == {[kind |-> "Voters", voters |-> v] : v \in {img.voters} \ {{}}}
           sections == <<S1, S2, S3, S4>>
           n == Cardinality(DOMAIN img.levels) - 1
           m == [k \in 0..4 |->
                   CASE k = 0 -> Features!NewImage
                     [] k = 1 -> Levels(img.levels, n, 0, {})
                     [] k = 2 -> Levels(img.levels, img.epoch, 0, {})
                     [] k = 3 -> Levels(img.levels, img.epoch, img.kraft, {})
                     [] k = 4 -> img]
<1>1. Features!FromRecords(Features!ToRecords(img)) = FeaturesLog!FromRecords(sections)
  <2>1. Features!ToRecords(img) = sections
    <3>1. Features!ToRecords(img) = <<S1, S2>> \o <<S3, S4>>
      BY DEF Features!ToRecords, Features!FeatureRecords, Features!QuorumRecords, LevelIn
    <3> HIDE DEF S1, S2, S3, S4
    <3> QED BY <3>1, PairsJoined
  <2>2. \A x : Features!FromRecords(x) = FeaturesLog!FromRecords(x)
    BY DEF Features!FromRecords, FeaturesLog!FromRecords,
       Features!FoldLeft, FeaturesLog!FoldLeft, Features!MapThenFoldSet,
       FeaturesLog!MapThenFoldSet, Features!Max, FeaturesLog!Max, Features!FoldSet,
       FeaturesLog!FoldSet
  <2> QED BY <2>1, <2>2
<1>2. /\ m[0] = Features!NewImage /\ m[1] = Levels(img.levels, n, 0, {})
      /\ m[2] = Levels(img.levels, img.epoch, 0, {})
      /\ m[3] = Levels(img.levels, img.epoch, img.kraft, {}) /\ m[4] = img
  OBVIOUS
<1>3. m[1] = FeaturesLog!Replay(m[0], S1)
  <2> HIDE DEF m
  <2> QED BY <1>2, LevelsRestored
<1>4. m[2] = FeaturesLog!Replay(m[1], S2)
  <2>1. CASE img.epoch = -1
    <3>1. S2 = {} /\ n = -1
      BY <2>1, FS_EmptySet DEF FeatureImage, Features!EpochRecords
    <3> HIDE DEF m, S2, n
    <3> QED BY <2>1, <3>1, <1>2, FeaturesLog!ReplayNone
  <2>2. CASE img.epoch # -1
    <3> DEFINE x == [kind |-> "FeaturesEpoch", epoch |-> img.epoch]
    <3>1. S2 = {x}
      BY <2>2 DEF FeatureImage, Features!EpochRecords
    <3> HIDE DEF n, m
    <3>2. Features!Apply(m[1], x) = [m[1] EXCEPT !.epoch = img.epoch]
      BY DEF Features!Apply
    <3>3. [m[1] EXCEPT !.epoch = img.epoch] = m[2]
      BY <1>2 DEF Levels
    <3> HIDE DEF x, S2
    <3> QED BY <3>1, <3>2, <3>3, FeaturesLog!ReplayOne
  <2> QED BY <2>1, <2>2
<1>5. m[3] = FeaturesLog!Replay(m[2], S3)
  <2> HIDE DEF m
  <2>1. CASE img.kraft = 0
    <3>1. S3 = {}
      BY <2>1
    <3> HIDE DEF S3
    <3> QED BY <2>1, <3>1, <1>2, FeaturesLog!ReplayNone
  <2>2. CASE img.kraft # 0
    <3> DEFINE x == [kind |-> "KRaftVersion", version |-> img.kraft]
    <3>1. S3 = {x}
      BY <2>2
    <3>2. Features!Apply(m[2], x) = [m[2] EXCEPT !.kraft = img.kraft]
      BY DEF Features!Apply
    <3>3. [m[2] EXCEPT !.kraft = img.kraft] = m[3]
      BY <1>2 DEF Levels
    <3> HIDE DEF x, S3
    <3> QED BY <3>1, <3>2, <3>3, FeaturesLog!ReplayOne
  <2> QED BY <2>1, <2>2
<1>6. m[4] = FeaturesLog!Replay(m[3], S4)
  <2> HIDE DEF m
  <2>0. img = Levels(img.levels, img.epoch, img.kraft, img.voters)
    BY DEF FeatureImage, Levels
  <2>1. CASE img.voters = {}
    <3>1. S4 = {}
      BY <2>1
    <3> HIDE DEF S4
    <3> QED BY <2>0, <2>1, <3>1, <1>2, FeaturesLog!ReplayNone
  <2>2. CASE img.voters # {}
    <3> DEFINE x == [kind |-> "Voters", voters |-> img.voters]
    <3>1. S4 = {x}
      BY <2>2
    <3>2. Features!Apply(m[3], x) = [m[3] EXCEPT !.voters = img.voters]
      BY DEF Features!Apply
    <3>3. [m[3] EXCEPT !.voters = img.voters]
            = Levels(img.levels, img.epoch, img.kraft, img.voters)
      BY <1>2 DEF Levels
    <3> HIDE DEF x, S4
    <3> QED BY <2>0, <1>2, <3>1, <3>2, <3>3, FeaturesLog!ReplayOne
  <2> QED BY <2>1, <2>2
<1> HIDE DEF S1, S2, S3, S4, m
<1>7. DOMAIN sections = 1..4 /\ sections[1] = S1 /\ sections[2] = S2 /\ sections[3] = S3
      /\ sections[4] = S4
  OBVIOUS
<1> HIDE DEF sections
<1>8. FeaturesLog!Between(m, sections, 4)
  <2>1. \A k \in 1..4 : k = 1 \/ k = 2 \/ k = 3 \/ k = 4
    OBVIOUS
  <2> QED
    BY <1>2, <1>3, <1>4, <1>5, <1>6, <1>7, <2>1 DEF FeaturesLog!Between
<1>9. FeaturesLog!FromRecords(sections) = m[4]
  BY <1>7, <1>8, FeaturesLog!FromRecordsIs
<1> QED
  BY <1>1, <1>2, <1>9

\* The epoch record is never submitted.
FeatureRecord(rec) ==
  \/ /\ rec = [kind |-> "FeatureLevel", name |-> rec.name, level |-> rec.level]
     /\ rec.level \in Nat
  \/ /\ rec = [kind |-> "KRaftVersion", version |-> rec.version]
     /\ rec.version \in Nat
  \/ rec = [kind |-> "Voters", voters |-> rec.voters]

FeatureRequest(request) ==
  /\ request = [record |-> request.record, seen |-> request.seen]
  /\ FeatureRecord(request.record)

FeaturesInv ==
  /\ FeatureImage(image) /\ replayed = image
  /\ \A request \in pending : FeatureRequest(request)
  /\ IsSequence(unapplied)
  /\ \A i \in DOMAIN unapplied : FeatureRequest(unapplied[i])

\* The epoch versions the levels: it moves with them and never back.
Versioned(img, new) ==
  /\ new.levels # img.levels => new.epoch > img.epoch
  /\ new.epoch >= img.epoch

\* Applying a record leaves the image sound and moves the epoch.
LEMMA FeatureApplySound ==
  ASSUME NEW img, FeatureImage(img), NEW rec, FeatureRecord(rec),
         NEW new, new = Features!Apply(img, rec)
  PROVE  FeatureImage(new) /\ Versioned(img, new)
<1>0. /\ img = Levels(img.levels, img.epoch, img.kraft, img.voters)
      /\ img.epoch \in Nat \cup {-1} /\ img.kraft \in Nat
  BY DEF FeatureImage, Levels
<1>1. CASE rec.kind = "FeatureLevel"
  <2> DEFINE l == IF rec.level = 0 THEN Features!Drop(img.levels, {rec.name})
                  ELSE Features!Put(img.levels, rec.name, rec.level)
             n == Features!AtLeastZero(img.epoch + 1)
  <2>1. new = Moved(img, l, n)
    BY <1>1 DEF Features!Apply, Features!ApplyFeatureLevel, Moved
  <2>2. rec.level \in Nat
    BY <1>1 DEF FeatureRecord
  <2>3. n \in Nat /\ n > img.epoch
    BY <1>0 DEF Features!AtLeastZero
  <2>4. IsFiniteSet(DOMAIN l) /\ l \in [DOMAIN l -> Nat \ {0}]
    <3> DEFINE map == img.levels
    <3>1. IsFiniteSet(DOMAIN map) /\ map \in [DOMAIN map -> Nat \ {0}]
      BY DEF FeatureImage
    <3> HIDE DEF map
    <3>2. CASE rec.level = 0
      <4>1. l = [k \in DOMAIN map \ {rec.name} |-> map[k]]
        BY <3>2 DEF Features!Drop, map
      <4>2. IsFiniteSet(DOMAIN map \ {rec.name})
        BY <3>1, FS_Difference
      <4> HIDE DEF l
      <4> QED BY <3>1, <4>1, <4>2
    <3>3. CASE rec.level # 0
      <4>1. l = [k \in DOMAIN map \cup {rec.name} |->
                   IF k = rec.name THEN rec.level ELSE map[k]]
        BY <3>3 DEF Features!Put, map
      <4>2. IsFiniteSet(DOMAIN map \cup {rec.name})
        BY <3>1, FS_AddElement
      <4> HIDE DEF l
      <4> QED BY <3>1, <3>3, <2>2, <4>1, <4>2
    <3> QED BY <3>2, <3>3
  <2> HIDE DEF l, n
  <2>5. new = Levels(l, n, img.kraft, img.voters)
    BY <1>0, <2>1, LevelsReplaced
  <2>6. new.levels = l /\ new.epoch = n /\ new.kraft = img.kraft /\ new.voters = img.voters
    BY <2>5 DEF Levels
  <2> QED
    BY <1>0, <2>3, <2>4, <2>5, <2>6 DEF FeatureImage, Versioned, Levels
<1>2. CASE rec.kind = "KRaftVersion"
  <2>1. new = [img EXCEPT !.kraft = rec.version] /\ rec.version \in Nat
    BY <1>2 DEF Features!Apply, FeatureRecord
  <2>2. new = Levels(img.levels, img.epoch, rec.version, img.voters)
    BY <1>0, <2>1 DEF Levels
  <2>3. new.levels = img.levels /\ new.epoch = img.epoch /\ new.kraft = rec.version
        /\ new.voters = img.voters
    BY <2>2 DEF Levels
  <2> QED
    BY <1>0, <2>1, <2>2, <2>3 DEF FeatureImage, Versioned, Levels
<1>3. CASE rec.kind = "Voters"
  <2>1. new = [img EXCEPT !.voters = rec.voters]
    BY <1>3 DEF Features!Apply
  <2>2. new = Levels(img.levels, img.epoch, img.kraft, rec.voters)
    BY <1>0, <2>1 DEF Levels
  <2>3. new.levels = img.levels /\ new.epoch = img.epoch /\ new.kraft = img.kraft
        /\ new.voters = rec.voters
    BY <2>2 DEF Levels
  <2> QED
    BY <1>0, <2>2, <2>3 DEF FeatureImage, Versioned, Levels
<1> QED
  BY <1>1, <1>2, <1>3 DEF FeatureRecord

\* Only an applied record changes the image, and then as Versioned says.
LEMMA FeaturesStep ==
  ASSUME FeaturesInv, [Features!Next]_(Features!vars)
  PROVE  FeatureImage(image') /\ Versioned(image, image') /\ replayed' = image'
<1>1. CASE image' = image /\ replayed' = replayed
  BY <1>1 DEF FeaturesInv, FeatureImage, Versioned
<1>2. CASE Features!ApplyNext
  <2> DEFINE q == unapplied[1]
  <2>1. 1 \in DOMAIN unapplied /\ Head(unapplied) = q
    BY <1>2 DEF FeaturesInv, IsSequence, Features!ApplyNext
  <2>2. FeatureRecord(q.record)
    BY <2>1 DEF FeaturesInv, FeatureRequest
  <2>3. image' = Features!Apply(image, q.record) /\ replayed' = Features!Apply(replayed, q.record)
    BY <1>2, <2>1 DEF Features!ApplyNext
  <2> HIDE DEF q
  <2> QED
    BY <2>2, <2>3, FeatureApplySound DEF FeaturesInv
<1>3. CASE Features!Restart
  BY <1>1, <1>3, FeaturesRestored DEF Features!Restart, FeaturesInv
<1> QED
  BY <1>1, <1>2, <1>3 DEF Features!Next, Features!Ask, Features!Submit, Features!Refuse,
     Features!vars

\* FeaturesInv holds at first.
LEMMA FeaturesStart == Features!Init => FeaturesInv
<1> SUFFICES ASSUME Features!Init PROVE FeaturesInv
  OBVIOUS
<1>1. image = Levels(Features!EmptyMap, -1, 0, {})
  BY DEF Features!Init, Features!NewImage, Levels
<1>2. DOMAIN Features!EmptyMap = {} /\ \A X : Features!EmptyMap \in [{} -> X]
  BY DEF Features!EmptyMap
<1>3. image.levels = Features!EmptyMap /\ image.epoch = -1 /\ image.kraft = 0
      /\ image.voters = {}
  BY <1>1 DEF Levels
<1>4. FeatureImage(image)
  BY <1>1, <1>2, <1>3, FS_EmptySet DEF FeatureImage, Levels
<1>5. IsSequence(<<>>)
  BY DEF IsSequence
<1> QED
  BY <1>4, <1>5 DEF Features!Init, FeaturesInv

\* Every step of FeatureLevels keeps FeaturesInv.
LEMMA FeaturesKept ==
  ASSUME MaxLevel \in Nat, FeaturesInv, [Features!Next]_(Features!vars)
  PROVE  FeaturesInv'
<1>1. FeatureImage(image') /\ replayed' = image'
  BY FeaturesStep
<1>2. ASSUME UNCHANGED unapplied,
             \A request \in pending' : request \in pending \/ FeatureRequest(request)
      PROVE  FeaturesInv'
  BY <1>1, <1>2 DEF FeaturesInv
<1>3. CASE Features!Ask
  <2>1. PICK rec \in Features!Requests(image, asked) :
          pending' = pending \cup {[record |-> rec, seen |-> committed]}
    BY <1>3 DEF Features!Ask
  <2>2. FeatureRecord(rec)
    BY DEF Features!Requests, Features!UpdateFeatures, Features!UpgradeKRaft,
       Features!ChangeVoters, FeatureRecord
  <2>3. FeatureRequest([record |-> rec, seen |-> committed])
    BY <2>2 DEF FeatureRequest
  <2> QED
    BY <1>2, <1>3, <2>1, <2>3 DEF Features!Ask
<1>4. ASSUME NEW request \in pending, Features!Submit(request) PROVE FeaturesInv'
  <2>1. PICK entry :
          /\ entry = [request EXCEPT !.record = Features!Stamped(request.record, committed)]
          /\ unapplied' = Append(unapplied, entry)
    BY <1>4 DEF Features!Submit
  <2>2. FeatureRequest(request)
    BY DEF FeaturesInv
  <2>3. entry = request
    BY <2>1, <2>2 DEF FeatureRequest, Features!Stamped
  <2>4. IsSequence(unapplied)
    BY DEF FeaturesInv
  <2>5. IsSequence(unapplied')
    BY <2>1, <2>4, AppendOf
  <2>6. ASSUME NEW i \in DOMAIN unapplied' PROVE FeatureRequest(unapplied'[i])
    <3>1. unapplied'[i] = entry \/ (i \in DOMAIN unapplied /\ unapplied'[i] = unapplied[i])
      BY <2>1, <2>4, AppendOf
    <3> QED BY <3>1, <2>2, <2>3 DEF FeaturesInv
  <2> QED
    BY <1>1, <1>4, <2>5, <2>6 DEF FeaturesInv, Features!Submit
<1>5. ASSUME NEW request \in pending, Features!Refuse(request) PROVE FeaturesInv'
  BY <1>2, <1>5 DEF Features!Refuse
<1>6. CASE Features!ApplyNext
  <2>1. IsSequence(unapplied) /\ unapplied # <<>> /\ unapplied' = Tail(unapplied)
        /\ pending' = pending
    BY <1>6 DEF Features!ApplyNext, FeaturesInv
  <2>2. IsSequence(unapplied')
    BY <2>1, TailOf
  <2>3. ASSUME NEW i \in DOMAIN unapplied' PROVE FeatureRequest(unapplied'[i])
    <3>1. i + 1 \in DOMAIN unapplied /\ unapplied'[i] = unapplied[i + 1]
      BY <2>1, TailOf
    <3> QED BY <3>1 DEF FeaturesInv
  <2> QED
    BY <1>1, <2>1, <2>2, <2>3 DEF FeaturesInv
<1>7. CASE Features!Restart
  BY <1>2, <1>7 DEF Features!Restart
<1>8. CASE UNCHANGED Features!vars
  BY <1>2, <1>8 DEF Features!vars
<1> QED
  BY <1>3, <1>4, <1>5, <1>6, <1>7, <1>8 DEF Features!Next

\* FeaturesInv is an invariant of the image while features and quorum state
\* are at work.
THEOREM FeaturesInductive ==
  ASSUME MaxLevel \in Nat
  PROVE  ImageSpec => [](part = "features" => FeaturesInv)
<1>1. ImageInit => (part = "features" => FeaturesInv)
  BY FeaturesStart DEF ImageInit
<1>2. (part = "features" => FeaturesInv) /\ [ImageNext]_imageVars => (part = "features" => FeaturesInv)'
  <2> SUFFICES ASSUME part = "features", FeaturesInv, [ImageNext]_imageVars PROVE FeaturesInv'
    BY DEF ImageNext, imageVars
  <2>1. [Features!Next]_(Features!vars)
    BY DEF ImageNext, imageVars, Features!vars
  <2> QED BY <2>1, FeaturesKept
<1> QED
  BY <1>1, <1>2, PTL DEF ImageSpec

\* The epoch versions the levels, also across the deletion of the last
\* feature and a restart from the snapshot taken after it.
THEOREM EpochVersions ==
  ASSUME MaxLevel \in Nat
  PROVE  ImageSpec => EpochVersionsLevels
<1>1. (part = "features" => FeaturesInv) /\ [ImageNext]_imageVars
        => [part = "features" => Features!EpochMoves]_imageVars
  BY FeaturesStep DEF ImageNext, Features!EpochMoves, Versioned
<1> QED
  BY <1>1, FeaturesInductive, PTL DEF ImageSpec, EpochVersionsLevels

-----------------------------------------------------------------------------
(* Configs, quotas, credentials and tokens *)

ConfigsLog == INSTANCE FoldProofs WITH Empty <- Configs!NewImage, Apply <- Configs!Apply

Settings(nodes, quotas, groups, creds) ==
  [nodes |-> nodes, quotas |-> quotas, groups |-> groups, creds |-> creds]

\* Owners, each with a map of its keys.
Nested(map) ==
  /\ IsFiniteSet(DOMAIN map) /\ map = [o \in DOMAIN map |-> map[o]]
  /\ \A o \in DOMAIN map :
       IsFiniteSet(DOMAIN map[o]) /\ map[o] = [k \in DOMAIN map[o] |-> map[o][k]]

\* Owners told apart by the map they are in, each with one value.
Whole(map, kinds) ==
  /\ IsFiniteSet(DOMAIN map) /\ map = [o \in DOMAIN map |-> map[o]]
  /\ \A o \in DOMAIN map : o = <<o[1], o[2]>> /\ o[1] \in kinds

NoneEmpty(map) == \A o \in DOMAIN map : map[o] # {}

GroupKinds == {"ClientMetricsConfig", "GroupConfig"}
CredentialKinds == {"ScramCredential", "DelegationToken"}

\* Quotas are kept under entities that sorting leaves as they are, and no
\* group or client-metrics config is kept without a key.
ConfigImage(img) ==
  /\ img = Settings(img.nodes, img.quotas, img.groups, img.creds)
  /\ Nested(img.nodes) /\ Nested(img.quotas)
  /\ \A e \in DOMAIN img.quotas : Configs!CanonicalizeEntity(e) = e
  /\ Whole(img.groups, GroupKinds) /\ NoneEmpty(img.groups)
  /\ Whole(img.creds, CredentialKinds)

\* The owners that have a key.
Keyed(map) == Configs!Drop(map, {o \in DOMAIN map : DOMAIN map[o] = {}})

\* What a snapshot keeps, written as the record it is.
LEMMA ConfigView ==
  ASSUME NEW img, img = Settings(img.nodes, img.quotas, img.groups, img.creds)
  PROVE  Configs!View(img) = Settings(Keyed(img.nodes), Keyed(img.quotas), img.groups, img.creds)
<1> DEFINE a == Keyed(img.nodes)
           b == Keyed(img.quotas)
           c == [img EXCEPT !.nodes = a, !.quotas = b]
<1>1. Configs!View(img) = c
  BY DEF Configs!View, Keyed
<1> HIDE DEF a, b
<1>2. DOMAIN c = {"nodes", "quotas", "groups", "creds"}
  BY DEF Settings
<1>3. c.nodes = a /\ c.quotas = b /\ c.groups = img.groups /\ c.creds = img.creds
  BY DEF Settings
<1>4. c = [x \in DOMAIN c |-> c[x]]
  OBVIOUS
<1> HIDE DEF c
<1>5. c = Settings(a, b, img.groups, img.creds)
  BY <1>2, <1>3, <1>4 DEF Settings
<1> QED
  BY <1>1, <1>5 DEF a, b

\* The maps the records of some keys make.
Cells(map, s) ==
  [o \in {rec.owner : rec \in s} |->
     [k \in {rec.key : rec \in {r \in s : r.owner = o}} |-> map[o][k]]]

KeyRecord(kind, map, o, k) ==
  [kind |-> kind, owner |-> o, key |-> k, value |-> Configs!Some(map[o][k])]

\* The record of one key, whichever comes last, adds that key.
LEMMA CellAdded ==
  ASSUME NEW map, NEW kind, NEW s \in SUBSET Configs!KeyRecords(kind, map), NEW x \in s
  PROVE  /\ Cells(map, s) = Configs!SetKey(Cells(map, s \ {x}), x.owner, x.key, x.value)
         /\ x.kind = kind /\ x.owner \in DOMAIN map
<1>1. \A r \in s : \E o \in DOMAIN map : \E k \in DOMAIN map[o] : r = KeyRecord(kind, map, o, k)
  BY DEF Configs!KeyRecords, KeyRecord
<1>a. PICK o \in DOMAIN map : \E k \in DOMAIN map[o] : x = KeyRecord(kind, map, o, k)
  BY <1>1
<1>2. PICK k \in DOMAIN map[o] : x = KeyRecord(kind, map, o, k)
  BY <1>a
<1>3. x.owner = o /\ x.key = k /\ x.value = {map[o][k]} /\ x.kind = kind
  BY <1>2 DEF KeyRecord, Configs!Some
<1>4. \A r \in s : r.owner = o /\ r.key = k => r = x
  BY <1>1, <1>2 DEF KeyRecord
<1> DEFINE t == s \ {x}
           Keys(u, p) == {rec.key : rec \in {r \in u : r.owner = p}}
           Owners(u) == {rec.owner : rec \in u}
           Inner(u, p) == [j \in Keys(u, p) |-> map[p][j]]
           a == Cells(map, t)
           v == map[o][k]
<1>5. /\ DOMAIN a = Owners(t) /\ \A p \in Owners(t) : a[p] = Inner(t, p)
      /\ Cells(map, s) = [p \in Owners(s) |-> Inner(s, p)]
  BY DEF Cells
<1>6. Owners(s) = Owners(t) \cup {o}
  BY <1>3
<1>7. \A p \in Owners(s) : p # o => Keys(s, p) = Keys(t, p)
  BY <1>3
<1>8. Keys(s, o) = Keys(t, o) \cup {k}
  BY <1>3
<1>9. o \notin Owners(t) => Keys(t, o) = {}
  OBVIOUS
<1> HIDE DEF Keys, Owners, t
<1>10. Configs!OrDefault(a, o) = Inner(t, o)
  <2>1. CASE o \in Owners(t)
    BY <2>1, <1>5 DEF Configs!OrDefault
  <2>2. CASE o \notin Owners(t)
    <3>1. Inner(t, o) = Configs!EmptyMap
      BY <2>2, <1>9 DEF Configs!EmptyMap
    <3> QED BY <2>2, <3>1, <1>5 DEF Configs!OrDefault
  <2> QED BY <2>1, <2>2
<1> HIDE DEF a
<1>11. Configs!Put(Inner(t, o), k, v) = Inner(s, o)
  BY <1>8 DEF Configs!Put
<1>12. (CHOOSE w \in {v} : TRUE) = v
  OBVIOUS
<1> HIDE DEF Inner
<1>13. Configs!SetKey(a, o, k, {v}) = Configs!Put(a, o, Inner(s, o))
  <2>1. {v} # Configs!None
    BY DEF Configs!None
  <2> QED BY <2>1, <1>10, <1>11, <1>12 DEF Configs!SetKey
<1>14. Configs!Put(a, o, Inner(s, o)) = [p \in Owners(s) |-> Inner(s, p)]
  <2>1. \A p \in Owners(t) : p # o => a[p] = Inner(s, p)
    BY <1>5, <1>6, <1>7 DEF Inner
  <2> QED BY <1>5, <1>6, <2>1 DEF Configs!Put
<1> QED
  BY <1>2, <1>3, <1>5, <1>13, <1>14 DEF a, t

\* The records of all keys make the map, without the owners that have none.
LEMMA CellsComplete ==
  ASSUME NEW map, Nested(map), NEW kind
  PROVE  Cells(map, Configs!KeyRecords(kind, map)) = Keyed(map)
<1> DEFINE S == Configs!KeyRecords(kind, map)
           Keys(p) == {rec.key : rec \in {r \in S : r.owner = p}}
           Owners == {rec.owner : rec \in S}
<1>1. \A r \in S : r.owner \in DOMAIN map /\ r.key \in DOMAIN map[r.owner]
  BY DEF Configs!KeyRecords
<1>2. \A o \in DOMAIN map : \A k \in DOMAIN map[o] :
        KeyRecord(kind, map, o, k) \in S /\ KeyRecord(kind, map, o, k).owner = o
        /\ KeyRecord(kind, map, o, k).key = k
  BY DEF Configs!KeyRecords, KeyRecord
<1>3. Cells(map, S) = [o \in Owners |-> [k \in Keys(o) |-> map[o][k]]]
  BY DEF Cells
<1> HIDE DEF S
<1>4. \A o \in DOMAIN map : Keys(o) = DOMAIN map[o]
  <2> SUFFICES ASSUME NEW o \in DOMAIN map PROVE Keys(o) = DOMAIN map[o]
    OBVIOUS
  <2>1. Keys(o) \subseteq DOMAIN map[o]
    BY <1>1
  <2>2. DOMAIN map[o] \subseteq Keys(o)
    BY <1>2
  <2> QED BY <2>1, <2>2
<1>5. Owners = DOMAIN map \ {o \in DOMAIN map : DOMAIN map[o] = {}}
  <2>1. ASSUME NEW o \in Owners PROVE o \in DOMAIN map /\ DOMAIN map[o] # {}
    BY <1>1
  <2>2. ASSUME NEW o \in DOMAIN map, DOMAIN map[o] # {} PROVE o \in Owners
    BY <1>2, <2>2
  <2> HIDE DEF Owners
  <2> QED BY <2>1, <2>2
<1> HIDE DEF Owners, Keys
<1>6. \A o \in Owners : [k \in Keys(o) |-> map[o][k]] = map[o]
  BY <1>4, <1>5 DEF Nested
<1>7. Cells(map, S) = [o \in Owners |-> map[o]]
  BY <1>3, <1>6
<1> QED
  BY <1>5, <1>7 DEF Keyed, Configs!Drop, S

\* There are finitely many of them.
LEMMA KeyRecordsFinite ==
  ASSUME NEW map, Nested(map), NEW kind
  PROVE  IsFiniteSet(Configs!KeyRecords(kind, map))
<1> DEFINE Of(o) == {KeyRecord(kind, map, o, k) : k \in DOMAIN map[o]}
           all == {Of(o) : o \in DOMAIN map}
<1>1. Configs!KeyRecords(kind, map) = UNION all
  BY DEF Configs!KeyRecords, KeyRecord
<1>2. ASSUME NEW o \in DOMAIN map PROVE IsFiniteSet(Of(o))
  <2> DEFINE f == [k \in DOMAIN map[o] |-> KeyRecord(kind, map, o, k)]
  <2>1. f \in Surjection(DOMAIN map[o], Of(o))
    BY DEF Surjection
  <2>2. IsFiniteSet(DOMAIN map[o])
    BY DEF Nested
  <2> HIDE DEF f, Of
  <2> QED BY <2>1, <2>2, FS_Surjection
<1>3. IsFiniteSet(all)
  <2> DEFINE f == [o \in DOMAIN map |-> Of(o)]
  <2> HIDE DEF Of
  <2>1. f \in Surjection(DOMAIN map, all)
    BY DEF Surjection
  <2>2. IsFiniteSet(DOMAIN map)
    BY DEF Nested
  <2> HIDE DEF f, all
  <2> QED BY <2>1, <2>2, FS_Surjection
<1>4. \A T \in all : IsFiniteSet(T)
  <2> HIDE DEF Of
  <2> QED BY <1>2
<1> HIDE DEF all
<1> QED
  BY <1>1, <1>3, <1>4, FS_UNION

-----------------------------------------------------------------------------
(* Quota entities *)

\* q lists the members of S in ascending order.
Ascending(q, S, n) ==
  /\ q \in [1..n -> S] /\ S = {q[i] : i \in 1..n}
  /\ \A i, j \in 1..n : i < j => q[i] < q[j]

\* Every finite set of numbers can be listed in ascending order: take its
\* greatest member, which is the greatest of all but one or that one, last.
LEMMA AscendingExists ==
  ASSUME NEW n \in Nat
  PROVE  \A S \in SUBSET Int :
           IsFiniteSet(S) /\ Cardinality(S) = n => \E q : Ascending(q, S, n)
<1> DEFINE Listed(k) == \A S \in SUBSET Int :
             IsFiniteSet(S) /\ Cardinality(S) = k => \E q : Ascending(q, S, k)
           T == {k \in Nat : Listed(k)}
<1>1. 0 \in T
  <2> SUFFICES ASSUME NEW S \in SUBSET Int, IsFiniteSet(S), Cardinality(S) = 0
               PROVE  \E q : Ascending(q, S, 0)
    OBVIOUS
  <2>1. S = {}
    BY FS_EmptySet
  <2> DEFINE q == [i \in 1..0 |-> 0]
  <2>2. Ascending(q, S, 0)
    BY <2>1 DEF Ascending
  <2> QED BY <2>2
<1>2. ASSUME NEW k \in Nat, k \in T PROVE k + 1 \in T
  <2> SUFFICES ASSUME NEW S \in SUBSET Int, IsFiniteSet(S), Cardinality(S) = k + 1
               PROVE  \E q : Ascending(q, S, k + 1)
    OBVIOUS
  <2>0. Listed(k)
    BY <1>2
  <2>1. ASSUME NEW y \in S PROVE \E q : Ascending(q, S \ {y}, k)
    <3>1. IsFiniteSet(S \ {y}) /\ Cardinality(S \ {y}) = k
      BY FS_RemoveElement
    <3> QED BY <2>0, <3>1
  <2>2. PICK y : y \in S
    BY FS_EmptySet
  <2>i. \A z \in S : z \in Int
    OBVIOUS
  <2>3. PICK x \in S : \A z \in S : z <= x
    <3>1. PICK p : Ascending(p, S \ {y}, k)
      BY <2>1, <2>2
    <3>2. CASE k = 0
      <4>1. S \ {y} = {}
        BY <3>1, <3>2 DEF Ascending
      <4> QED BY <2>2, <4>1
    <3>3. CASE k # 0
      <4>0. k \in 1..k /\ p[k] \in S
        BY <3>1, <3>3 DEF Ascending
      <4>1. ASSUME NEW z \in S \ {y} PROVE z <= p[k]
        <5>1. PICK i \in 1..k : z = p[i]
          BY <3>1 DEF Ascending
        <5>2. i = k \/ p[i] < p[k]
          BY <3>1, <4>0 DEF Ascending
        <5>3. z \in Int /\ p[k] \in Int
          BY <2>i, <4>0
        <5> QED BY <5>1, <5>2, <5>3
      <4>2. CASE y <= p[k]
        <5>1. \A z \in S : z <= p[k]
          BY <4>1, <4>2
        <5> QED BY <4>0, <5>1
      <4>3. CASE p[k] < y
        <5>1. ASSUME NEW z \in S PROVE z <= y
          <6>1. z = y \/ z <= p[k]
            BY <4>1
          <6>2. z \in Int /\ p[k] \in Int /\ y \in Int
            BY <2>2, <2>i, <4>0
          <6> QED BY <4>3, <6>1, <6>2
        <5> QED BY <2>2, <5>1
      <4>4. p[k] \in Int /\ y \in Int
        BY <2>2, <2>i, <4>0
      <4>5. y <= p[k] \/ p[k] < y
        BY <4>4
      <4> QED BY <4>2, <4>3, <4>5
    <3> QED BY <3>2, <3>3
  <2>4. PICK p : Ascending(p, S \ {x}, k)
    BY <2>1
  <2> DEFINE q == [i \in 1..(k + 1) |-> IF i = k + 1 THEN x ELSE p[i]]
  <2>5. \A i \in 1..k : i \in 1..(k + 1) /\ i # k + 1 /\ q[i] = p[i] /\ p[i] \in S \ {x}
    BY <2>4 DEF Ascending
  <2>6. q[k + 1] = x /\ k + 1 \in 1..(k + 1) /\ q \in [1..(k + 1) -> S]
    BY <2>5
  <2> HIDE DEF q
  <2>7. \A i \in 1..(k + 1) : i \in 1..k \/ i = k + 1
    OBVIOUS
  <2>8. S = {q[i] : i \in 1..(k + 1)}
    <3>1. ASSUME NEW z \in S PROVE \E i \in 1..(k + 1) : z = q[i]
      <4>1. CASE z = x
        BY <4>1, <2>6
      <4>2. CASE z # x
        <5>1. PICK i \in 1..k : z = p[i]
          BY <4>2, <2>4 DEF Ascending
        <5> QED BY <5>1, <2>5
      <4> QED BY <4>1, <4>2
    <3> QED BY <3>1, <2>6
  <2>9. ASSUME NEW i \in 1..(k + 1), NEW j \in 1..(k + 1), i < j PROVE q[i] < q[j]
    <3>1. i \in 1..k /\ q[i] = p[i] /\ p[i] \in S /\ p[i] # x
      BY <2>9, <2>5
    <3>2. CASE j \in 1..k
      <4>1. q[j] = p[j] /\ p[i] < p[j]
        BY <2>4, <2>5, <2>9, <3>1, <3>2 DEF Ascending
      <4> QED BY <3>1, <4>1
    <3>3. CASE j = k + 1
      <4>1. q[i] \in Int /\ q[j] = x /\ x \in Int /\ q[i] <= x /\ q[i] # x
        BY <2>3, <2>6, <3>1, <3>3
      <4> QED BY <4>1
    <3> QED BY <2>7, <3>2, <3>3
  <2>10. Ascending(q, S, k + 1)
    BY <2>6, <2>8, <2>9 DEF Ascending
  <2> QED BY <2>10
<1> HIDE DEF T
<1>3. n \in T
  BY <1>1, <1>2, ConfigsLog!SetInduction
<1> QED
  BY <1>3 DEF T

\* Sorting an entity that is sorted leaves it, so that apply of a record of
\* a snapshot finds the entity it came from.
LEMMA CanonicalStable ==
  ASSUME EntityType \subseteq Int, NEW e \in Configs!Entity
  PROVE  Configs!CanonicalizeEntity(Configs!CanonicalizeEntity(e))
           = Configs!CanonicalizeEntity(e)
<1> DEFINE Sorted(q) == \A i, j \in DOMAIN q : i < j => q[i] < q[j]
           Set(s) == Configs!ToSet(s)
<1>1. \A s : Configs!CanonicalizeEntity(s)
               = CHOOSE q \in Configs!Entity : Set(q) = Set(s) /\ Sorted(q)
  BY DEF Configs!CanonicalizeEntity
<1>2. \E q \in Configs!Entity : Set(q) = Set(e) /\ Sorted(q)
  <2> DEFINE most == Configs!Cardinality(EntityType)
  <2>0. PICK n \in 1..most : e \in [1..n -> EntityType] /\ Configs!IsInjective(e)
    BY DEF Configs!Entity
  <2> HIDE DEF most
  <2>1. n \in 1..most /\ n \in Nat /\ e \in [1..n -> EntityType] /\ Configs!IsInjective(e)
    BY <2>0
  <2> DEFINE S == Set(e)
  <2>2. S = {e[i] : i \in 1..n} /\ S \subseteq Int /\ S \subseteq EntityType /\ n \in Nat
    BY <2>1 DEF Configs!ToSet
  <2> HIDE DEF S
  <2>3. IsFiniteSet(S) /\ Cardinality(S) = n
    <3>1. e \in Surjection(1..n, S) /\ e \in Injection(1..n, S)
      BY <2>1, <2>2 DEF Surjection, Injection, IsInjective, Configs!IsInjective
    <3>2. IsFiniteSet(1..n) /\ Cardinality(1..n) = n
      BY <2>2, FS_Interval
    <3> QED BY <3>1, <3>2, FS_Surjection
  <2>4. PICK q : Ascending(q, S, n)
    BY <2>2, <2>3, AscendingExists
  <2>5. q \in [1..n -> EntityType] /\ Sorted(q) /\ Set(q) = S
    BY <2>2, <2>4 DEF Ascending, Configs!ToSet
  <2>6. Configs!IsInjective(q)
    <3> SUFFICES ASSUME NEW i \in 1..n, NEW j \in 1..n, q[i] = q[j] PROVE i = j
      BY <2>5 DEF Configs!IsInjective
    <3>1. q[i] \in Int /\ q[j] \in Int /\ i \in Int /\ j \in Int
      <4>1. q[i] \in S /\ q[j] \in S
        BY <2>4 DEF Ascending
      <4> QED BY <2>2, <4>1
    <3>2. ~(q[i] < q[j]) /\ ~(q[j] < q[i])
      BY <3>1
    <3> QED BY <2>4, <3>1, <3>2 DEF Ascending
  <2>7. q \in Configs!Entity
    BY <2>1, <2>5, <2>6 DEF Configs!Entity, most
  <2> QED BY <2>5, <2>7 DEF S
<1> DEFINE c == Configs!CanonicalizeEntity(e)
<1> HIDE DEF Sorted, Set
<1>3. Set(c) = Set(e)
  BY <1>1, <1>2
<1>4. Configs!CanonicalizeEntity(c)
        = CHOOSE q \in Configs!Entity : Set(q) = Set(c) /\ Sorted(q)
  BY <1>1
<1>5. Configs!CanonicalizeEntity(c)
        = CHOOSE q \in Configs!Entity : Set(q) = Set(e) /\ Sorted(q)
  BY <1>3, <1>4
<1> QED
  BY <1>1, <1>5

-----------------------------------------------------------------------------
(* Snapshots of configs, quotas, credentials and tokens *)

\* A section that some h tracks is replayed to the end.
LEMMA ConfigsReplayed ==
  ASSUME NEW base, NEW S, IsFiniteSet(S), NEW h, ConfigsLog!Tracks(h, base, S)
  PROVE  ConfigsLog!Replay(base, S) = h[S]
<1>1. ConfigsLog!IsFiniteSet(S)
  BY DEF IsFiniteSet, ConfigsLog!IsFiniteSet
<1> QED
  BY <1>1, ConfigsLog!ReplayIs

\* The broker configs come first, one record for every key.
LEMMA NodesRestored ==
  ASSUME NEW map, Nested(map), NEW q, NEW g, NEW c
  PROVE  ConfigsLog!Replay(Settings(Configs!EmptyMap, q, g, c),
                           Configs!KeyRecords("BrokerConfig", map))
           = Settings(Keyed(map), q, g, c)
<1> DEFINE S == Configs!KeyRecords("BrokerConfig", map)
           h == [s \in SUBSET S |-> Settings(Cells(map, s), q, g, c)]
<1>1. IsFiniteSet(S)
  BY KeyRecordsFinite
<1>2. Cells(map, {}) = Configs!EmptyMap
  BY DEF Cells, Configs!EmptyMap
<1>3. h[{}] = Settings(Configs!EmptyMap, q, g, c)
  BY <1>2
<1>4. ASSUME NEW s \in SUBSET S, NEW x \in s PROVE h[s] = Configs!Apply(h[s \ {x}], x)
  <2> DEFINE a == Cells(map, s \ {x})
             b == Configs!SetKey(a, x.owner, x.key, x.value)
  <2>1. Cells(map, s) = b /\ x.kind = "BrokerConfig"
    BY CellAdded
  <2>2. h[s] = Settings(Cells(map, s), q, g, c) /\ h[s \ {x}] = Settings(a, q, g, c)
    OBVIOUS
  <2> HIDE DEF a, h
  <2>3. Configs!Apply(h[s \ {x}], x) = [h[s \ {x}] EXCEPT !.nodes = b]
    BY <2>1, <2>2 DEF Configs!Apply, Settings
  <2> HIDE DEF b
  <2>4. [h[s \ {x}] EXCEPT !.nodes = b] = Settings(b, q, g, c)
    BY <2>2 DEF Settings
  <2> QED BY <2>1, <2>2, <2>3, <2>4
<1>5. h = [s \in SUBSET S |-> h[s]] /\ h[S] = Settings(Cells(map, S), q, g, c)
  OBVIOUS
<1>6. Cells(map, S) = Keyed(map)
  BY CellsComplete
<1> HIDE DEF h, S
<1>t. ConfigsLog!Tracks(h, Settings(Configs!EmptyMap, q, g, c), S)
  BY <1>3, <1>4, <1>5 DEF ConfigsLog!Tracks
<1>7. ConfigsLog!Replay(Settings(Configs!EmptyMap, q, g, c), S) = h[S]
  BY <1>1, <1>t, ConfigsReplayed
<1> QED
  BY <1>5, <1>6, <1>7 DEF S

\* So do the quotas, whose entities are sorted already.
LEMMA QuotasRestored ==
  ASSUME NEW map, Nested(map), NEW n, NEW g, NEW c,
         \A e \in DOMAIN map : Configs!CanonicalizeEntity(e) = e
  PROVE  ConfigsLog!Replay(Settings(n, Configs!EmptyMap, g, c),
                           Configs!KeyRecords("ClientQuota", map))
           = Settings(n, Keyed(map), g, c)
<1> DEFINE S == Configs!KeyRecords("ClientQuota", map)
           h == [s \in SUBSET S |-> Settings(n, Cells(map, s), g, c)]
<1>1. IsFiniteSet(S)
  BY KeyRecordsFinite
<1>2. Cells(map, {}) = Configs!EmptyMap
  BY DEF Cells, Configs!EmptyMap
<1>3. h[{}] = Settings(n, Configs!EmptyMap, g, c)
  BY <1>2
<1>4. ASSUME NEW s \in SUBSET S, NEW x \in s PROVE h[s] = Configs!Apply(h[s \ {x}], x)
  <2> DEFINE a == Cells(map, s \ {x})
             b == Configs!SetKey(a, x.owner, x.key, x.value)
  <2>0. Cells(map, s) = b /\ x.kind = "ClientQuota" /\ x.owner \in DOMAIN map
    BY CellAdded
  <2>1. Cells(map, s) = b /\ x.kind = "ClientQuota"
        /\ Configs!CanonicalizeEntity(x.owner) = x.owner
    BY <2>0
  <2>2. h[s] = Settings(n, Cells(map, s), g, c) /\ h[s \ {x}] = Settings(n, a, g, c)
    OBVIOUS
  <2> HIDE DEF a, h
  <2>3. Configs!Apply(h[s \ {x}], x) = [h[s \ {x}] EXCEPT !.quotas = b]
    BY <2>1, <2>2 DEF Configs!Apply, Settings
  <2> HIDE DEF b
  <2>4. [h[s \ {x}] EXCEPT !.quotas = b] = Settings(n, b, g, c)
    BY <2>2 DEF Settings
  <2> QED BY <2>1, <2>2, <2>3, <2>4
<1>5. h = [s \in SUBSET S |-> h[s]] /\ h[S] = Settings(n, Cells(map, S), g, c)
  OBVIOUS
<1>6. Cells(map, S) = Keyed(map)
  BY CellsComplete
<1> HIDE DEF h, S
<1>t. ConfigsLog!Tracks(h, Settings(n, Configs!EmptyMap, g, c), S)
  BY <1>3, <1>4, <1>5 DEF ConfigsLog!Tracks
<1>7. ConfigsLog!Replay(Settings(n, Configs!EmptyMap, g, c), S) = h[S]
  BY <1>1, <1>t, ConfigsReplayed
<1> QED
  BY <1>5, <1>6, <1>7 DEF S

\* The owners of some records, and the map they make.
Kept(map, s) == [o \in {<<rec.kind, rec.owner>> : rec \in s} |-> map[o]]

CredentialRecord(map, o) == [kind |-> o[1], owner |-> o[2], value |-> map[o]]
GroupRecord(map, o) == [kind |-> o[1], owner |-> o[2], configs |-> map[o]]

\* One more record puts one more owner.
LEMMA KeptAdded ==
  ASSUME NEW map, NEW s, NEW x \in s
  PROVE  Kept(map, s) = Configs!Put(Kept(map, s \ {x}), <<x.kind, x.owner>>,
                                    map[<<x.kind, x.owner>>])
<1> DEFINE A == {<<rec.kind, rec.owner>> : rec \in s}
           B == {<<rec.kind, rec.owner>> : rec \in s \ {x}}
           o == <<x.kind, x.owner>>
<1>1. A = B \cup {o}
  OBVIOUS
<1>2. Kept(map, s) = [p \in A |-> map[p]] /\ Kept(map, s \ {x}) = [p \in B |-> map[p]]
  BY DEF Kept
<1> HIDE DEF A, B, o
<1>3. Kept(map, s) = Configs!Put(Kept(map, s \ {x}), o, map[o])
  BY <1>1, <1>2 DEF Configs!Put
<1> QED
  BY <1>3 DEF o

\* f gives the record of every owner, and s is all of them.
RecordsOf(map, s, f) ==
  /\ s = {f[o] : o \in DOMAIN map}
  /\ \A o \in DOMAIN map : f[o].kind = o[1] /\ f[o].owner = o[2]

\* The records of every owner make the map.
LEMMA KeptComplete ==
  ASSUME NEW map, NEW kinds, Whole(map, kinds), NEW s, NEW f, RecordsOf(map, s, f)
  PROVE  Kept(map, s) = map /\ Kept(map, {}) = Configs!EmptyMap /\ IsFiniteSet(s)
<1> USE DEF RecordsOf
<1> DEFINE A == {<<rec.kind, rec.owner>> : rec \in s}
<1>1. \A o \in DOMAIN map : <<f[o].kind, f[o].owner>> = o
  BY DEF Whole
<1>2. A \subseteq DOMAIN map
  BY <1>1
<1>3. DOMAIN map \subseteq A
  BY <1>1
<1>4. Kept(map, s) = [o \in A |-> map[o]]
  BY DEF Kept
<1> HIDE DEF A
<1>5. Kept(map, s) = map
  BY <1>2, <1>3, <1>4 DEF Whole
<1>6. IsFiniteSet(s)
  <2> DEFINE g == [o \in DOMAIN map |-> f[o]]
  <2>1. g \in Surjection(DOMAIN map, s)
    BY DEF Surjection
  <2>2. IsFiniteSet(DOMAIN map)
    BY DEF Whole
  <2> HIDE DEF g
  <2> QED BY <2>1, <2>2, FS_Surjection
<1>7. Kept(map, {}) = Configs!EmptyMap
  BY DEF Kept, Configs!EmptyMap
<1> QED
  BY <1>5, <1>6, <1>7

\* The credentials and tokens.
LEMMA CredentialsRestored ==
  ASSUME NEW map, Whole(map, CredentialKinds), NEW n, NEW q, NEW g
  PROVE  ConfigsLog!Replay(Settings(n, q, g, Configs!EmptyMap),
                           {CredentialRecord(map, o) : o \in DOMAIN map})
           = Settings(n, q, g, map)
<1> DEFINE f == [o \in DOMAIN map |-> CredentialRecord(map, o)]
           S == {CredentialRecord(map, o) : o \in DOMAIN map}
           h == [s \in SUBSET S |-> Settings(n, q, g, Kept(map, s))]
<1>1. S = {f[o] : o \in DOMAIN map}
  OBVIOUS
<1>2. \A o \in DOMAIN map : f[o].kind = o[1] /\ f[o].owner = o[2]
  BY DEF CredentialRecord
<1>3. \A x \in S : x.kind \in CredentialKinds /\ x.value = map[<<x.kind, x.owner>>]
  BY DEF CredentialRecord, Whole
<1> HIDE DEF S, f
<1>4. Kept(map, S) = map /\ Kept(map, {}) = Configs!EmptyMap /\ IsFiniteSet(S)
  <2>1. RecordsOf(map, S, f)
    BY <1>1, <1>2 DEF RecordsOf
  <2> QED BY <2>1, KeptComplete
<1>5. h[{}] = Settings(n, q, g, Configs!EmptyMap)
  BY <1>4
<1>6. ASSUME NEW s \in SUBSET S, NEW x \in s PROVE h[s] = Configs!Apply(h[s \ {x}], x)
  <2> DEFINE a == Kept(map, s \ {x})
             b == Configs!Put(a, <<x.kind, x.owner>>, x.value)
  <2>1. Kept(map, s) = b /\ x.kind \in CredentialKinds
    BY <1>3, KeptAdded
  <2>2. h[s] = Settings(n, q, g, Kept(map, s)) /\ h[s \ {x}] = Settings(n, q, g, a)
    OBVIOUS
  <2> HIDE DEF a, h
  <2>3. Configs!Apply(h[s \ {x}], x) = [h[s \ {x}] EXCEPT !.creds = b]
    BY <2>1, <2>2 DEF Configs!Apply, Settings, CredentialKinds
  <2> HIDE DEF b
  <2>4. [h[s \ {x}] EXCEPT !.creds = b] = Settings(n, q, g, b)
    BY <2>2 DEF Settings
  <2> QED BY <2>1, <2>2, <2>3, <2>4
<1>7. h = [s \in SUBSET S |-> h[s]] /\ h[S] = Settings(n, q, g, Kept(map, S))
  OBVIOUS
<1> HIDE DEF h
<1>t. ConfigsLog!Tracks(h, Settings(n, q, g, Configs!EmptyMap), S)
  BY <1>5, <1>6, <1>7 DEF ConfigsLog!Tracks
<1>8. ConfigsLog!Replay(Settings(n, q, g, Configs!EmptyMap), S) = h[S]
  BY <1>4, <1>t, ConfigsReplayed
<1> QED
  BY <1>4, <1>7, <1>8 DEF S

\* The group and client-metrics configs, none of which is empty.
LEMMA GroupsRestored ==
  ASSUME NEW map, Whole(map, GroupKinds), NoneEmpty(map),
         NEW n, NEW q, NEW c
  PROVE  ConfigsLog!Replay(Settings(n, q, Configs!EmptyMap, c),
                           {GroupRecord(map, o) : o \in DOMAIN map})
           = Settings(n, q, map, c)
<1> DEFINE f == [o \in DOMAIN map |-> GroupRecord(map, o)]
           S == {GroupRecord(map, o) : o \in DOMAIN map}
           h == [s \in SUBSET S |-> Settings(n, q, Kept(map, s), c)]
<1>1. S = {f[o] : o \in DOMAIN map}
  OBVIOUS
<1>2. \A o \in DOMAIN map : f[o].kind = o[1] /\ f[o].owner = o[2]
  BY DEF GroupRecord
<1>3. \A x \in S : x.kind \in GroupKinds /\ x.configs = map[<<x.kind, x.owner>>]
        /\ x.configs # {}
  BY DEF GroupRecord, Whole, NoneEmpty
<1> HIDE DEF S, f
<1>4. Kept(map, S) = map /\ Kept(map, {}) = Configs!EmptyMap /\ IsFiniteSet(S)
  <2>1. RecordsOf(map, S, f)
    BY <1>1, <1>2 DEF RecordsOf
  <2> QED BY <2>1, KeptComplete
<1>5. h[{}] = Settings(n, q, Configs!EmptyMap, c)
  BY <1>4
<1>6. ASSUME NEW s \in SUBSET S, NEW x \in s PROVE h[s] = Configs!Apply(h[s \ {x}], x)
  <2> DEFINE a == Kept(map, s \ {x})
             b == Configs!Put(a, <<x.kind, x.owner>>, x.configs)
  <2>1. Kept(map, s) = b /\ x.kind \in GroupKinds /\ x.configs # {}
    BY <1>3, KeptAdded
  <2>2. h[s] = Settings(n, q, Kept(map, s), c) /\ h[s \ {x}] = Settings(n, q, a, c)
    OBVIOUS
  <2> HIDE DEF a, h
  <2>3. Configs!Apply(h[s \ {x}], x) = [h[s \ {x}] EXCEPT !.groups = b]
    BY <2>1, <2>2 DEF Configs!Apply, Settings, GroupKinds, Configs!Replaced
  <2> HIDE DEF b
  <2>4. [h[s \ {x}] EXCEPT !.groups = b] = Settings(n, q, b, c)
    BY <2>2 DEF Settings
  <2> QED BY <2>1, <2>2, <2>3, <2>4
<1>7. h = [s \in SUBSET S |-> h[s]] /\ h[S] = Settings(n, q, Kept(map, S), c)
  OBVIOUS
<1> HIDE DEF h
<1>t. ConfigsLog!Tracks(h, Settings(n, q, Configs!EmptyMap, c), S)
  BY <1>5, <1>6, <1>7 DEF ConfigsLog!Tracks
<1>8. ConfigsLog!Replay(Settings(n, q, Configs!EmptyMap, c), S) = h[S]
  BY <1>4, <1>t, ConfigsReplayed
<1> QED
  BY <1>4, <1>7, <1>8 DEF S

\* from_records after to_records gives what View says a snapshot keeps.
LEMMA ConfigsRestored ==
  ASSUME NEW img, ConfigImage(img)
  PROVE  Configs!FromRecords(Configs!ToRecords(img)) = Configs!View(img)
<1> DEFINE E == Configs!EmptyMap
           S1 == Configs!KeyRecords("BrokerConfig", img.nodes)
           S2 == {CredentialRecord(img.creds, o) : o \in DOMAIN img.creds}
           S3 == Configs!KeyRecords("ClientQuota", img.quotas)
           S4 == {GroupRecord(img.groups, o) : o \in DOMAIN img.groups}
           sections == <<S1, S2, S3, S4>>
           a == Keyed(img.nodes)
           b == Keyed(img.quotas)
           m == [k \in 0..4 |->
                   CASE k = 0 -> Settings(E, E, E, E)
                     [] k = 1 -> Settings(a, E, E, E)
                     [] k = 2 -> Settings(a, E, E, img.creds)
                     [] k = 3 -> Settings(a, b, E, img.creds)
                     [] k = 4 -> Settings(a, b, img.groups, img.creds)]
<1>1. Configs!FromRecords(Configs!ToRecords(img)) = ConfigsLog!FromRecords(sections)
  <2>1. Configs!ToRecords(img) = sections
    BY DEF Configs!ToRecords, Configs!BrokerConfigRecords, Configs!QuotaRecords,
       CredentialRecord, GroupRecord
  <2>2. \A x : Configs!FromRecords(x) = ConfigsLog!FromRecords(x)
    BY DEF Configs!FromRecords, ConfigsLog!FromRecords,
       Configs!FoldLeft, ConfigsLog!FoldLeft, Configs!MapThenFoldSet,
       ConfigsLog!MapThenFoldSet, Configs!Max, ConfigsLog!Max, Configs!FoldSet,
       ConfigsLog!FoldSet
  <2> QED BY <2>1, <2>2
<1> HIDE DEF a, b, E
<1>2. /\ m[0] = Settings(E, E, E, E) /\ m[1] = Settings(a, E, E, E)
      /\ m[2] = Settings(a, E, E, img.creds) /\ m[3] = Settings(a, b, E, img.creds)
      /\ m[4] = Settings(a, b, img.groups, img.creds)
  OBVIOUS
<1> HIDE DEF m
<1>3. m[1] = ConfigsLog!Replay(m[0], S1)
  BY <1>2, NodesRestored DEF ConfigImage, a, E
<1>4. m[2] = ConfigsLog!Replay(m[1], S2)
  BY <1>2, CredentialsRestored DEF ConfigImage, E
<1>5. m[3] = ConfigsLog!Replay(m[2], S3)
  BY <1>2, QuotasRestored DEF ConfigImage, b, E
<1>6. m[4] = ConfigsLog!Replay(m[3], S4)
  BY <1>2, GroupsRestored DEF ConfigImage, E
<1> HIDE DEF S1, S2, S3, S4
<1>7. DOMAIN sections = 1..4 /\ sections[1] = S1 /\ sections[2] = S2 /\ sections[3] = S3
      /\ sections[4] = S4
  OBVIOUS
<1> HIDE DEF sections
<1>8. ConfigsLog!Between(m, sections, 4)
  <2>1. \A k \in 1..4 : k = 1 \/ k = 2 \/ k = 3 \/ k = 4
    OBVIOUS
  <2>2. m[0] = Configs!NewImage
    BY <1>2 DEF Configs!NewImage, Settings, E
  <2> QED
    BY <1>3, <1>4, <1>5, <1>6, <1>7, <2>1, <2>2 DEF ConfigsLog!Between
<1>9. ConfigsLog!FromRecords(sections) = m[4]
  BY <1>7, <1>8, ConfigsLog!FromRecordsIs
<1>10. m[4] = Configs!View(img)
  BY <1>2, ConfigView DEF ConfigImage, a, b
<1> QED
  BY <1>1, <1>9, <1>10

-----------------------------------------------------------------------------
(* The steps of configs, quotas, credentials and tokens *)

\* What the handlers submit.
ConfigRecord(rec) ==
  \/ rec.kind = "BrokerConfig"
  \/ /\ rec.kind = "ClientQuota"
     /\ Configs!CanonicalizeEntity(Configs!CanonicalizeEntity(rec.owner))
          = Configs!CanonicalizeEntity(rec.owner)
  \/ rec.kind \in GroupKinds \cup CredentialKinds
  \/ rec.kind \in {"DeleteScramCredential", "DeleteDelegationToken"}

ConfigRequest(request) ==
  /\ request = [record |-> request.record, seen |-> request.seen]
  /\ ConfigRecord(request.record)

\* The two replicas agree on what a snapshot keeps.
Agreeing(a, b) == ConfigImage(a) /\ ConfigImage(b) /\ Configs!View(a) = Configs!View(b)

ConfigsInv ==
  /\ Agreeing(image, replayed)
  /\ \A request \in pending : ConfigRequest(request)
  /\ IsSequence(unapplied)
  /\ \A i \in DOMAIN unapplied : ConfigRequest(unapplied[i])

\* The maps put and dropped from stay as the image needs them.
LEMMA WholePut ==
  ASSUME NEW map, NEW kinds, Whole(map, kinds), NEW k \in kinds, NEW o, NEW v
  PROVE  Whole(Configs!Put(map, <<k, o>>, v), kinds)
<1> DEFINE p == <<k, o>>
           new == Configs!Put(map, p, v)
<1>1. new = [x \in DOMAIN map \cup {p} |-> IF x = p THEN v ELSE map[x]]
  BY DEF Configs!Put
<1>2. p = <<p[1], p[2]>> /\ p[1] \in kinds
  OBVIOUS
<1> HIDE DEF new, p
<1>3. DOMAIN new = DOMAIN map \cup {p} /\ new = [x \in DOMAIN new |-> new[x]]
  BY <1>1
<1>4. IsFiniteSet(DOMAIN new)
  BY <1>3, FS_AddElement DEF Whole
<1>5. Whole(new, kinds)
  BY <1>2, <1>3, <1>4 DEF Whole
<1> QED
  BY <1>5 DEF new, p

\* The same of a removal.
LEMMA WholeDrop ==
  ASSUME NEW map, NEW kinds, Whole(map, kinds), NEW gone
  PROVE  Whole(Configs!Drop(map, gone), kinds)
<1> DEFINE new == Configs!Drop(map, gone)
<1>1. new = [x \in DOMAIN map \ gone |-> map[x]]
  BY DEF Configs!Drop
<1> HIDE DEF new
<1>2. DOMAIN new = DOMAIN map \ gone /\ new = [x \in DOMAIN new |-> new[x]]
  BY <1>1
<1>3. IsFiniteSet(DOMAIN new)
  <2>1. IsFiniteSet(DOMAIN map)
    BY DEF Whole
  <2> QED BY <1>2, <2>1, FS_Difference
<1>4. Whole(new, kinds)
  BY <1>2, <1>3 DEF Whole
<1> QED
  BY <1>4 DEF new

\* A change of one key keeps the shape, and adds its owner at most.
LEMMA NestedSet ==
  ASSUME NEW map, Nested(map), NEW o, NEW k, NEW v
  PROVE  /\ Nested(Configs!SetKey(map, o, k, v))
         /\ DOMAIN Configs!SetKey(map, o, k, v) = DOMAIN map \cup {o}
<1> DEFINE old == Configs!OrDefault(map, o)
           put == Configs!Put(old, k, CHOOSE w \in v : TRUE)
           drop == Configs!Drop(old, {k})
           inner == IF v = Configs!None THEN drop ELSE put
           new == Configs!SetKey(map, o, k, v)
<1>1. new = Configs!Put(map, o, inner)
  BY DEF Configs!SetKey
<1>2. IsFiniteSet(DOMAIN old)
  <2>1. IsFiniteSet(DOMAIN Configs!EmptyMap)
    BY FS_EmptySet DEF Configs!EmptyMap
  <2> QED BY <2>1 DEF Nested, Configs!OrDefault
<1>3. IsFiniteSet(DOMAIN inner) /\ inner = [j \in DOMAIN inner |-> inner[j]]
  <2> HIDE DEF old
  <2>1. drop = [j \in DOMAIN old \ {k} |-> old[j]] /\ DOMAIN drop = DOMAIN old \ {k}
    BY DEF Configs!Drop
  <2>2. DOMAIN put = DOMAIN old \cup {k} /\ put = [j \in DOMAIN put |-> put[j]]
    BY DEF Configs!Put
  <2>3. IsFiniteSet(DOMAIN drop) /\ IsFiniteSet(DOMAIN put)
    BY <1>2, <2>1, <2>2, FS_AddElement, FS_Difference
  <2>4. drop = [j \in DOMAIN drop |-> drop[j]]
    BY <2>1
  <2> HIDE DEF put, drop
  <2> QED BY <2>2, <2>3, <2>4
<1> HIDE DEF inner, new
<1>4. new = [p \in DOMAIN map \cup {o} |-> IF p = o THEN inner ELSE map[p]]
  BY <1>1 DEF Configs!Put
<1>5. DOMAIN new = DOMAIN map \cup {o} /\ new = [p \in DOMAIN new |-> new[p]]
      /\ new[o] = inner /\ \A p \in DOMAIN map : p # o => new[p] = map[p]
  BY <1>4
<1>6. IsFiniteSet(DOMAIN new)
  BY <1>5, FS_AddElement DEF Nested
<1>7. Nested(new)
  BY <1>3, <1>5, <1>6 DEF Nested
<1> QED
  BY <1>5, <1>7 DEF new

\* What a change of one key does to the owners that have a key depends on
\* nothing else: an owner without a key is as good as none.
LEMMA KeyedSet ==
  ASSUME NEW a, Nested(a), NEW b, Nested(b), Keyed(a) = Keyed(b), NEW o, NEW k, NEW v
  PROVE  Keyed(Configs!SetKey(a, o, k, v)) = Keyed(Configs!SetKey(b, o, k, v))
<1> DEFINE Live(map) == {p \in DOMAIN map : DOMAIN map[p] # {}}
<1>1. \A map : Keyed(map) = [p \in Live(map) |-> map[p]]
  <2> SUFFICES ASSUME NEW map PROVE Keyed(map) = [p \in Live(map) |-> map[p]]
    OBVIOUS
  <2>1. DOMAIN map \ {p \in DOMAIN map : DOMAIN map[p] = {}} = Live(map)
    OBVIOUS
  <2> HIDE DEF Live
  <2> QED BY <2>1 DEF Keyed, Configs!Drop
<1>2. Live(a) = Live(b) /\ \A p \in Live(a) : a[p] = b[p]
  <2>1. DOMAIN Keyed(a) = Live(a) /\ DOMAIN Keyed(b) = Live(b)
    BY <1>1
  <2>2. \A p \in Live(a) : Keyed(a)[p] = a[p]
    BY <1>1
  <2>3. \A p \in Live(b) : Keyed(b)[p] = b[p]
    BY <1>1
  <2> HIDE DEF Live
  <2> QED BY <2>1, <2>2, <2>3
<1>3. ASSUME NEW map, Nested(map), o \notin Live(map)
      PROVE  Configs!OrDefault(map, o) = Configs!EmptyMap
  <2>1. CASE o \in DOMAIN map
    <3>1. DOMAIN map[o] = {} /\ map[o] = [j \in DOMAIN map[o] |-> map[o][j]]
      BY <1>3, <2>1 DEF Nested
    <3>2. map[o] = Configs!EmptyMap
      BY <3>1 DEF Configs!EmptyMap
    <3> QED BY <2>1, <3>2 DEF Configs!OrDefault
  <2>2. CASE o \notin DOMAIN map
    BY <2>2 DEF Configs!OrDefault
  <2> QED BY <2>1, <2>2
<1>4. Configs!OrDefault(a, o) = Configs!OrDefault(b, o)
  <2>1. CASE o \in Live(a)
    BY <2>1, <1>2 DEF Configs!OrDefault
  <2>2. CASE o \notin Live(a)
    BY <2>2, <1>2, <1>3
  <2> QED BY <2>1, <2>2
<1> DEFINE inner == IF v = Configs!None THEN Configs!Drop(Configs!OrDefault(a, o), {k})
                    ELSE Configs!Put(Configs!OrDefault(a, o), k, CHOOSE w \in v : TRUE)
<1>5. /\ Configs!SetKey(a, o, k, v) = Configs!Put(a, o, inner)
      /\ Configs!SetKey(b, o, k, v) = Configs!Put(b, o, inner)
  BY <1>4 DEF Configs!SetKey
<1> HIDE DEF inner
<1> DEFINE lives == IF DOMAIN inner = {} THEN Live(a) \ {o} ELSE Live(a) \cup {o}
<1>6. ASSUME NEW map, Live(map) = Live(a), \A p \in Live(a) : map[p] = a[p]
      PROVE  Keyed(Configs!Put(map, o, inner)) = [p \in lives |-> IF p = o THEN inner ELSE a[p]]
  <2> DEFINE new == Configs!Put(map, o, inner)
  <2>1. DOMAIN new = DOMAIN map \cup {o}
        /\ \A p \in DOMAIN new : new[p] = IF p = o THEN inner ELSE map[p]
    BY DEF Configs!Put
  <2> HIDE DEF new
  <2>2. Live(new) = lives
    <3>1. ASSUME NEW p PROVE p \in Live(new) <=> p \in lives
      <4>1. CASE p = o
        BY <4>1, <2>1
      <4>2. CASE p # o
        <5>1. p \in Live(new) <=> p \in Live(map)
          BY <4>2, <2>1
        <5>2. p \in lives <=> p \in Live(a)
          BY <4>2
        <5> QED BY <5>1, <5>2, <1>6
      <4> QED BY <4>1, <4>2
    <3> HIDE DEF Live, lives
    <3> QED BY <3>1
  <2>3. \A p \in lives : new[p] = IF p = o THEN inner ELSE a[p]
    <3>1. \A p \in lives : p \in DOMAIN new
      BY <2>2
    <3>2. \A p \in lives : p # o => p \in Live(a)
      OBVIOUS
    <3> HIDE DEF lives, Live
    <3> QED BY <2>1, <1>6, <3>1, <3>2
  <2>4. Keyed(new) = [p \in Live(new) |-> new[p]]
    BY <1>1
  <2> HIDE DEF Live, lives
  <2>5. Keyed(new) = [p \in lives |-> IF p = o THEN inner ELSE a[p]]
    BY <2>2, <2>3, <2>4
  <2> QED BY <2>5 DEF new
<1> HIDE DEF Live, lives
<1> QED
  BY <1>2, <1>5, <1>6

\* Agreement, map by map.
SameKeys(a, b) ==
  /\ Keyed(a.nodes) = Keyed(b.nodes) /\ Keyed(a.quotas) = Keyed(b.quotas)
  /\ a.groups = b.groups /\ a.creds = b.creds

\* Two images agree on what a snapshot keeps when their maps do.
LEMMA AgreeingIs ==
  ASSUME NEW a, NEW b, ConfigImage(a), ConfigImage(b)
  PROVE  Configs!View(a) = Configs!View(b) <=> SameKeys(a, b)
<1>1. /\ Configs!View(a) = Settings(Keyed(a.nodes), Keyed(a.quotas), a.groups, a.creds)
      /\ Configs!View(b) = Settings(Keyed(b.nodes), Keyed(b.quotas), b.groups, b.creds)
  BY ConfigView DEF ConfigImage
<1>2. ASSUME NEW n, NEW q, NEW g, NEW c, NEW m, NEW p, NEW h, NEW d
      PROVE  Settings(n, q, g, c) = Settings(m, p, h, d) <=> n = m /\ q = p /\ g = h /\ c = d
  BY DEF Settings
<1> QED
  BY <1>1, <1>2 DEF SameKeys

\* apply of one record to one image: which map it replaces, and by what.
ConfigApplied(img, new, rec) ==
  \/ /\ rec.kind = "BrokerConfig"
     /\ new = Settings(Configs!SetKey(img.nodes, rec.owner, rec.key, rec.value),
                       img.quotas, img.groups, img.creds)
  \/ /\ rec.kind = "ClientQuota"
     /\ new = Settings(img.nodes,
                       Configs!SetKey(img.quotas, Configs!CanonicalizeEntity(rec.owner),
                                      rec.key, rec.value),
                       img.groups, img.creds)
  \/ /\ rec.kind \in GroupKinds
     /\ new = Settings(img.nodes, img.quotas,
                       Configs!Replaced(img.groups, <<rec.kind, rec.owner>>, rec.configs),
                       img.creds)
  \/ /\ rec.kind \in CredentialKinds
     /\ new = Settings(img.nodes, img.quotas, img.groups,
                       Configs!Put(img.creds, <<rec.kind, rec.owner>>, rec.value))
  \/ /\ rec.kind = "DeleteScramCredential"
     /\ new = Settings(img.nodes, img.quotas, img.groups,
                       Configs!Drop(img.creds, {<<"ScramCredential", rec.owner>>}))
  \/ /\ rec.kind = "DeleteDelegationToken"
     /\ new = Settings(img.nodes, img.quotas, img.groups,
                       Configs!Drop(img.creds, {<<"DelegationToken", rec.owner>>}))

\* A field of the image replaced.
LEMMA SettingsReplaced ==
  ASSUME NEW img, img = Settings(img.nodes, img.quotas, img.groups, img.creds), NEW x
  PROVE  /\ [img EXCEPT !.nodes = x] = Settings(x, img.quotas, img.groups, img.creds)
         /\ [img EXCEPT !.quotas = x] = Settings(img.nodes, x, img.groups, img.creds)
         /\ [img EXCEPT !.groups = x] = Settings(img.nodes, img.quotas, x, img.creds)
         /\ [img EXCEPT !.creds = x] = Settings(img.nodes, img.quotas, img.groups, x)
BY DEF Settings

\* Each record replaces one map.
LEMMA ConfigApplyIs ==
  ASSUME NEW img, ConfigImage(img), NEW rec, ConfigRecord(rec)
  PROVE  ConfigApplied(img, Configs!Apply(img, rec), rec)
<1>0. img = Settings(img.nodes, img.quotas, img.groups, img.creds)
  BY DEF ConfigImage
<1> DEFINE new == Configs!Apply(img, rec)
<1>1. CASE rec.kind = "BrokerConfig"
  <2> DEFINE x == Configs!SetKey(img.nodes, rec.owner, rec.key, rec.value)
  <2>1. new = [img EXCEPT !.nodes = x]
    BY <1>1 DEF Configs!Apply
  <2> HIDE DEF new, x
  <2>2. new = Settings(x, img.quotas, img.groups, img.creds)
    BY <1>0, <2>1, SettingsReplaced
  <2> QED BY <1>1, <2>2 DEF ConfigApplied, new, x
<1>2. CASE rec.kind = "ClientQuota"
  <2> DEFINE x == Configs!SetKey(img.quotas, Configs!CanonicalizeEntity(rec.owner),
                                   rec.key, rec.value)
  <2>1. new = [img EXCEPT !.quotas = x]
    BY <1>2 DEF Configs!Apply
  <2> HIDE DEF new, x
  <2>2. new = Settings(img.nodes, x, img.groups, img.creds)
    BY <1>0, <2>1, SettingsReplaced
  <2> QED BY <1>2, <2>2 DEF ConfigApplied, new, x
<1>3. CASE rec.kind \in GroupKinds
  <2> DEFINE x == Configs!Replaced(img.groups, <<rec.kind, rec.owner>>, rec.configs)
  <2>1. new = [img EXCEPT !.groups = x]
    BY <1>3 DEF Configs!Apply, GroupKinds
  <2> HIDE DEF new, x
  <2>2. new = Settings(img.nodes, img.quotas, x, img.creds)
    BY <1>0, <2>1, SettingsReplaced
  <2> QED BY <1>3, <2>2 DEF ConfigApplied, new, x
<1>4. CASE rec.kind \in CredentialKinds
  <2> DEFINE x == Configs!Put(img.creds, <<rec.kind, rec.owner>>, rec.value)
  <2>1. new = [img EXCEPT !.creds = x]
    BY <1>4 DEF Configs!Apply, CredentialKinds
  <2> HIDE DEF new, x
  <2>2. new = Settings(img.nodes, img.quotas, img.groups, x)
    BY <1>0, <2>1, SettingsReplaced
  <2> QED BY <1>4, <2>2 DEF ConfigApplied, new, x
<1>5. CASE rec.kind = "DeleteScramCredential"
  <2> DEFINE x == Configs!Drop(img.creds, {<<"ScramCredential", rec.owner>>})
  <2>1. new = [img EXCEPT !.creds = x]
    BY <1>5 DEF Configs!Apply
  <2> HIDE DEF new, x
  <2>2. new = Settings(img.nodes, img.quotas, img.groups, x)
    BY <1>0, <2>1, SettingsReplaced
  <2> QED BY <1>5, <2>2 DEF ConfigApplied, new, x
<1>6. CASE rec.kind = "DeleteDelegationToken"
  <2> DEFINE x == Configs!Drop(img.creds, {<<"DelegationToken", rec.owner>>})
  <2>1. new = [img EXCEPT !.creds = x]
    BY <1>6 DEF Configs!Apply
  <2> HIDE DEF new, x
  <2>2. new = Settings(img.nodes, img.quotas, img.groups, x)
    BY <1>0, <2>1, SettingsReplaced
  <2> QED BY <1>6, <2>2 DEF ConfigApplied, new, x
<1> QED
  BY <1>1, <1>2, <1>3, <1>4, <1>5, <1>6 DEF ConfigRecord

\* Applying a record leaves an image sound.
LEMMA ConfigApplySound ==
  ASSUME NEW img, ConfigImage(img), NEW rec, ConfigRecord(rec), NEW new,
         ConfigApplied(img, new, rec)
  PROVE  ConfigImage(new)
<1>0. /\ Nested(img.nodes) /\ Nested(img.quotas)
      /\ \A e \in DOMAIN img.quotas : Configs!CanonicalizeEntity(e) = e
      /\ Whole(img.groups, GroupKinds) /\ NoneEmpty(img.groups)
      /\ Whole(img.creds, CredentialKinds)
  BY DEF ConfigImage
<1> DEFINE n == img.nodes
           q == img.quotas
           g == img.groups
           c == img.creds
<1>f. ASSUME NEW m, NEW p, NEW h, NEW d, new = Settings(m, p, h, d)
      PROVE  new.nodes = m /\ new.quotas = p /\ new.groups = h /\ new.creds = d
  BY <1>f DEF Settings
<1>1. CASE rec.kind = "BrokerConfig"
  <2> DEFINE x == Configs!SetKey(n, rec.owner, rec.key, rec.value)
  <2>1. new = Settings(x, q, g, c)
    BY <1>1 DEF ConfigApplied, GroupKinds, CredentialKinds
  <2>2. Nested(x)
    BY <1>0, NestedSet
  <2> HIDE DEF x
  <2> QED BY <1>0, <1>f, <2>1, <2>2 DEF ConfigImage
<1>2. CASE rec.kind = "ClientQuota"
  <2> DEFINE e == Configs!CanonicalizeEntity(rec.owner)
             x == Configs!SetKey(q, e, rec.key, rec.value)
  <2>1. new = Settings(n, x, g, c)
    BY <1>2 DEF ConfigApplied, GroupKinds, CredentialKinds
  <2>2. Nested(x) /\ DOMAIN x = DOMAIN q \cup {e}
    BY <1>0, NestedSet
  <2>3. Configs!CanonicalizeEntity(e) = e
    BY <1>2 DEF ConfigRecord, GroupKinds, CredentialKinds
  <2> HIDE DEF x, e
  <2> QED BY <1>0, <1>f, <2>1, <2>2, <2>3 DEF ConfigImage
<1>3. CASE rec.kind \in GroupKinds
  <2> DEFINE o == <<rec.kind, rec.owner>>
             x == Configs!Replaced(g, o, rec.configs)
  <2>1. new = Settings(n, q, x, c)
    BY <1>3 DEF ConfigApplied, GroupKinds, CredentialKinds
  <2>2. Whole(x, GroupKinds) /\ NoneEmpty(x)
    <3>1. CASE rec.configs = {}
      <4>1. x = Configs!Drop(g, {o})
        BY <3>1 DEF Configs!Replaced
      <4>2. Whole(Configs!Drop(g, {o}), GroupKinds)
        BY <1>0, WholeDrop
      <4>3. NoneEmpty(Configs!Drop(g, {o}))
        BY <1>0 DEF NoneEmpty, Configs!Drop
      <4> QED BY <4>1, <4>2, <4>3
    <3>2. CASE rec.configs # {}
      <4>1. x = Configs!Put(g, o, rec.configs)
        BY <3>2 DEF Configs!Replaced
      <4>2. Whole(Configs!Put(g, o, rec.configs), GroupKinds)
        BY <1>0, <1>3, WholePut
      <4> HIDE DEF o
      <4>3. NoneEmpty(Configs!Put(g, o, rec.configs))
        BY <1>0, <3>2 DEF NoneEmpty, Configs!Put
      <4> QED BY <4>1, <4>2, <4>3
    <3> QED BY <3>1, <3>2
  <2> HIDE DEF x
  <2> QED BY <1>0, <1>f, <2>1, <2>2 DEF ConfigImage
<1>4. ASSUME NEW x, new = Settings(n, q, g, x), Whole(x, CredentialKinds)
      PROVE  ConfigImage(new)
  BY <1>0, <1>f, <1>4 DEF ConfigImage
<1>5. CASE rec.kind \in CredentialKinds
  <2>1. new = Settings(n, q, g, Configs!Put(c, <<rec.kind, rec.owner>>, rec.value))
    BY <1>5 DEF ConfigApplied, GroupKinds, CredentialKinds
  <2> QED BY <1>0, <1>4, <1>5, <2>1, WholePut
<1>6. CASE rec.kind = "DeleteScramCredential"
  <2>1. new = Settings(n, q, g, Configs!Drop(c, {<<"ScramCredential", rec.owner>>}))
    BY <1>6 DEF ConfigApplied, GroupKinds, CredentialKinds
  <2> QED BY <1>0, <1>4, <2>1, WholeDrop
<1>7. CASE rec.kind = "DeleteDelegationToken"
  <2>1. new = Settings(n, q, g, Configs!Drop(c, {<<"DelegationToken", rec.owner>>}))
    BY <1>7 DEF ConfigApplied, GroupKinds, CredentialKinds
  <2> QED BY <1>0, <1>4, <2>1, WholeDrop
<1> QED
  BY <1>1, <1>2, <1>3, <1>5, <1>6, <1>7 DEF ConfigRecord

\* Images that agree still agree after the same record.
LEMMA ConfigApplyAgrees ==
  ASSUME NEW a, NEW b, Agreeing(a, b), NEW rec, ConfigRecord(rec)
  PROVE  Agreeing(Configs!Apply(a, rec), Configs!Apply(b, rec))
<1> DEFINE x == Configs!Apply(a, rec)
           y == Configs!Apply(b, rec)
<1>1. ConfigImage(a) /\ ConfigImage(b) /\ SameKeys(a, b)
  BY AgreeingIs DEF Agreeing
<1>2. ConfigApplied(a, x, rec) /\ ConfigApplied(b, y, rec)
  BY <1>1, ConfigApplyIs
<1> HIDE DEF x, y
<1>3. ConfigImage(x) /\ ConfigImage(y)
  BY <1>1, <1>2, ConfigApplySound
<1>4. Nested(a.nodes) /\ Nested(b.nodes) /\ Nested(a.quotas) /\ Nested(b.quotas)
  BY <1>1 DEF ConfigImage
<1>f. ASSUME NEW z, NEW m, NEW p, NEW h, NEW d, z = Settings(m, p, h, d)
      PROVE  z.nodes = m /\ z.quotas = p /\ z.groups = h /\ z.creds = d
  BY <1>f DEF Settings
<1>5. SameKeys(x, y)
  <2>1. CASE rec.kind = "BrokerConfig"
    <3> DEFINE u == Configs!SetKey(a.nodes, rec.owner, rec.key, rec.value)
               v == Configs!SetKey(b.nodes, rec.owner, rec.key, rec.value)
    <3>1. x = Settings(u, a.quotas, a.groups, a.creds) /\ y = Settings(v, b.quotas, b.groups, b.creds)
      BY <1>2, <2>1 DEF ConfigApplied, GroupKinds, CredentialKinds
    <3>2. Keyed(u) = Keyed(v)
      BY <1>1, <1>4, KeyedSet DEF SameKeys
    <3> HIDE DEF u, v
    <3> QED BY <1>1, <1>f, <3>1, <3>2 DEF SameKeys
  <2>2. CASE rec.kind = "ClientQuota"
    <3> DEFINE e == Configs!CanonicalizeEntity(rec.owner)
               u == Configs!SetKey(a.quotas, e, rec.key, rec.value)
               v == Configs!SetKey(b.quotas, e, rec.key, rec.value)
    <3>1. x = Settings(a.nodes, u, a.groups, a.creds) /\ y = Settings(b.nodes, v, b.groups, b.creds)
      BY <1>2, <2>2 DEF ConfigApplied, GroupKinds, CredentialKinds
    <3>2. Keyed(u) = Keyed(v)
      BY <1>1, <1>4, KeyedSet DEF SameKeys
    <3> HIDE DEF u, v
    <3> QED BY <1>1, <1>f, <3>1, <3>2 DEF SameKeys
  <2>3. ASSUME NEW u, NEW v, x = Settings(a.nodes, a.quotas, u, v),
               y = Settings(b.nodes, b.quotas, u, v)
        PROVE  SameKeys(x, y)
    BY <1>1, <1>f, <2>3 DEF SameKeys
  <2>4. CASE rec.kind \notin {"BrokerConfig", "ClientQuota"}
    <3>1. a.groups = b.groups /\ a.creds = b.creds
      BY <1>1 DEF SameKeys
    <3> QED
      BY <1>2, <2>3, <2>4, <3>1 DEF ConfigApplied, GroupKinds, CredentialKinds
  <2> QED BY <2>1, <2>2, <2>4
<1>6. Agreeing(x, y)
  BY <1>3, <1>5, AgreeingIs DEF Agreeing
<1> QED
  BY <1>6 DEF x, y

\* A restart takes an image to what View keeps of it, which agrees with it.
LEMMA ViewAgrees ==
  ASSUME NEW img, ConfigImage(img)
  PROVE  ConfigImage(Configs!View(img)) /\ Configs!View(Configs!View(img)) = Configs!View(img)
<1> DEFINE new == Configs!View(img)
           n == Keyed(img.nodes)
           q == Keyed(img.quotas)
<1>1. new = Settings(n, q, img.groups, img.creds)
  BY ConfigView DEF ConfigImage
<1>2. ASSUME NEW map, Nested(map)
      PROVE  Nested(Keyed(map)) /\ DOMAIN Keyed(map) \subseteq DOMAIN map
             /\ Keyed(Keyed(map)) = Keyed(map)
  <2> DEFINE D == {o \in DOMAIN map : DOMAIN map[o] # {}}
             k == Keyed(map)
  <2>1. k = [o \in D |-> map[o]]
    <3>1. DOMAIN map \ {o \in DOMAIN map : DOMAIN map[o] = {}} = D
      OBVIOUS
    <3> HIDE DEF D
    <3> QED BY <3>1 DEF Keyed, Configs!Drop
  <2>2. D \subseteq DOMAIN map /\ \A o \in D : DOMAIN map[o] # {}
    OBVIOUS
  <2>3. IsFiniteSet(D)
    <3> HIDE DEF D
    <3> QED BY <1>2, <2>2, FS_Subset DEF Nested
  <2> HIDE DEF k, D
  <2>4. DOMAIN k = D /\ \A o \in D : k[o] = map[o]
    BY <2>1
  <2>5. Nested(k)
    BY <1>2, <2>1, <2>2, <2>3, <2>4 DEF Nested
  <2>6. {o \in DOMAIN k : DOMAIN k[o] = {}} = {}
    BY <2>2, <2>4
  <2>7. Keyed(k) = k
    BY <2>1, <2>4, <2>6 DEF Keyed, Configs!Drop
  <2> QED BY <2>2, <2>4, <2>5, <2>7 DEF k
<1>3. Nested(img.nodes) /\ Nested(img.quotas)
  BY DEF ConfigImage
<1>4. /\ Nested(n) /\ Keyed(n) = n
      /\ Nested(q) /\ Keyed(q) = q /\ DOMAIN q \subseteq DOMAIN img.quotas
  BY <1>2, <1>3
<1> HIDE DEF n, q, new
<1>5. new.nodes = n /\ new.quotas = q /\ new.groups = img.groups /\ new.creds = img.creds
  BY <1>1 DEF Settings
<1>6. ConfigImage(new)
  BY <1>1, <1>4, <1>5 DEF ConfigImage
<1>7. Configs!View(new) = Settings(Keyed(new.nodes), Keyed(new.quotas), new.groups, new.creds)
  BY <1>6, ConfigView DEF ConfigImage
<1>8. Configs!View(new) = new
  BY <1>1, <1>4, <1>5, <1>7
<1> QED
  BY <1>6, <1>8 DEF new

\* ConfigsInv holds at first.
LEMMA ConfigsStart == Configs!Init => ConfigsInv
<1> SUFFICES ASSUME Configs!Init PROVE ConfigsInv
  OBVIOUS
<1> DEFINE E == Configs!EmptyMap
<1>1. image = Settings(E, E, E, E) /\ replayed = image
  BY DEF Configs!Init, Configs!NewImage, Settings
<1>2. DOMAIN E = {} /\ E = [o \in DOMAIN E |-> E[o]]
  BY DEF Configs!EmptyMap
<1> HIDE DEF E
<1>3. image.nodes = E /\ image.quotas = E /\ image.groups = E /\ image.creds = E
  BY <1>1 DEF Settings
<1>4. Nested(E) /\ NoneEmpty(E) /\ \A kinds : Whole(E, kinds)
  BY <1>2, FS_EmptySet DEF Nested, NoneEmpty, Whole
<1>5. ConfigImage(image)
  BY <1>1, <1>2, <1>3, <1>4 DEF ConfigImage
<1>6. IsSequence(<<>>)
  BY DEF IsSequence
<1> QED
  BY <1>1, <1>5, <1>6 DEF Configs!Init, ConfigsInv, Agreeing

\* The handlers build records of these kinds only.
LEMMA ConfigAsked ==
  ASSUME EntityType \subseteq Int, NEW img, NEW fresh, NEW rec \in Configs!Requests(img, fresh)
  PROVE  ConfigRecord(rec)
<1>1. CASE rec \in Configs!AlterConfigs
  BY <1>1 DEF Configs!AlterConfigs, ConfigRecord
<1>2. CASE rec \in Configs!AlterQuotas
  <2>1. rec.kind = "ClientQuota" /\ rec.owner \in Configs!Entity
    BY <1>2 DEF Configs!AlterQuotas
  <2> QED BY <2>1, CanonicalStable DEF ConfigRecord
<1>3. CASE rec \in Configs!AlterGroups
  BY <1>3 DEF Configs!AlterGroups, ConfigRecord, GroupKinds
<1>4. CASE rec \in Configs!AlterCredentials
  BY <1>4 DEF Configs!AlterCredentials, ConfigRecord, CredentialKinds
<1>5. CASE rec \in Configs!DeleteCredentials
  BY <1>5 DEF Configs!DeleteCredentials, ConfigRecord
<1> QED
  BY <1>1, <1>2, <1>3, <1>4, <1>5 DEF Configs!Requests

\* The replicas agree after every step: a record changes what they agree on
\* alike, and a snapshot keeps just that.
LEMMA ConfigsStep ==
  ASSUME ConfigsInv, [Configs!Next]_(Configs!vars)
  PROVE  Agreeing(image', replayed')
<1>1. CASE image' = image /\ replayed' = replayed
  BY <1>1 DEF ConfigsInv
<1>2. CASE Configs!ApplyNext
  <2> DEFINE q == unapplied[1]
  <2>1. 1 \in DOMAIN unapplied /\ Head(unapplied) = q
    BY <1>2 DEF ConfigsInv, IsSequence, Configs!ApplyNext
  <2>2. ConfigRecord(q.record)
    BY <2>1 DEF ConfigsInv, ConfigRequest
  <2>3. image' = Configs!Apply(image, q.record) /\ replayed' = Configs!Apply(replayed, q.record)
    BY <1>2, <2>1 DEF Configs!ApplyNext
  <2> HIDE DEF q
  <2> QED
    BY <2>2, <2>3, ConfigApplyAgrees DEF ConfigsInv
<1>3. CASE Configs!Restart
  <2>1. ConfigImage(image) /\ ConfigImage(replayed)
        /\ Configs!View(image) = Configs!View(replayed)
    BY DEF ConfigsInv, Agreeing
  <2>2. image' = Configs!View(image) /\ replayed' = replayed
    BY <1>3, <2>1, ConfigsRestored DEF Configs!Restart
  <2> QED BY <2>1, <2>2, ViewAgrees DEF Agreeing
<1> QED
  BY <1>1, <1>2, <1>3 DEF Configs!Next, Configs!Ask, Configs!Submit, Configs!Refuse,
     Configs!vars

\* Every step of ConfigMaps keeps ConfigsInv.
LEMMA ConfigsKept ==
  ASSUME EntityType \subseteq Int, ConfigsInv, [Configs!Next]_(Configs!vars)
  PROVE  ConfigsInv'
<1>1. Agreeing(image', replayed')
  BY ConfigsStep
<1>2. ASSUME UNCHANGED unapplied,
             \A request \in pending' : request \in pending \/ ConfigRequest(request)
      PROVE  ConfigsInv'
  BY <1>1, <1>2 DEF ConfigsInv
<1>3. CASE Configs!Ask
  <2>1. PICK rec \in Configs!Requests(image, asked) :
          pending' = pending \cup {[record |-> rec, seen |-> committed]}
    BY <1>3 DEF Configs!Ask
  <2>2. ConfigRecord(rec)
    BY ConfigAsked
  <2>3. ConfigRequest([record |-> rec, seen |-> committed])
    BY <2>2 DEF ConfigRequest
  <2> QED
    BY <1>2, <1>3, <2>1, <2>3 DEF Configs!Ask
<1>4. ASSUME NEW request \in pending, Configs!Submit(request) PROVE ConfigsInv'
  <2>1. PICK entry :
          /\ entry = [request EXCEPT !.record = Configs!Stamped(request.record, committed)]
          /\ unapplied' = Append(unapplied, entry)
    BY <1>4 DEF Configs!Submit
  <2>2. ConfigRequest(request)
    BY DEF ConfigsInv
  <2>3. entry = request
    BY <2>1, <2>2 DEF ConfigRequest, Configs!Stamped
  <2>4. IsSequence(unapplied)
    BY DEF ConfigsInv
  <2>5. IsSequence(unapplied')
    BY <2>1, <2>4, AppendOf
  <2>6. ASSUME NEW i \in DOMAIN unapplied' PROVE ConfigRequest(unapplied'[i])
    <3>1. unapplied'[i] = entry \/ (i \in DOMAIN unapplied /\ unapplied'[i] = unapplied[i])
      BY <2>1, <2>4, AppendOf
    <3> QED BY <3>1, <2>2, <2>3 DEF ConfigsInv
  <2> QED
    BY <1>1, <1>4, <2>5, <2>6 DEF ConfigsInv, Configs!Submit
<1>5. ASSUME NEW request \in pending, Configs!Refuse(request) PROVE ConfigsInv'
  BY <1>2, <1>5 DEF Configs!Refuse
<1>6. CASE Configs!ApplyNext
  <2>1. IsSequence(unapplied) /\ unapplied # <<>> /\ unapplied' = Tail(unapplied)
        /\ pending' = pending
    BY <1>6 DEF Configs!ApplyNext, ConfigsInv
  <2>2. IsSequence(unapplied')
    BY <2>1, TailOf
  <2>3. ASSUME NEW i \in DOMAIN unapplied' PROVE ConfigRequest(unapplied'[i])
    <3>1. i + 1 \in DOMAIN unapplied /\ unapplied'[i] = unapplied[i + 1]
      BY <2>1, TailOf
    <3> QED BY <3>1 DEF ConfigsInv
  <2> QED
    BY <1>1, <2>1, <2>2, <2>3 DEF ConfigsInv
<1>7. CASE Configs!Restart
  BY <1>2, <1>7 DEF Configs!Restart
<1>8. CASE UNCHANGED Configs!vars
  BY <1>2, <1>8 DEF Configs!vars
<1> QED
  BY <1>3, <1>4, <1>5, <1>6, <1>7, <1>8 DEF Configs!Next

\* ConfigsInv is an invariant of the image while configs, quotas, credentials
\* and tokens are at work.
THEOREM ConfigsInductive ==
  ASSUME EntityType \subseteq Int
  PROVE  ImageSpec => [](part = "configs" => ConfigsInv)
<1>1. ImageInit => (part = "configs" => ConfigsInv)
  BY ConfigsStart DEF ImageInit
<1>2. (part = "configs" => ConfigsInv) /\ [ImageNext]_imageVars => (part = "configs" => ConfigsInv)'
  <2> SUFFICES ASSUME part = "configs", ConfigsInv, [ImageNext]_imageVars PROVE ConfigsInv'
    BY DEF ImageNext, imageVars
  <2>1. [Configs!Next]_(Configs!vars)
    BY DEF ImageNext, imageVars, Configs!vars
  <2> QED BY <2>1, ConfigsKept
<1> QED
  BY <1>1, <1>2, PTL DEF ImageSpec

-----------------------------------------------------------------------------
(* Restarted replicas *)

\* A replica that restarted from snapshots any number of times agrees with one
\* that replayed every record, in every part of the image: from_records undoes
\* to_records on every image that can be reached, but for owners of configs
\* and quotas without a key, and those make no difference to later records.
THEOREM ImageRestartedAgrees ==
  ASSUME MaxLag.glass = 0, Window \in Nat, MaxLevel \in Nat, EntityType \subseteq Int
  PROVE  ImageSpec => []RestartedAgrees
<1>1. /\ part = "brokers" => BrokersInv
      /\ part = "glass" => GlassInv
      /\ part = "features" => FeaturesInv
      /\ part = "configs" => ConfigsInv
      => RestartedAgrees
  BY DEF RestartedAgrees, BrokersInv, Brokers!RestartedAgrees, GlassInv,
     Glass!RestartedAgrees, FeaturesInv, Features!RestartedAgrees, ConfigsInv, Agreeing,
     Configs!RestartedAgrees
<1> QED
  BY <1>1, BrokersInductive, GlassInductive, FeaturesInductive, ConfigsInductive, PTL
-----------------------------------------------------------------------------
(* metadata.version downgrades *)


\* The levels requested are levels of MetadataVersion: from_feature_level has
\* no value for any other.
LevelsSupported == Level \subseteq METADATA_VERSION_MIN .. METADATA_VERSION_MAX

Registration == [epoch : Epoch, dirs : BOOLEAN, cordoned : BOOLEAN]

TypeOK ==
  /\ levels \in [DOMAIN levels -> Nat]
  /\ DOMAIN levels \subseteq {MV, ELR, TV}
  /\ brokers \in [DOMAIN brokers -> Registration]
  /\ target \in {None} \cup {Some(l) : l \in Level}
  /\ target # None => before[4] \in [DOMAIN before[4] -> Registration]

\* What a downgrade under way has left to do.
Remaining ==
  /\ target = None => removals = {}
  /\ \A level \in target :
       /\ level < levels[MV]
       /\ ValidateFeatureDependencies(Finalized(MV, level))
       /\ removals = DowngradeRecords(level)

CarryInv == TypeOK /\ LevelsCoherent /\ ImageFitsLevel /\ Remaining /\ OnlyGatedLost

\* The image holds nothing that a level cannot carry.
Carries(level) ==
  /\ scram # {} => level >= SCRAM_MIN_LEVEL
  /\ tokens # {} => level >= DELEGATION_TOKEN_MIN_LEVEL
  /\ cidr # {} => level >= CIDR_ACL_MIN_LEVEL
  /\ dirs # {} => level >= DIRECTORY_ASSIGNMENT_MIN_LEVEL
  /\ \A b \in DOMAIN brokers : Projected(brokers[b], level) = brokers[b]

-----------------------------------------------------------------------------
(* What the operators of the module say *)

\* min_required_metadata_version is the gate of the newest kind of state the
\* image holds.
LEMMA MinRequiredValue ==
  MinRequired = IF cidr # {} THEN CIDR_ACL_MIN_LEVEL
                ELSE IF tokens # {} THEN DELEGATION_TOKEN_MIN_LEVEL
                ELSE IF scram # {} THEN SCRAM_MIN_LEVEL
                ELSE METADATA_VERSION_MIN
<1> DEFINE floor(present, level) == IF present THEN {level} ELSE {}
           floors == {METADATA_VERSION_MIN}
                       \cup floor(scram # {}, SCRAM_MIN_LEVEL)
                       \cup floor(tokens # {}, DELEGATION_TOKEN_MIN_LEVEL)
                       \cup floor(cidr # {}, CIDR_ACL_MIN_LEVEL)
           newest == IF cidr # {} THEN CIDR_ACL_MIN_LEVEL
                     ELSE IF tokens # {} THEN DELEGATION_TOKEN_MIN_LEVEL
                     ELSE IF scram # {} THEN SCRAM_MIN_LEVEL
                     ELSE METADATA_VERSION_MIN
<1>1. newest \in floors /\ \A m \in floors : newest >= m
  BY DEF METADATA_VERSION_MIN, SCRAM_MIN_LEVEL, DELEGATION_TOKEN_MIN_LEVEL, CIDR_ACL_MIN_LEVEL
<1>2. floors \subseteq Int
  BY DEF METADATA_VERSION_MIN, SCRAM_MIN_LEVEL, DELEGATION_TOKEN_MIN_LEVEL, CIDR_ACL_MIN_LEVEL
<1>3. MinRequired = CHOOSE l \in floors : \A m \in floors : l >= m
  BY DEF MinRequired
<1> HIDE DEF floors, newest
<1>4. \A l \in floors : (\A m \in floors : l >= m) => l = newest
  BY <1>1, <1>2
<1>5. (CHOOSE l \in floors : \A m \in floors : l >= m) = newest
  BY <1>1, <1>4
<1> QED
  BY <1>3, <1>5 DEF newest

\* An image fits its level when the level carries it.
LEMMA FitsIffCarries ==
  levels[MV] \in Nat /\ levels[MV] >= METADATA_VERSION_MIN
    => (ImageFitsLevel <=> Carries(levels[MV]))
BY MinRequiredValue
DEF ImageFitsLevel, Carries, METADATA_VERSION_MIN, SCRAM_MIN_LEVEL,
    DELEGATION_TOKEN_MIN_LEVEL, CIDR_ACL_MIN_LEVEL

\* The same of the next state.
LEMMA FitsIffCarriesNext ==
  levels'[MV] \in Nat /\ levels'[MV] >= METADATA_VERSION_MIN
    => (ImageFitsLevel' <=> Carries(levels[MV])')
<1>1. (levels[MV] \in Nat /\ levels[MV] >= METADATA_VERSION_MIN
        => (ImageFitsLevel <=> Carries(levels[MV])))'
  BY FitsIffCarries, PTL
<1> QED
  BY <1>1 DEF METADATA_VERSION_MIN, MV

\* A downgrade has no removals exactly when its target carries the image.
LEMMA NoRecordsIffCarries ==
  ASSUME NEW level \in Nat
  PROVE  DowngradeRecords(level) = {} <=> Carries(level)
<1>1. ASSUME NEW min \in Nat, NEW kind, NEW keys
      PROVE  Below(level, min, kind, keys) = {} <=> (keys # {} => level >= min)
  <2> DEFINE below == {x \in keys : level < min}
  <2>1. Below(level, min, kind, keys) = {[kind |-> kind, key |-> k] : k \in below}
    BY DEF Below
  <2>2. {[kind |-> kind, key |-> k] : k \in below} = {} <=> below = {}
    <3> HIDE DEF below
    <3> QED  BY Zenon
  <2>3. below = {} <=> (keys # {} => level >= min)
    BY <1>1
  <2> QED
    BY <2>1, <2>2, <2>3
<1>2. Rewrites(level) = {} <=> \A b \in DOMAIN brokers : Projected(brokers[b], level) = brokers[b]
  BY DEF Rewrites
<1>3. /\ SCRAM_MIN_LEVEL \in Nat /\ DELEGATION_TOKEN_MIN_LEVEL \in Nat
      /\ CIDR_ACL_MIN_LEVEL \in Nat /\ DIRECTORY_ASSIGNMENT_MIN_LEVEL \in Nat
  BY DEF SCRAM_MIN_LEVEL, DELEGATION_TOKEN_MIN_LEVEL, CIDR_ACL_MIN_LEVEL,
         DIRECTORY_ASSIGNMENT_MIN_LEVEL
<1> DEFINE A == Below(level, CIDR_ACL_MIN_LEVEL, "acl", cidr)
           S == Below(level, SCRAM_MIN_LEVEL, "scram", scram)
           T == Below(level, DELEGATION_TOKEN_MIN_LEVEL, "token", tokens)
           D == Below(level, DIRECTORY_ASSIGNMENT_MIN_LEVEL, "dir", dirs)
<1>4. DowngradeRecords(level) = {} <=> A = {} /\ S = {} /\ T = {} /\ Rewrites(level) = {} /\ D = {}
  BY DEF DowngradeRecords
<1>5. /\ A = {} <=> (cidr # {} => level >= CIDR_ACL_MIN_LEVEL)
      /\ S = {} <=> (scram # {} => level >= SCRAM_MIN_LEVEL)
      /\ T = {} <=> (tokens # {} => level >= DELEGATION_TOKEN_MIN_LEVEL)
      /\ D = {} <=> (dirs # {} => level >= DIRECTORY_ASSIGNMENT_MIN_LEVEL)
  BY <1>1, <1>3
<1> QED
  BY <1>2, <1>4, <1>5 DEF Carries

\* A registration a level can carry, a later level can carry too; projecting it
\* twice is projecting it to the lower level; the result is a registration.
LEMMA ProjectedFacts ==
  ASSUME NEW reg \in Registration, NEW l \in Nat, NEW m \in Nat, l <= m
  PROVE  /\ Projected(reg, l) \in Registration
         /\ Projected(Projected(reg, l), l) = Projected(reg, l)
         /\ Projected(reg, l) = reg => Projected(reg, m) = reg
         /\ Projected(Projected(reg, l), m) = Projected(reg, l)
<1> DEFINE D(n) == n >= DIRECTORY_ASSIGNMENT_MIN_LEVEL
           C(n) == n >= CORDONED_LOG_DIRS_MIN_LEVEL
           P(r, n) == [epoch |-> r.epoch, dirs |-> r.dirs /\ D(n), cordoned |-> r.cordoned /\ C(n)]
<1>1. \A r \in Registration, n \in Nat : Projected(r, n) = P(r, n)
  <2>1. ASSUME NEW r \in Registration, NEW d \in BOOLEAN, NEW c \in BOOLEAN
        PROVE  [r EXCEPT !.dirs = d, !.cordoned = c]
                 = [epoch |-> r.epoch, dirs |-> d, cordoned |-> c]
    <3> DEFINE s == [r EXCEPT !.dirs = d, !.cordoned = c]
    <3>1. s \in Registration /\ s.epoch = r.epoch /\ s.dirs = d /\ s.cordoned = c
      BY DEF Registration
    <3> HIDE DEF s
    <3>2. s = [epoch |-> r.epoch, dirs |-> d, cordoned |-> c]
      BY <3>1 DEF Registration
    <3> QED
      BY <3>2 DEF s
  <2>2. \A r \in Registration, n \in Nat : (r.dirs /\ D(n)) \in BOOLEAN /\ (r.cordoned /\ C(n)) \in BOOLEAN
    BY DEF Registration
  <2> QED
    BY <2>1, <2>2, Zenon DEF Projected
<1>2. (D(l) => D(m)) /\ (C(l) => C(m)) /\ \A n \in Nat : D(n) \in BOOLEAN /\ C(n) \in BOOLEAN
  BY DEF DIRECTORY_ASSIGNMENT_MIN_LEVEL, CORDONED_LOG_DIRS_MIN_LEVEL
<1>3. \A r \in Registration : r = [epoch |-> r.epoch, dirs |-> r.dirs, cordoned |-> r.cordoned]
  BY DEF Registration
<1>4. reg.dirs \in BOOLEAN /\ reg.cordoned \in BOOLEAN /\ reg.epoch \in Epoch
  BY DEF Registration
<1> HIDE DEF D, C
<1>5. P(reg, l) \in Registration
  BY <1>4 DEF Registration
<1>6. P(P(reg, l), l) = P(reg, l) /\ P(P(reg, l), m) = P(reg, l)
  BY <1>2
<1>7. ASSUME P(reg, l) = reg  PROVE P(reg, m) = reg
  <2>1. reg.dirs = (reg.dirs /\ D(l)) /\ reg.cordoned = (reg.cordoned /\ C(l))
    <3>1. P(reg, l).dirs = (reg.dirs /\ D(l)) /\ P(reg, l).cordoned = (reg.cordoned /\ C(l))
      OBVIOUS
    <3> QED
      BY <3>1, <1>7, Zenon
  <2>2. reg.dirs = (reg.dirs /\ D(m)) /\ reg.cordoned = (reg.cordoned /\ C(m))
    BY <2>1, <1>2, <1>4
  <2> QED
    BY <2>2, <1>3
<1> HIDE DEF P
<1> QED
  BY <1>1, <1>5, <1>6, <1>7

\* validate_feature_dependencies comes down to the one dependency there is.
LEMMA DependenciesMet ==
  ASSUME NEW resolved
  PROVE  ValidateFeatureDependencies(resolved) <=>
           (ELR \in DOMAIN resolved /\ resolved[ELR] >= 1 =>
              LevelOf(resolved, MV) >= ELR_MIN_LEVEL)
<1>1. \A f, level : \A dep \in Dependencies(f, level) :
        f = ELR /\ level >= 1 /\ dep[1] = MV /\ dep[2] = ELR_MIN_LEVEL
  BY DEF Dependencies
<1>2. ASSUME NEW level, level >= 1  PROVE <<MV, ELR_MIN_LEVEL>> \in Dependencies(ELR, level)
  BY <1>2 DEF Dependencies
<1>3. <<MV, ELR_MIN_LEVEL>>[1] = MV /\ <<MV, ELR_MIN_LEVEL>>[2] = ELR_MIN_LEVEL
  OBVIOUS
<1>4. ASSUME ValidateFeatureDependencies(resolved), ELR \in DOMAIN resolved, resolved[ELR] >= 1
      PROVE  LevelOf(resolved, MV) >= ELR_MIN_LEVEL
  BY <1>2, <1>3, <1>4, Zenon DEF ValidateFeatureDependencies
<1>5. ASSUME ELR \in DOMAIN resolved /\ resolved[ELR] >= 1 => LevelOf(resolved, MV) >= ELR_MIN_LEVEL
      PROVE  ValidateFeatureDependencies(resolved)
  BY <1>1, <1>5, Zenon DEF ValidateFeatureDependencies
<1> QED
  BY <1>4, <1>5, Zenon

\* The record that deletes a key of one kind.
Deletion(kind, k) == [kind |-> kind, key |-> k]

\* The deletions of one kind name that kind, and taking a key out of the state
\* takes its deletion out of them.
LEMMA BelowFacts ==
  ASSUME NEW level, NEW min, NEW kind, NEW keys
  PROVE  \A rec \in Below(level, min, kind, keys) :
           rec.kind = kind /\ rec.key \in keys /\ rec = Deletion(kind, rec.key)
<1> TAKE rec \in Below(level, min, kind, keys)
<1>1. PICK k \in keys : rec = [kind |-> kind, key |-> k]
  BY DEF Below
<1>2. rec.kind = kind /\ rec.key = k
  BY <1>1
<1> QED
  BY <1>1, <1>2, Zenon DEF Deletion

\* Taking a key out of the state takes its deletion out of the records.
LEMMA BelowMinus ==
  ASSUME NEW level, NEW min, NEW kind, NEW keys, NEW x, NEW rest, rest = keys \ {x}
  PROVE  \A rec : rec \in Below(level, min, kind, rest)
                    <=> rec \in Below(level, min, kind, keys) /\ rec # Deletion(kind, x)
<1>1. ASSUME NEW rec  
      PROVE  rec \in Below(level, min, kind, keys)
               <=> \E k \in keys : level < min /\ rec = [kind |-> kind, key |-> k]
  BY DEF Below
<1>2. ASSUME NEW rec
      PROVE  rec \in Below(level, min, kind, rest)
               <=> \E k \in keys : k # x /\ level < min /\ rec = [kind |-> kind, key |-> k]
  BY DEF Below
<1> DEFINE del(k) == [kind |-> kind, key |-> k]
<1>3. \A k : del(k).key = k
  OBVIOUS
<1>4. \A k : del(k) = del(x) <=> k = x
  BY <1>3, Zenon
<1>5. ASSUME NEW rec
      PROVE  rec \in Below(level, min, kind, rest)
               <=> rec \in Below(level, min, kind, keys) /\ rec # del(x)
  <2>1. rec \in Below(level, min, kind, keys) <=> \E k \in keys : level < min /\ rec = del(k)
    BY <1>1, Zenon
  <2>2. rec \in Below(level, min, kind, rest)
          <=> \E k \in keys : k # x /\ level < min /\ rec = del(k)
    BY <1>2, Zenon
  <2> HIDE DEF del
  <2> QED
    BY <1>4, <2>1, <2>2
<1> QED
  BY <1>5, Zenon DEF Deletion

\* A rewritten registration of a broker is the projection of the one it has.
LEMMA RewriteFacts ==
  ASSUME NEW level, NEW rec \in Rewrites(level)
  PROVE  /\ rec.kind = "registration"
         /\ rec.key \in DOMAIN brokers
         /\ rec.registration = Projected(brokers[rec.key], level)
         /\ rec = [kind |-> "registration", key |-> rec.key,
                   registration |-> Projected(brokers[rec.key], level)]
<1>1. PICK b \in DOMAIN brokers :
        rec = [kind |-> "registration", key |-> b, registration |-> Projected(brokers[b], level)]
  BY DEF Rewrites
<1>2. rec.kind = "registration" /\ rec.key = b /\ rec.registration = Projected(brokers[b], level)
  BY <1>1
<1> QED
  BY <1>1, <1>2, Zenon

-----------------------------------------------------------------------------
(* The initial states and the actions *)

\* An image formatted at a supported level has nothing that level cannot
\* carry.
LEMMA InitCarries ==
  ASSUME LevelsSupported, Init
  PROVE  CarryInv
<1>1. PICK mv \in Level, overrides \in {EmptyMap} \cup {[f \in {ELR} |-> elr] : elr \in 0 .. 1} :
        /\ levels = BootstrapFeatures(mv, overrides)
        /\ overrides # EmptyMap => ValidateFeatureDependencies(levels)
  <2>1. SupportedRange(ELR) = 0 .. 1
    BY DEF SupportedRange, MV, ELR, TV
  <2> QED
    BY <2>1 DEF Init
<1> DEFINE resolved(f) == IF f \in DOMAIN overrides THEN overrides[f] ELSE DefaultLevel(f, mv)
<1>2. mv \in 7 .. 34
  BY DEF LevelsSupported, METADATA_VERSION_MIN, METADATA_VERSION_MAX
<1>3. /\ resolved(MV) = mv
      /\ resolved(ELR) \in 0 .. 1
      /\ overrides = EmptyMap => resolved(ELR) = IF mv >= ELR_DEFAULT_METADATA_LEVEL THEN 1 ELSE 0
      /\ resolved(TV) \in 0 .. 2
  <2>1. MetadataVersionDefault(mv) = mv
    BY <1>2 DEF MetadataVersionDefault, METADATA_VERSION_MIN, METADATA_VERSION_MAX
  <2>2. ElrVersionDefault(mv) \in 0 .. 1 /\ TransactionVersionDefault(mv) \in 0 .. 2
    BY DEF ElrVersionDefault, TransactionVersionDefault
  <2>3. /\ DefaultLevel(MV, mv) = mv
        /\ DefaultLevel(ELR, mv) = ElrVersionDefault(mv)
        /\ DefaultLevel(TV, mv) = TransactionVersionDefault(mv)
    BY <2>1 DEF DefaultLevel, MV, ELR, TV
  <2>4. MV \notin DOMAIN overrides /\ TV \notin DOMAIN overrides
        /\ (ELR \in DOMAIN overrides => overrides[ELR] \in 0 .. 1)
    BY DEF MV, ELR, TV, EmptyMap
  <2>5. overrides = EmptyMap => ELR \notin DOMAIN overrides
    BY DEF EmptyMap
  <2> QED
    BY <2>2, <2>3, <2>4, <2>5 DEF ElrVersionDefault
<1>4. levels = [f \in {g \in {MV, ELR, TV} : resolved(g) > 0} |-> resolved(f)]
  BY <1>1 DEF BootstrapFeatures
<1> HIDE DEF resolved
<1>5. /\ DOMAIN levels \subseteq {MV, ELR, TV}
      /\ MV \in DOMAIN levels
      /\ levels \in [DOMAIN levels -> Nat]
      /\ \A f \in DOMAIN levels : levels[f] = resolved(f) /\ resolved(f) > 0
      /\ levels[MV] = mv
  BY <1>2, <1>3, <1>4
<1>6. LevelsCoherent
  <2>1. \A f \in DOMAIN levels : levels[f] \in SupportedRange(f) \ {0}
    BY <1>2, <1>3, <1>5
    DEF SupportedRange, MV, ELR, TV, METADATA_VERSION_MIN, METADATA_VERSION_MAX
  <2>2. ValidateFeatureDependencies(levels)
    BY <1>1, <1>2, <1>3, <1>5, DependenciesMet
    DEF LevelOf, ELR_MIN_LEVEL, ELR_DEFAULT_METADATA_LEVEL
  <2> QED
    BY <1>5, <2>1, <2>2 DEF LevelsCoherent
<1>7. ImageFitsLevel
  <2>1. DOMAIN brokers = {} /\ scram = {} /\ tokens = {} /\ cidr = {} /\ dirs = {}
    BY DEF Init, EmptyMap
  <2>2. Carries(levels[MV])
    BY <2>1 DEF Carries
  <2> QED
    BY <1>2, <1>5, <2>2, FitsIffCarries DEF METADATA_VERSION_MIN
<1>8. TypeOK
  BY <1>5 DEF TypeOK, Init, EmptyMap
<1> QED
  BY <1>6, <1>7, <1>8 DEF CarryInv, Remaining, OnlyGatedLost, Init, None

\* The level of a cluster is a supported one, and it carries the image.
LEMMA LevelCarries ==
  ASSUME CarryInv
  PROVE  /\ MV \in DOMAIN levels
         /\ levels[MV] \in METADATA_VERSION_MIN .. METADATA_VERSION_MAX
         /\ levels[MV] \in Nat
         /\ levels[MV] >= METADATA_VERSION_MIN
         /\ Carries(levels[MV])
<1>1. MV \in DOMAIN levels /\ levels[MV] \in SupportedRange(MV)
  BY DEF CarryInv, LevelsCoherent
<1>2. SupportedRange(MV) = METADATA_VERSION_MIN .. METADATA_VERSION_MAX
  BY DEF SupportedRange, MV, ELR, TV
<1> QED
  BY <1>1, <1>2, FitsIffCarries DEF CarryInv, METADATA_VERSION_MIN, METADATA_VERSION_MAX

\* A step that leaves the levels alone and no downgrade under way keeps the
\* invariant if the level carries the image it leads to.
LEMMA IdleStep ==
  ASSUME CarryInv, Idle, UNCHANGED <<levels, removals, target>>,
         brokers' \in [DOMAIN brokers' -> Registration], Carries(levels[MV])'
  PROVE  CarryInv'
<1>1. TypeOK'
  BY DEF CarryInv, TypeOK, Idle
<1>2. LevelsCoherent'
  BY DEF CarryInv, LevelsCoherent, ValidateFeatureDependencies, LevelOf
<1>3. ImageFitsLevel'
  BY LevelCarries, FitsIffCarriesNext
<1>4. Remaining' /\ OnlyGatedLost'
  BY DEF CarryInv, Remaining, OnlyGatedLost, Idle, None
<1> QED
  BY <1>1, <1>2, <1>3, <1>4 DEF CarryInv

\* Gated state is created only at a level that carries it.
LEMMA CreateKeeps ==
  ASSUME CarryInv,
         \/ \E u \in User : CreateScram(u)
         \/ \E t \in Token : CreateToken(t)
         \/ \E a \in CidrAcl : CreateCidrAcl(a)
         \/ \E r \in Replica : AssignDirectory(r)
  PROVE  CarryInv'
<1>1. Idle /\ UNCHANGED <<levels, removals, target, brokers>>
  BY DEF CreateScram, CreateToken, CreateCidrAcl, AssignDirectory, Allows
<1>2. Carries(levels[MV])'
  BY LevelCarries
  DEF Carries, CreateScram, CreateToken, CreateCidrAcl, AssignDirectory, Allows, Projected
<1>3. brokers' \in [DOMAIN brokers' -> Registration]
  BY <1>1 DEF CarryInv, TypeOK
<1> QED
  BY <1>1, <1>2, <1>3, IdleStep

\* A registration is projected to the level that is finalized.
LEMMA RegisterKeeps ==
  ASSUME CarryInv, NEW b \in Broker, NEW e \in Epoch, NEW c \in BOOLEAN, RegisterBroker(b, e, c)
  PROVE  CarryInv'
<1> DEFINE reg == [epoch |-> e, dirs |-> TRUE, cordoned |-> c]
           new == Projected(reg, levels[MV])
<1>1. reg \in Registration
  BY DEF Registration
<1>2. levels[MV] \in Nat /\ Carries(levels[MV])
  BY LevelCarries
<1>3. new \in Registration /\ Projected(new, levels[MV]) = new
  <2> HIDE DEF reg
  <2> QED  BY <1>1, <1>2, ProjectedFacts
<1>4. brokers' = Put(brokers, b, new)
  BY DEF RegisterBroker
<1> HIDE DEF new
<1>5. brokers' \in [DOMAIN brokers' -> Registration]
  BY <1>3, <1>4 DEF Put, CarryInv, TypeOK
<1>6. \A x \in DOMAIN brokers' : Projected(brokers'[x], levels[MV]) = brokers'[x]
  BY <1>2, <1>3, <1>4 DEF Put, Carries
<1>7. Carries(levels[MV])'
  BY <1>2, <1>6 DEF Carries, RegisterBroker
<1> QED
  BY <1>5, <1>7, IdleStep DEF RegisterBroker

\* Finalizing a supported level with its dependencies keeps the invariant; a
\* metadata.version must carry the image.
LEMMA LevelStep ==
  ASSUME CarryInv, NEW f \in {MV, ELR}, NEW level \in SupportedRange(f),
         levels' = Finalized(f, level), ValidateFeatureDependencies(Finalized(f, level)),
         f = MV => Carries(level),
         UNCHANGED gated, target' = None, removals' = {}
  PROVE  CarryInv'
<1>1. /\ SupportedRange(MV) = METADATA_VERSION_MIN .. METADATA_VERSION_MAX
      /\ SupportedRange(ELR) = 0 .. 1
  BY DEF SupportedRange, MV, ELR, TV
<1>2. level \in Nat /\ (f = MV => level # 0)
  BY <1>1 DEF METADATA_VERSION_MIN, METADATA_VERSION_MAX, MV, ELR
<1>3. /\ levels' \in [DOMAIN levels' -> Nat]
      /\ DOMAIN levels' \subseteq {MV, ELR, TV}
      /\ MV \in DOMAIN levels'
      /\ \A g \in DOMAIN levels' :
           \/ levels'[g] = level /\ g = f /\ level # 0
           \/ g \in DOMAIN levels /\ levels'[g] = levels[g]
      /\ levels'[MV] = IF f = MV THEN level ELSE levels[MV]
  <2>1. CASE level = 0
    BY <1>2, <2>1, LevelCarries DEF Finalized, Drop, CarryInv, TypeOK
  <2>2. CASE level # 0
    <3>1. levels' = [g \in DOMAIN levels \cup {f} |-> IF g = f THEN level ELSE levels[g]]
      BY <2>2 DEF Finalized, Put
    <3>2. MV \in DOMAIN levels /\ DOMAIN levels \subseteq {MV, ELR, TV} /\ levels \in [DOMAIN levels -> Nat]
      BY LevelCarries DEF CarryInv, TypeOK
    <3>3. DOMAIN levels' = DOMAIN levels \cup {f}
      BY <3>1
    <3>4. \A g \in DOMAIN levels' : levels'[g] = IF g = f THEN level ELSE levels[g]
      BY <3>1
    <3>5. levels' \in [DOMAIN levels' -> Nat]
      BY <1>2, <3>1, <3>2
    <3>6. \A g \in DOMAIN levels' :
            \/ levels'[g] = level /\ g = f /\ level # 0
            \/ g \in DOMAIN levels /\ levels'[g] = levels[g]
      BY <2>2, <3>3, <3>4, Zenon
    <3>7. DOMAIN levels' \subseteq {MV, ELR, TV} /\ MV \in DOMAIN levels'
      BY <3>2, <3>3
    <3>8. levels'[MV] = IF f = MV THEN level ELSE levels[MV]
      BY <3>4, <3>7
    <3> QED
      BY <3>5, <3>6, <3>7, <3>8
  <2> QED
    BY <2>1, <2>2
<1>4. LevelsCoherent'
  <2>1. \A g \in DOMAIN levels' : levels'[g] \in SupportedRange(g) \ {0}
    BY <1>3 DEF CarryInv, LevelsCoherent
  <2> QED
    BY <1>3, <2>1 DEF LevelsCoherent, ValidateFeatureDependencies, LevelOf
<1>5. ImageFitsLevel'
  <2>1. levels'[MV] \in Nat /\ levels'[MV] >= METADATA_VERSION_MIN /\ Carries(levels'[MV])
    <3>1. CASE f = MV
      BY <3>1, <1>1, <1>2, <1>3 DEF METADATA_VERSION_MIN, METADATA_VERSION_MAX
    <3>2. CASE f # MV
      BY <3>2, <1>3, LevelCarries
    <3> QED
      BY <3>1, <3>2
  <2>2. Carries(levels[MV])'
    BY <2>1 DEF Carries, gated
  <2> QED
    BY <2>1, <2>2, FitsIffCarriesNext
<1>6. TypeOK'
  BY <1>3 DEF CarryInv, TypeOK, gated
<1> QED
  BY <1>4, <1>5, <1>6 DEF CarryInv, Remaining, OnlyGatedLost, None

\* A safe update needs no removals.
LEMMA UpdateKeeps ==
  ASSUME CarryInv, NEW f \in {MV, ELR}, NEW level \in SupportedRange(f), UpdateFeature(f, level)
  PROVE  CarryInv'
<1>1. level \in Nat
  BY DEF SupportedRange, MV, ELR, TV, METADATA_VERSION_MIN, METADATA_VERSION_MAX
<1>2. f = MV => Carries(level)
  BY <1>1, NoRecordsIffCarries DEF UpdateFeature
<1>3. target' = None /\ removals' = {}
  BY DEF UpdateFeature, Idle, CarryInv, Remaining
<1> QED
  BY <1>2, <1>3, LevelStep DEF UpdateFeature

\* The removals of an unsafe downgrade are computed from the image.
LEMMA DowngradeKeeps ==
  ASSUME LevelsSupported, CarryInv, NEW level \in Level, UnsafeDowngrade(level)
  PROVE  CarryInv'
<1>1. UNCHANGED <<levels, scram, tokens, cidr, brokers, dirs>>
  BY DEF UnsafeDowngrade, gated
<1>2. TypeOK' /\ LevelsCoherent' /\ ImageFitsLevel'
  BY <1>1 DEF CarryInv, TypeOK, LevelsCoherent, ImageFitsLevel, UnsafeDowngrade, Some,
     ValidateFeatureDependencies, LevelOf, MinRequired, gated
<1>3. Remaining'
  BY <1>1 DEF UnsafeDowngrade, Remaining, Some, None, Finalized, DowngradeRecords, Rewrites
<1>4. OnlyGatedLost'
  BY <1>1 DEF UnsafeDowngrade, OnlyGatedLost, Some, gated
<1> QED
  BY <1>2, <1>3, <1>4 DEF CarryInv

\* The level is finalized when no removal is left.
LEMMA FinalizeKeeps ==
  ASSUME LevelsSupported, CarryInv, FinalizeDowngrade
  PROVE  CarryInv'
<1>1. PICK level \in target :
        /\ removals = {}
        /\ levels' = Finalized(MV, level)
        /\ target' = None
        /\ UNCHANGED <<gated, removals>>
  BY DEF FinalizeDowngrade
<1>2. level \in Level
  BY DEF CarryInv, TypeOK, None, Some
<1>3. level \in SupportedRange(MV) /\ level \in Nat
  BY <1>2 DEF LevelsSupported, SupportedRange, MV, ELR, TV, METADATA_VERSION_MIN, METADATA_VERSION_MAX
<1>4. Carries(level)
  BY <1>1, <1>3, NoRecordsIffCarries DEF CarryInv, Remaining
<1>5. ValidateFeatureDependencies(Finalized(MV, level))
  BY DEF CarryInv, Remaining
<1> QED
  BY <1>1, <1>3, <1>4, <1>5, LevelStep

\* A failover forgets the downgrade under way and keeps the level.
LEMMA FailoverKeeps ==
  ASSUME CarryInv, Failover
  PROVE  CarryInv'
<1>1. UNCHANGED <<levels, scram, tokens, cidr, brokers, dirs>>
  BY DEF Failover, gated
<1>2. TypeOK' /\ LevelsCoherent' /\ ImageFitsLevel'
  BY <1>1 DEF CarryInv, TypeOK, LevelsCoherent, ImageFitsLevel, Failover,
     ValidateFeatureDependencies, LevelOf, MinRequired
<1> QED
  BY <1>2 DEF CarryInv, Failover, Remaining, OnlyGatedLost, None

\* Applying a removal takes exactly that one out of what the target still
\* cannot carry, changes nothing the target can carry, and leaves every
\* registration as it was or as the target carries it.
LEMMA RemovalStep ==
  ASSUME TypeOK, NEW level \in Nat, NEW rec \in DowngradeRecords(level), ApplyRemoval(rec)
  PROVE  /\ DowngradeRecords(level)' = DowngradeRecords(level) \ {rec}
         /\ scram' \subseteq scram /\ (level >= SCRAM_MIN_LEVEL => scram' = scram)
         /\ tokens' \subseteq tokens /\ (level >= DELEGATION_TOKEN_MIN_LEVEL => tokens' = tokens)
         /\ cidr' \subseteq cidr /\ (level >= CIDR_ACL_MIN_LEVEL => cidr' = cidr)
         /\ dirs' \subseteq dirs /\ (level >= DIRECTORY_ASSIGNMENT_MIN_LEVEL => dirs' = dirs)
         /\ brokers' \in [DOMAIN brokers -> Registration]
         /\ \A b \in DOMAIN brokers : brokers'[b] \in {brokers[b], Projected(brokers[b], level)}
<1> DEFINE A == Below(level, CIDR_ACL_MIN_LEVEL, "acl", cidr)
           S == Below(level, SCRAM_MIN_LEVEL, "scram", scram)
           T == Below(level, DELEGATION_TOKEN_MIN_LEVEL, "token", tokens)
           D == Below(level, DIRECTORY_ASSIGNMENT_MIN_LEVEL, "dir", dirs)
           R == Rewrites(level)
<1>1. DowngradeRecords(level) = A \cup S \cup T \cup R \cup D
  BY DEF DowngradeRecords
<1>2. DowngradeRecords(level)' = A' \cup S' \cup T' \cup R' \cup D'
  BY DEF DowngradeRecords
<1>3. /\ \A r \in A : r.kind = "acl" /\ r = Deletion("acl", r.key)
      /\ \A r \in S : r.kind = "scram" /\ r = Deletion("scram", r.key)
      /\ \A r \in T : r.kind = "token" /\ r = Deletion("token", r.key)
      /\ \A r \in D : r.kind = "dir" /\ r = Deletion("dir", r.key)
  BY BelowFacts
<1>4. \A r \in R : r.kind = "registration"
  BY RewriteFacts
<1>5. /\ cidr' = IF rec.kind = "acl" THEN cidr \ {rec.key} ELSE cidr
      /\ scram' = IF rec.kind = "scram" THEN scram \ {rec.key} ELSE scram
      /\ tokens' = IF rec.kind = "token" THEN tokens \ {rec.key} ELSE tokens
      /\ dirs' = IF rec.kind = "dir" THEN dirs \ {rec.key} ELSE dirs
      /\ brokers' = IF rec.kind = "registration" THEN Put(brokers, rec.key, rec.registration)
                    ELSE brokers
  BY DEF ApplyRemoval
<1>6. /\ rec.kind = "acl" => A' = A \ {Deletion("acl", rec.key)}
      /\ rec.kind = "scram" => S' = S \ {Deletion("scram", rec.key)}
      /\ rec.kind = "token" => T' = T \ {Deletion("token", rec.key)}
      /\ rec.kind = "dir" => D' = D \ {Deletion("dir", rec.key)}
  <2>1. rec.kind = "acl" => A' = A \ {Deletion("acl", rec.key)}
    <3>1. rec.kind = "acl" => cidr' = cidr \ {rec.key}
      BY <1>5
    <3>2. rec.kind = "acl" => \A r : r \in A' <=> r \in A /\ r # Deletion("acl", rec.key)
      BY <3>1, BelowMinus
    <3> HIDE DEF A
    <3> QED
      BY <3>2
  <2>2. rec.kind = "scram" => S' = S \ {Deletion("scram", rec.key)}
    <3>1. rec.kind = "scram" => scram' = scram \ {rec.key}
      BY <1>5
    <3>2. rec.kind = "scram" => \A r : r \in S' <=> r \in S /\ r # Deletion("scram", rec.key)
      BY <3>1, BelowMinus
    <3> HIDE DEF S
    <3> QED
      BY <3>2
  <2>3. rec.kind = "token" => T' = T \ {Deletion("token", rec.key)}
    <3>1. rec.kind = "token" => tokens' = tokens \ {rec.key}
      BY <1>5
    <3>2. rec.kind = "token" => \A r : r \in T' <=> r \in T /\ r # Deletion("token", rec.key)
      BY <3>1, BelowMinus
    <3> HIDE DEF T
    <3> QED
      BY <3>2
  <2>4. rec.kind = "dir" => D' = D \ {Deletion("dir", rec.key)}
    <3>1. rec.kind = "dir" => dirs' = dirs \ {rec.key}
      BY <1>5
    <3>2. rec.kind = "dir" => \A r : r \in D' <=> r \in D /\ r # Deletion("dir", rec.key)
      BY <3>1, BelowMinus
    <3> HIDE DEF D
    <3> QED
      BY <3>2
  <2> QED
    BY <2>1, <2>2, <2>3, <2>4
<1>7. /\ rec.kind # "acl" => A' = A
      /\ rec.kind # "scram" => S' = S
      /\ rec.kind # "token" => T' = T
      /\ rec.kind # "dir" => D' = D
  BY <1>5, Zenon
<1>8. rec.kind # "registration" => R' = R
  BY <1>5 DEF Rewrites
<1>9. CASE rec \in R
  <2> DEFINE b == rec.key
  <2>1. /\ rec.kind = "registration" /\ b \in DOMAIN brokers
        /\ rec.registration = Projected(brokers[b], level)
        /\ rec = [kind |-> "registration", key |-> b, registration |-> Projected(brokers[b], level)]
    BY <1>9, RewriteFacts
  <2>2. /\ brokers[b] \in Registration
        /\ Projected(brokers[b], level) \in Registration
        /\ Projected(Projected(brokers[b], level), level) = Projected(brokers[b], level)
    BY <2>1, ProjectedFacts DEF TypeOK
  <2>3. brokers' = [x \in DOMAIN brokers |-> IF x = b THEN Projected(brokers[b], level) ELSE brokers[x]]
    BY <1>5, <2>1 DEF Put
  <2>4. brokers' \in [DOMAIN brokers -> Registration]
    BY <2>2, <2>3 DEF TypeOK
  <2>5. \A x \in DOMAIN brokers : brokers'[x] \in {brokers[x], Projected(brokers[x], level)}
    BY <2>3
  <2>6. R' = R \ {rec}
    <3> DEFINE rewrite(x) == [kind |-> "registration", key |-> x,
                              registration |-> Projected(brokers[x], level)]
    <3>1. ASSUME NEW r
          PROVE  r \in R <=> \E x \in DOMAIN brokers :
                               Projected(brokers[x], level) # brokers[x] /\ r = rewrite(x)
      BY DEF Rewrites
    <3>2. ASSUME NEW r
          PROVE  r \in R' <=> \E x \in DOMAIN brokers' :
                   /\ Projected(brokers'[x], level) # brokers'[x]
                   /\ r = [kind |-> "registration", key |-> x,
                           registration |-> Projected(brokers'[x], level)]
      BY DEF Rewrites
    <3>3. ASSUME NEW r
          PROVE  r \in R' <=> \E x \in DOMAIN brokers :
                   x # b /\ Projected(brokers[x], level) # brokers[x] /\ r = rewrite(x)
      <4>1. DOMAIN brokers' = DOMAIN brokers
        BY <2>3
      <4>2. \A x \in DOMAIN brokers : brokers'[x] = IF x = b THEN Projected(brokers[b], level) ELSE brokers[x]
        BY <2>3
      <4>3. ASSUME NEW x \in DOMAIN brokers
            PROVE  (/\ Projected(brokers'[x], level) # brokers'[x]
                    /\ r = [kind |-> "registration", key |-> x,
                            registration |-> Projected(brokers'[x], level)])
                   <=> (x # b /\ Projected(brokers[x], level) # brokers[x] /\ r = rewrite(x))
        BY <4>2, <2>2
      <4> QED
        BY <3>2, <4>1, <4>3, Zenon
    <3>4. \A x : rewrite(x).key = x
      OBVIOUS
    <3>5. \A x : rewrite(x) = rewrite(b) <=> x = b
      BY <3>4, Zenon
    <3>6. rec = rewrite(b)
      BY <2>1, Zenon
    <3> HIDE DEF rewrite, R, b
    <3> QED
      BY <3>1, <3>3, <3>5, <3>6
  <2> HIDE DEF A, S, T, D, R
  <2>7. DowngradeRecords(level)' = DowngradeRecords(level) \ {rec}
    BY <1>1, <1>2, <1>3, <1>7, <2>1, <2>6
  <2> QED
    BY <1>5, <2>1, <2>4, <2>5, <2>7
<1>10. CASE rec \notin R
  <2>1. rec.kind # "registration"
    BY <1>1, <1>3, <1>10
  <2>2. brokers' = brokers /\ R' = R
    BY <1>5, <1>8, <2>1
  <2>3. /\ rec.kind = "acl" => rec \in A
        /\ rec.kind = "scram" => rec \in S
        /\ rec.kind = "token" => rec \in T
        /\ rec.kind = "dir" => rec \in D
    <3> HIDE DEF A, S, T, D, R
    <3> QED
      BY <1>1, <1>3, <1>10
  <2>4. /\ rec.kind = "acl" => level < CIDR_ACL_MIN_LEVEL
        /\ rec.kind = "scram" => level < SCRAM_MIN_LEVEL
        /\ rec.kind = "token" => level < DELEGATION_TOKEN_MIN_LEVEL
        /\ rec.kind = "dir" => level < DIRECTORY_ASSIGNMENT_MIN_LEVEL
    BY <2>3 DEF Below
  <2>5. DowngradeRecords(level)' = DowngradeRecords(level) \ {rec}
    <3> HIDE DEF A, S, T, D, R
    <3>1. rec \in A \cup S \cup T \cup D
      BY <1>1, <1>10
    <3>2. CASE rec \in A
      BY <3>2, <1>1, <1>2, <1>3, <1>4, <1>6, <1>7, <2>2
    <3>3. CASE rec \in S
      BY <3>3, <1>1, <1>2, <1>3, <1>4, <1>6, <1>7, <2>2
    <3>4. CASE rec \in T
      BY <3>4, <1>1, <1>2, <1>3, <1>4, <1>6, <1>7, <2>2
    <3>5. CASE rec \in D
      BY <3>5, <1>1, <1>2, <1>3, <1>4, <1>6, <1>7, <2>2
    <3> QED
      BY <3>1, <3>2, <3>3, <3>4, <3>5
  <2> QED
    BY <1>5, <2>2, <2>4, <2>5
    DEF TypeOK, SCRAM_MIN_LEVEL, DELEGATION_TOKEN_MIN_LEVEL, CIDR_ACL_MIN_LEVEL,
        DIRECTORY_ASSIGNMENT_MIN_LEVEL
<1> QED
  BY <1>9, <1>10

\* A removal that is applied is no longer computed from the image.
LEMMA RemovalKeeps ==
  ASSUME LevelsSupported, CarryInv, NEW rec \in removals, ApplyRemoval(rec)
  PROVE  CarryInv'
<1>1. PICK level \in Level : target = {level}
  BY DEF CarryInv, TypeOK, Remaining, None, Some
<1>2. level \in Nat
  BY DEF LevelsSupported, METADATA_VERSION_MIN
<1>3. /\ level < levels[MV]
      /\ ValidateFeatureDependencies(Finalized(MV, level))
      /\ removals = DowngradeRecords(level)
  BY <1>1 DEF CarryInv, Remaining
<1>4. TypeOK
  BY DEF CarryInv
<1>5. UNCHANGED <<levels, target, before>> /\ removals' = removals \ {rec}
  BY DEF ApplyRemoval
<1>6. /\ DowngradeRecords(level)' = DowngradeRecords(level) \ {rec}
      /\ scram' \subseteq scram /\ (level >= SCRAM_MIN_LEVEL => scram' = scram)
      /\ tokens' \subseteq tokens /\ (level >= DELEGATION_TOKEN_MIN_LEVEL => tokens' = tokens)
      /\ cidr' \subseteq cidr /\ (level >= CIDR_ACL_MIN_LEVEL => cidr' = cidr)
      /\ dirs' \subseteq dirs /\ (level >= DIRECTORY_ASSIGNMENT_MIN_LEVEL => dirs' = dirs)
      /\ brokers' \in [DOMAIN brokers -> Registration]
      /\ \A b \in DOMAIN brokers : brokers'[b] \in {brokers[b], Projected(brokers[b], level)}
  BY <1>2, <1>3, <1>4, RemovalStep
<1>7. DOMAIN brokers' = DOMAIN brokers
  BY <1>6
<1>8. TypeOK'
  BY <1>4, <1>5, <1>6, <1>7 DEF TypeOK
<1>9. LevelsCoherent'
  BY <1>5 DEF CarryInv, LevelsCoherent, ValidateFeatureDependencies, LevelOf
<1>10. ImageFitsLevel'
  <2>1. levels[MV] \in Nat /\ levels[MV] >= METADATA_VERSION_MIN /\ Carries(levels[MV])
    BY LevelCarries
  <2>2. \A b \in DOMAIN brokers : Projected(brokers'[b], levels[MV]) = brokers'[b]
    BY <1>2, <1>3, <1>4, <1>6, <2>1, ProjectedFacts DEF Carries, TypeOK
  <2>3. Carries(levels[MV])'
    BY <1>5, <1>6, <1>7, <2>1, <2>2 DEF Carries
  <2> QED
    BY <1>5, <2>1, <2>3, FitsIffCarriesNext
<1>11. Remaining'
  BY <1>1, <1>3, <1>5, <1>6 DEF Remaining, None, Finalized, ValidateFeatureDependencies, LevelOf
<1>12. OnlyGatedLost'
  <2>1. /\ DOMAIN brokers = DOMAIN before[4]
        /\ \A b \in DOMAIN brokers : brokers[b] \in {before[4][b], Projected(before[4][b], level)}
    BY <1>1 DEF CarryInv, OnlyGatedLost
  <2>2. \A b \in DOMAIN brokers : brokers'[b] \in {before[4][b], Projected(before[4][b], level)}
    <3> SUFFICES ASSUME NEW b \in DOMAIN brokers
                 PROVE  brokers'[b] \in {before[4][b], Projected(before[4][b], level)}
      OBVIOUS
    <3>1. Projected(brokers[b], level) \in {before[4][b], Projected(before[4][b], level)}
      <4>1. CASE brokers[b] = before[4][b]
        BY <4>1
      <4>2. CASE brokers[b] = Projected(before[4][b], level)
        <5>1. before[4][b] \in Registration
          BY <1>1, <1>4, <2>1 DEF TypeOK, None
        <5> QED
          BY <4>2, <5>1, <1>2, ProjectedFacts
      <4> QED
        BY <2>1, <4>1, <4>2
    <3> QED
      BY <1>6, <2>1, <3>1
  <2> QED
    BY <1>1, <1>5, <1>6, <1>7, <2>1, <2>2 DEF CarryInv, OnlyGatedLost
<1> QED
  BY <1>8, <1>9, <1>10, <1>11, <1>12 DEF CarryInv

\* Every step keeps CarryInv.
LEMMA NextCarries ==
  ASSUME LevelsSupported, CarryInv, [Next]_vars
  PROVE  CarryInv'
<1>1. ASSUME NEW b \in Broker, NEW e \in Epoch, NEW c \in BOOLEAN, RegisterBroker(b, e, c)
      PROVE  CarryInv'
  BY <1>1, RegisterKeeps
<1>2. ASSUME NEW l \in Level, UpdateFeature(MV, l)
      PROVE  CarryInv'
  BY <1>2, UpdateKeeps DEF UpdateFeature
<1>3. ASSUME NEW l \in Level, UnsafeDowngrade(l)
      PROVE  CarryInv'
  BY <1>3, DowngradeKeeps
<1>4. ASSUME NEW l \in SupportedRange(ELR), UpdateFeature(ELR, l)
      PROVE  CarryInv'
  BY <1>4, UpdateKeeps
<1>5. ASSUME NEW rec \in removals, ApplyRemoval(rec)
      PROVE  CarryInv'
  BY <1>5, RemovalKeeps
<1>6. CASE UNCHANGED vars
  <2>1. UNCHANGED <<levels, scram, tokens, cidr, brokers, dirs, removals, target, before>>
    BY <1>6 DEF vars, gated
  <2>2. TypeOK' /\ LevelsCoherent' /\ ImageFitsLevel'
    BY <2>1 DEF CarryInv, TypeOK, LevelsCoherent, ImageFitsLevel, MinRequired,
       ValidateFeatureDependencies, LevelOf
  <2>3. Remaining'
    <3>1. ASSUME NEW level
          PROVE  /\ DowngradeRecords(level)' = DowngradeRecords(level)
                 /\ Finalized(MV, level)' = Finalized(MV, level)
      BY <2>1 DEF DowngradeRecords, Rewrites, Finalized
    <3>2. ASSUME NEW level
          PROVE  ValidateFeatureDependencies(Finalized(MV, level))'
                   <=> ValidateFeatureDependencies(Finalized(MV, level))
      BY <3>1 DEF ValidateFeatureDependencies, LevelOf
    <3> QED
      BY <2>1, <3>1, <3>2 DEF CarryInv, Remaining
  <2>4. OnlyGatedLost'
    BY <2>1 DEF CarryInv, OnlyGatedLost
  <2> QED
    BY <2>2, <2>3, <2>4 DEF CarryInv
<1> QED
  BY <1>1, <1>2, <1>3, <1>4, <1>5, <1>6, CreateKeeps, FinalizeKeeps, FailoverKeeps DEF Next

\* The removals left are what the target cannot carry of the image, in every
\* reachable state.
THEOREM DowngradeInductive ==
  ASSUME LevelsSupported
  PROVE  Spec => []CarryInv
<1>1. Init => CarryInv
  BY InitCarries
<1>2. CarryInv /\ [Next]_vars => CarryInv'
  BY NextCarries
<1> QED
  BY <1>1, <1>2, PTL DEF Spec

\* In every order of formatting, upgrades, downgrades and failovers, every
\* finalized feature is in its range and has its dependencies
\* (validate_feature_dependencies).
THEOREM LevelsStayCoherent ==
  ASSUME LevelsSupported
  PROVE  Spec => []LevelsCoherent
<1>1. CarryInv => LevelsCoherent
  BY DEF CarryInv
<1> QED
  BY <1>1, DowngradeInductive, PTL

\* No replica is at a level that cannot carry its image: not between two
\* removals of a downgrade and not after a failover cut one short
\* (min_required_metadata_version).
THEOREM ImageAlwaysFits ==
  ASSUME LevelsSupported
  PROVE  Spec => []ImageFitsLevel
<1>1. CarryInv => ImageFitsLevel
  BY DEF CarryInv
<1> QED
  BY <1>1, DowngradeInductive, PTL

\* A downgrade loses only what its target cannot carry
\* (metadata_version_downgrade_records).
THEOREM DowngradeLosesOnlyGated ==
  ASSUME LevelsSupported
  PROVE  Spec => []OnlyGatedLost
<1>1. CarryInv => OnlyGatedLost
  BY DEF CarryInv
<1> QED
  BY <1>1, DowngradeInductive, PTL
=============================================================================
