----------------------------- MODULE MetadataLog -----------------------------
(***************************************************************************)
(* How the metadata image is driven.  A request handler reads the image,   *)
(* builds a record from what it read and submits it.  The controller       *)
(* validates the record against its image and appends it to the Raft log;  *)
(* committed records are applied in log order.  A replica that restarts,   *)
(* or that installs a snapshot, replaces its image by the one that         *)
(* from_records builds out of to_records.  The handlers, the controller    *)
(* and Raft are outside this repository; the image operations are theirs   *)
(* to call and are parameters here: TopicImage, BrokerRegistry,            *)
(* BreakGlass, FeatureLevels and ConfigMaps supply them.                   *)
(*                                                                         *)
(* Between the read and the submission other records may be committed, so  *)
(* every record may be stale.  MaxLag is how many committed records the    *)
(* validating image may not have applied yet: 0 for a controller that      *)
(* serialises validate, append and apply.                                  *)
(***************************************************************************)
EXTENDS Naturals, Sequences, FiniteSets, FiniteSetsExt, SequencesExt

CONSTANTS
  Empty,           \* MetadataImage::new
  Apply(_, _),     \* MetadataImage::apply(image, record)
  Valid(_, _),     \* MetadataImage::validate(image, record)
  ToRecords(_),    \* MetadataImage::to_records: see FromRecords
  Requests(_, _),  \* the records handlers build from the image they read;
                   \* the second argument is an id nobody has used
  Stamped(_, _),   \* the record as the leader appends it at an offset
  MaxAsked,        \* bound: requests in a behaviour
  MaxPending,      \* bound: requests read but not yet submitted
  MaxLag

VARIABLES
  image,      \* the image of the replica under test, which may restart
  replayed,   \* history: the image of a replica that never restarted
  unapplied,  \* committed records the image has not applied
  pending,    \* requests that have read the image and not been submitted
  asked,      \* requests so far
  committed   \* records appended so far: the offset of the next one

vars == <<image, replayed, unapplied, pending, asked, committed>>

\* A snapshot is a sequence of sections, each a set of records: HashMap
\* iteration gives the records of a section in no particular order, and they
\* have different keys.
FromRecords(sections) ==
  FoldLeft(LAMBDA img, section :
             FoldSet(LAMBDA rec, acc : Apply(acc, rec), img, section),
           Empty, sections)

Init ==
  /\ image = Empty
  /\ replayed = Empty
  /\ unapplied = <<>>
  /\ pending = {}
  /\ asked = 0
  /\ committed = 0

\* A handler reads the image and builds a record from it.
Ask ==
  /\ asked < MaxAsked
  /\ Cardinality(pending) < MaxPending
  /\ \E rec \in Requests(image, asked) :
       pending' = pending \cup {[record |-> rec, seen |-> committed]}
  /\ asked' = asked + 1
  /\ UNCHANGED <<image, replayed, unapplied, committed>>

\* The controller accepts a request and the record is committed.
Submit(request) ==
  /\ Len(unapplied) <= MaxLag
  /\ Valid(image, request.record)
  /\ unapplied' = Append(unapplied,
       [request EXCEPT !.record = Stamped(request.record, committed)])
  /\ pending' = pending \ {request}
  /\ committed' = committed + 1
  /\ UNCHANGED <<image, replayed, asked>>

\* validate returns an error and the handler gives up.
Refuse(request) ==
  /\ Len(unapplied) <= MaxLag
  /\ ~Valid(image, request.record)
  /\ pending' = pending \ {request}
  /\ UNCHANGED <<image, replayed, unapplied, asked, committed>>

ApplyNext ==
  /\ unapplied # <<>>
  /\ image' = Apply(image, Head(unapplied).record)
  /\ replayed' = Apply(replayed, Head(unapplied).record)
  /\ unapplied' = Tail(unapplied)
  /\ UNCHANGED <<pending, asked, committed>>

\* A restart from a snapshot, or the installation of one.  The records after
\* the snapshot are applied by ApplyNext, so this covers snapshots of any age.
Restart ==
  /\ image' = FromRecords(ToRecords(image))
  /\ UNCHANGED <<replayed, unapplied, pending, asked, committed>>

Next ==
  \/ Ask
  \/ \E request \in pending : Submit(request) \/ Refuse(request)
  \/ ApplyNext
  \/ Restart

Spec == Init /\ [][Next]_vars
=============================================================================
