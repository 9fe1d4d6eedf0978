---------------------------- MODULE TranslatedLog ----------------------------
(***************************************************************************)
(* How the metadata image is driven through KIP-631 records (crates/       *)
(* metadata/src/kraft_translate.rs), as MetadataLog says without them.     *)
(*                                                                         *)
(* The controller translates a record against its image when it appends    *)
(* it (to_kraft_values); every replica translates the KIP-631 records back *)
(* against its own image, in log order (from_kraft_value), skips what does *)
(* not resolve and applies the rest.  A snapshot is to_records in the same *)
(* form.  KraftTopicLog and KraftSettingsLog supply the operations.        *)
(*                                                                         *)
(* A serial controller has applied everything it appended when it encodes; *)
(* another may be one record behind ("two racing committed writes",        *)
(* TranslateError::InvalidReference).                                      *)
(***************************************************************************)
EXTENDS Naturals, Sequences, FiniteSets, FiniteSetsExt, SequencesExt, MetadataMaps

CONSTANTS
  Empty,            \* MetadataImage::new
  Apply(_, _),      \* MetadataImage::apply(image, record)
  Valid(_, _),      \* MetadataImage::validate(image, record)
  Resolves(_, _),   \* whether to_kraft succeeds
  ToKraft(_, _),    \* to_kraft_records(image, record): a sequence
  FromKraft(_, _),  \* from_kraft(image, KIP-631 record): an Option
  ToRecords(_),     \* MetadataImage::to_records: sections, each a set
  Requests(_, _),   \* the records handlers build from the image they read
  MaxAsked,         \* bound: requests in a behaviour
  MaxPending,       \* bound: requests read but not yet submitted
  MaxLag,           \* records a controller that is not serial may be behind
  MaxRestarts,      \* bound: restarts of the replica
  Serial            \* whether the controller is serial: the cases to check

VARIABLES
  image,      \* the image of a replica, which may restart; the controller's
  replayed,   \* history: the image of a replica that never restarted
  direct,     \* history: the image the untranslated records give
  unapplied, pending, asked, committed,
  serial,
  restarts,   \* restarts so far
  skipped     \* history: some record did not resolve

vars == <<image, replayed, direct, unapplied, pending, asked, committed, serial, restarts, skipped>>

\* A replica reads one record of the log.
ApplyWire(img, w) ==
  LET rec == FromKraft(img, w)
  IN  IF rec = None THEN img ELSE Apply(img, CHOOSE r \in rec : TRUE)

ApplyBatch(img, wires) == FoldLeft(ApplyWire, img, wires)

\* A snapshot: to_records, encoded with the image it is of.
Encoded(img) ==
  LET sections == ToRecords(img)
  IN  [i \in DOMAIN sections |-> {ToKraft(img, rec) : rec \in sections[i]}]

FromSnapshot(img) ==
  FoldLeft(LAMBDA acc, section : FoldSet(LAMBDA batch, a : ApplyBatch(a, batch), acc, section),
           Empty, Encoded(img))

Init ==
  /\ image = Empty /\ replayed = Empty /\ direct = Empty
  /\ unapplied = <<>>
  /\ pending = {}
  /\ asked = 0
  /\ committed = 0
  /\ serial \in Serial
  /\ restarts = 0
  /\ skipped = FALSE

\* A handler reads the image and builds a record from it.
Ask ==
  /\ asked < MaxAsked
  /\ Cardinality(pending) < MaxPending
  /\ \E rec \in Requests(image, asked) : pending' = pending \cup {rec}
  /\ asked' = asked + 1
  /\ UNCHANGED <<image, replayed, direct, unapplied, committed, serial, restarts, skipped>>

Accepted(rec) == Valid(image, rec) /\ Resolves(image, rec)

\* The controller validates and encodes a record, and it is committed.
Submit(rec) ==
  /\ Len(unapplied) <= IF serial THEN 0 ELSE MaxLag
  /\ Accepted(rec)
  /\ unapplied' = Append(unapplied, [record |-> rec, wires |-> ToKraft(image, rec)])
  /\ pending' = pending \ {rec}
  /\ committed' = committed + 1
  /\ UNCHANGED <<image, replayed, direct, asked, serial, restarts, skipped>>

Refuse(rec) ==
  /\ Len(unapplied) <= IF serial THEN 0 ELSE MaxLag
  /\ ~Accepted(rec)
  /\ pending' = pending \ {rec}
  /\ UNCHANGED <<image, replayed, direct, unapplied, asked, committed, serial, restarts, skipped>>

\* Every replica decodes and applies the next batch.
ApplyNext ==
  /\ unapplied # <<>>
  /\ LET entry == Head(unapplied)
     IN  /\ image' = ApplyBatch(image, entry.wires)
         /\ replayed' = ApplyBatch(replayed, entry.wires)
         /\ direct' = Apply(direct, entry.record)
         /\ skipped' = (skipped \/ \E i \in DOMAIN entry.wires :
                          FromKraft(ApplyBatch(image, SubSeq(entry.wires, 1, i - 1)),
                                    entry.wires[i]) = None)
  /\ unapplied' = Tail(unapplied)
  /\ UNCHANGED <<pending, asked, committed, serial, restarts>>

\* The replica restarts from a snapshot.
Restart ==
  /\ restarts < MaxRestarts
  /\ image' = FromSnapshot(image)
  /\ restarts' = restarts + 1
  /\ UNCHANGED <<replayed, direct, unapplied, pending, asked, committed, serial, skipped>>

Next ==
  \/ Ask
  \/ \E rec \in pending : Submit(rec) \/ Refuse(rec)
  \/ ApplyNext
  \/ Restart

Spec == Init /\ [][Next]_vars
=============================================================================
