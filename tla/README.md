# A verification of krabka-protocol

TLA+ modules that model the stateful parts of this repository, TLC runs that
check them on small instances, and TLAPS proofs of the results that matter most.
`PROJECT.json` holds the machine-readable side: which source lines each
definition models (`map`), the runs, the mutants, the findings and the hazards.

    tlc -config TopicImage.cfg MCTopicParts     # a run
    tlapm HlcClockProofs.tla                    # the proofs of a module

## 1. Inventory

krabka-protocol is the layer below a Kafka-compatible broker. Most of it is
stateless: it turns bytes into values and back. State, and with it the hard
behaviour, is in a few places.

| Part | State | Operations | Hard behaviour |
| --- | --- | --- | --- |
| `crates/metadata`, `image.rs`: the metadata image | maps of topics, partitions, offsets, ELR, registrations, producer ids, configs, quotas, credentials, features, freezes, proposals | `validate`, `apply`, `to_records`, `from_records`, lookups | records built from stale reads; validate and apply at different times; replicas restarting from a snapshot whose record order is not that of the log; caches and reverse indexes |
| `image/acl_index.rs` | entries bucketed by type and name, counts of prefix lengths | `insert`, `remove_matching`, `matching`, `iter` | derived counts over long histories, multi-byte names |
| `write_freeze.rs` and `topic_freeze` | two ordered maps of scopes | upsert, resolve | precedence between nested scopes, the reverse range walk |
| `break_glass.rs` | proposals with an append-only list of approvals | replace, delete | concurrent approvals, spending an approval once, resurrection after deletion |
| `feature.rs`, `metadata_version.rs`, the downgrade functions of `image.rs` | finalized levels and what they gate | bootstrap, dependency checks, `metadata_version_downgrade_records` | a downgrade that is half applied; seven gates, each with its own level |
| `kraft_translate.rs` | none; reads an image | `to_kraft`, `from_kraft` | deltas encoded as full values against an image that may be old, decoded against another one |
| `crates/hlc`: hybrid logical clock | wall time, counter, skew evidence, behind a mutex | `now`, `observe`, `observation` | the physical clock is read before the lock; it moves both ways; peers with broken clocks; counter overflow; restart |
| `crates/security`: SCRAM, GSSAPI | the step of one handshake | client and server steps | replayed messages, exchanges of one user side by side, who owes the next token |
| `crates/security`: JWKS, TLS reload | an atomically swapped key set or TLS configuration | load, store, signal | cells read apart, signals dropped, two reloads at once |
| `crates/kafka-tap` | table of pending requests shared by two pump threads | `pump`, `record`, `take` | a response recorded before its request, full buffers, reused correlation ids |
| `crates/protocol/src/records` | none; a batch goes from hand to hand | encode, decode, patch, `with_delete_horizon`, `from_fetch_bytes` | clipped against damaged batches; rewriting under a checksum and under a moved base timestamp |
| `tagged_fields.rs`, codegen `emit` | none; a message goes from hand to hand | encode, decode of tagged fields | holders that know different tags, connections of different versions |
| the rest of `crates/protocol`, compression, ids, units, trace-context, voters | none | encode, decode, parse | bytes and text |

How they interact: request handlers and the controller (other repositories) read
the image, build a record, submit it; the controller calls `validate`, translates
the record (`to_kraft`) and appends it to the Raft log; every replica translates
it back and calls `apply` in log order; a snapshot is `to_records`, its
installation `from_records`. Handlers consult the ACL index and the freeze
registry through the image. SCRAM servers take their credential from the image
and keep it for one exchange. Clocks interact only through the stamps that
records carry in a header. The tap sits between a client and a broker and knows
nothing of either. The other parts are called and return.

What makes each part correct:

- *image*: derived values (counts, indexes, offsets) equal what they are derived
  from; nothing outlives what it describes; a stale record never damages what
  came after its read; a replica that restarted agrees with one that did not;
- *translation*: replicas that read the log hold what the handlers wrote;
- *gating*: no image is at a level that cannot carry it, and a downgrade loses no
  more than it must;
- *ACL index*: it is a set of entries and a lookup finds what a scan would;
- *freezes*: the most specific entry governs, and a record reaches its scope only;
- *proposals*: no approval is lost, and none authorises twice;
- *clock*: stamps strictly increase, respect causality, and a broken peer moves
  a clock only within the fence;
- *handshakes*: who is let in is who spoke in this very exchange, and both sides
  come to an end;
- *swapped cells*: a reader never uses keys past their expiry, and a rotation
  reaches it;
- *tap*: it is invisible to both peers, and its spool tells what happened;
- *batches and tagged fields*: what is read is what was written, whoever
  handled it on the way.

## 2. Modules

| Module | Models | Extends / instantiates |
| --- | --- | --- |
| `HlcClock` | all of `clock.rs`, the order of `Hlc` | |
| `MetadataMaps` | insert, remove and Option | |
| `MetadataLog` | how an image is driven: read, submit, validate, commit, apply, restart; the image operations are its parameters | |
| `TopicImage` | topics, partitions, ELR, recovery, directories, offsets, topic configs | `MetadataLog` |
| `TranslatedLog` | how an image is driven through KIP-631 records; the translation is its parameter | |
| `KraftTopicLog` | the records of topics and partitions through `kraft_translate.rs` | `TranslatedLog`, `TopicImage` |
| `KraftSettingsLog` | the records of ACLs and of group and client-metrics configs through it | `TranslatedLog` |
| `BrokerRegistry` | broker and controller registrations, producer id blocks | `MetadataLog` |
| `BreakGlass` | proposals | `MetadataLog` |
| `FeatureLevels` | finalized features and their epoch, kraft.version, voters | `MetadataLog` |
| `VersionDowngrade` | feature ranges, dependencies, bootstrap, what metadata.version gates, downgrades | |
| `ConfigMaps` | broker, client-metrics and group configs, quotas, SCRAM credentials, delegation tokens | `MetadataLog` |
| `ClusterImage` | the parts of the image other than topics, together | `BrokerRegistry`, `BreakGlass`, `FeatureLevels`, `ConfigMaps` |
| `AclStore` | what the ACL index promises: a set of entries | |
| `AclIndex` | `acl_index.rs` | refines `AclStore` |
| `WriteFreeze` | `apply_topic_freeze`, `topic_freeze` | |
| `Scram`, `Gssapi` | the client and server exchanges of both mechanisms | |
| `TlsReload` | `DynamicServerConfig` and the files it reads | |
| `JwksCache` | `JwksHandle` between refresher and validators | |
| `FrameChannel` | what a direction of the tap promises: a FIFO channel | |
| `KafkaTap` | `kafka-tap`: one connection | refines `FrameChannel`, once per direction |
| `RecordLog` | v2 record batches from producer to consumer | |
| `TaggedRelay` | tagged fields through a chain of holders | |
| `FoldProofs` | what a fold over a snapshot or a batch computes; least elements and listings | |
| `HlcClockProofs` | proofs | `HlcClock` |
| `LookupProofs` | proofs | `WriteFreeze`, `AclIndex` |
| `WireProofs` | proofs | `KafkaTap`, `RecordLog`, `TaggedRelay`, `FoldProofs` |
| `TopicImageProofs` | proofs | `TopicImage`, `FoldProofs` |
| `ClusterImageProofs` | proofs | `ClusterImage`, `VersionDowngrade`, `FoldProofs` |
| `KraftLogProofs` | proofs | `KraftSettingsLog`, `FoldProofs` |
| `CredentialProofs` | proofs | `Scram`, `Gssapi`, `TlsReload`, `JwksCache`, through `MCCredentials` |
| `MC*` | instances for TLC | the modules they name |

`ClusterImage`, `MCTopicParts`, `MCKraftLog`, `MCClusterImage`, `MCLookups`, `MCCredentials` and `MCWire`
each put several modules or instances together. Their parts share no state (or, for the image, write
disjoint fields, and `validate` reads only the field it guards), so a variable
`part` picks the one that moves and each behaviour is one of one part. The
variables of the others stay in their initial state, where none of their fair
actions is enabled.

### The clock

One action for each critical section of a method (`Now`, `Observe`,
`Observation`, and the error returns `NowOverflows`, `ObserveRefuses`,
`ObserveOverflows`) and one for the physical read before the lock (`StartNow`,
`StartObserve`, `StartObservation`). `PhysicalClockMoves` sets the host clock to
any reading, `Restart` replaces the clock by a new one. Records are a set, so
each may be read late, twice, in any order or never. `i64` and `u32` keep their
limits (`MinWall`, `MaxWall`, `MaxCounter`) and `saturating_sub` saturates.
Histories such as `minted` and `topPt` are read by no guard.

### The image

`MetadataLog` has five actions. `Ask`: a handler reads the image and builds a
record, which waits in `pending`. `Submit` and `Refuse`: the controller validates
it against the image *as it is then* and appends it or returns the error.
`ApplyNext`: the next committed record is applied. `Restart`: the image is
replaced by `FromRecords(ToRecords(image))`. `replayed` is the image of a replica
that applies the same records and never restarts; comparing the two is how
snapshots are checked. A snapshot is a sequence of sections, each a set, because
`to_records` iterates over hash maps but in a fixed order of kinds.

`MaxLag` is how many committed records the validating image may be behind. The
comment on `validate` leaves the serialisation to the controller. `MaxLag = 0` is
a controller that serialises, and `NoOrphans` and the cached counts need that:
with `MaxLag = 1` a partition of a topic that is being deleted can commit.
Properties checked with `MaxLag = 1` are guaranteed by `apply` itself.

The records that handlers build (`Requests` and what it is made of) are external:
the handlers are in another repository, and what is modelled is what `image.rs`
assumes of them. Data is abstract: names are model values, endpoints, racks,
hashes and most numbers are left out, config values are members of a small set.

`AclIndex` and `WriteFreeze` are not driven through the log: `validate` checks
nothing of an ACL that depends on the image and only that a freeze scope is not
empty, so every order of records is possible anyway. Names are sequences of
bytes there, because prefixes, the order of a `BTreeMap` and character
boundaries are what these parts are about. A bucket of the index is a bag, so that an
entry pushed twice would show; the order inside a bucket is left out, as no reader depends on it.

### The image as KIP-631 records

`TranslatedLog` drives an image through the translation.
`Submit` validates and encodes against the controller's image; `ApplyNext` decodes
against each replica's own image, record by record, and skips what does not
resolve; `Restart` decodes a snapshot in the same way. A third image, `direct`,
is what the untranslated records give. `serial` tells a controller that has
applied everything it appended from one that may be a record behind.
`KraftTopicLog` puts `TopicImage`'s `Apply` and `Valid` into it. `KraftSettingsLog` adds
the other records whose translation reads the image: a filter that deletes ACLs
becomes the ids of the entries it matches there, and a map of configs one record
for each key. An ACL id is the entry it is a hash of: the code derives a 128-bit FNV-1a hash and
assumes, as the model does, that no two entries share one. What `to_kraft_values` strips below a
metadata.version is not part of this module.

### Levels and downgrades

`VersionDowngrade` keeps the finalized levels and the state they gate. A cluster is
formatted by `BootstrapFeatures`; credentials, tokens, ACLs, directories and
registrations appear as the level allows; `UnsafeDowngrade` builds the removals,
which are applied one at a time in any order (`ApplyRemoval`), and
`FinalizeDowngrade` sets the level; `Failover` may drop what is left at any point.
A registration that a downgrade rewrites keeps its broker epoch here, as in the tests of `image.rs`; the
leader that appends it stamps a new one (`BrokerRegistry`), which no gate reads.

### Handshakes and swapped cells

In `Scram` an exchange may be handed any message anyone has sent, any number of
times, so replay, reordering, loss and mixing of connections are all there.
Derived keys and HMACs are records of their inputs (free constructors), the key of a client's
proof and that of a server's signature being told apart by their labels, and a
nonce is the identity of its exchange: cryptography is assumed perfect, the
order of checks and what is compared is not. Credentials are altered while
exchanges run. `Gssapi` takes a context of any number of legs, completed by
either side, and peers that offer or pick other layers; one token may be damaged. Of the adapter in
`provider.rs` it has what decides the turns (`Established`, `Writes`); a leg that continues is taken to write
a token. The SCRAM network replays and mixes messages and makes none of its own: what `ClientAuthenticates` says
of a server that does not hold the key is said of servers with another user's or another version's key.

`TlsReload` has one action for each file a reload reads, one for the store, and an
operator who replaces the files one at a time and may leave one torn: a torn key is an error, a torn chain
may also be cut between two certificates and then loads. The file of client CAs is read only with client
authentication. `JwksCache` has the two cells of
`JwksHandle`, read and written apart, a cache with an expiry or without one, the one-place signal channel, and a provider
that rotates keys; the refresher is external and modelled from the contract in
`jwks.rs`. Two things are assumed that `jwks.rs` does not state: the refresher stores the keys before the time of
their fetch, and the two loads of a validator take effect in their order, although
`last_successful_fetch_ms` is a `Relaxed` load. On a machine that reorders them a validator might judge an older
key set by a younger time; the model does not show that.

### The tap

`KafkaTap` has a program counter for each of the two pump threads of a connection:
read a frame, consult the pending table, call the recorder, write. Buffers are
bounded (`Buffer`), a peer may close at any step, and a write to a closed socket
ends the pump. The peers are external: a client that may reuse a correlation
id once its answer is in, or whose request wants none, and a broker that
answers in order, and now and then with a frame too short to hold an id. Neither has to read:
a pump that writes to a full buffer waits as long as its peer likes.

### Record batches and tagged fields

`RecordLog` counts bytes in units (three of header, one for each record), enough
to tell a cut before, in and behind the magic byte and inside the records. A
checksum is the value it covers. The produce path stores the producer's bytes with the
offset patched in, or decodes and encodes again; compaction drops records and puts a
delete horizon where the base timestamp was; a fetch is a run of batches whose
last one is clipped (`Run`). The records compaction keeps stay in their order (`InOrder`). Damage of fields outside the checksum is part of the model
for requests, where the broker overwrites them, and left out for responses,
where nothing could tell. What `from_fetch_bytes` returns (`FromFetchBytes`) is batches, an error or, when
the first magic byte is not 2, the bytes as a legacy message set, which a consumer of v2 batches reads nothing of (`TakeLegacy`).

`TaggedRelay` passes one message along holders with any subset of the schema's
tags, over connections of any version; a tag is of a range of versions, closed or open. The entries a holder keeps are a set: no two have
the same tag, and `Merged` sorts them again, together with the known ones.

## 3. Runs

| Run | Instance | Shows |
| --- | --- | --- |
| `hlc_clock` | 2 nodes, 2 threads each, 2 calls per node, 2 readings, counter up to 1, a foreign stamp beyond the fence and one with the largest counter inside it | the stamps of a clock strictly increase and respect causality however stale a call's reading is; no record carries a broken time past a fence, through any chain of nodes; a restart takes back no more than the fence and the host's own step |
| `topic_image` | lifecycle: 1 name, 2 partitions, 5 requests, 2 in flight, `MaxLag = 0`; deltas: 2 names, two replica orders, 5 requests, `MaxLag = 1` | counts, index, dependants and snapshots survive creation, expansion, alteration, deletion and re-creation from stale reads; directory assignments follow the replica, not the slot |
| `kraft_log` | 1 name, 1 partition, 5 requests, 2 in flight, 1 restart, controllers that are serial and a record behind; 2 ACLs, 2 filters, a config map of 2 keys | replicas that decode KIP-631 records hold what was written, epochs aside, and lose no ACL that no record asked to remove; snapshots in that form agree with the log |
| `cluster_image` | brokers: 2, 4 requests, `MaxLag = 1`; proposals: 2 approvers, quorum 2, 7 requests; features and configs: 4 requests; downgrades: 8 levels, on both sides of every gate | registrations are touched only by what postdates them; producer id blocks are disjoint; approvals are never lost or spent twice; the epoch versions the levels; snapshots agree; the image fits its level throughout every downgrade, and only gated state is lost |
| `lookups` | ACLs: 10 entries over nested, equally long, empty and multi-byte prefixes, 17 filters; freezes: 4 scopes of both patterns, 8 topics; all histories | the index implements a set (`AclStore`), also after a restart, and finds what a scan finds; the reverse walk finds the most specific freeze; a record changes only its scope |
| `credentials` | SCRAM: 2 clients, 2 servers, 2 users, one alteration; GSSAPI: 1 to 4 legs; TLS: 2 reloaders, 3 calls, 1 rotation, with and without client authentication; JWKS: 2 validators, 2 keys, 3 ticks, 1 failed fetch, an expiry of 1 and none | injective agreement of server and client, agreement of client and server; handshakes conclude, and as both sides' layers say; a reload that begins after a configuration was stored never brings older files back; tokens are judged by fresh keys, and a rotated key is accepted in the end |
| `wire` | tap: 2 correlation ids, buffers of 1, peers that need not read, 2 requests of any kind and of 2 APIs or 3 plain ones of one API; batches: 2 of up to 2 records, 3 writes and rewrites, 1 fault; tags: 3 tags, 4 versions, 4 connections | the spool is in order, complete and classified; each direction is a FIFO channel; a full buffer holds up its own direction only; threads end; consumers read exactly what was written and get past every offset; tagged values survive holders that do not know them, and no tag is written into a version without it by a holder that knows it |

`CHECK_DEADLOCK FALSE` is set where a bound on requests or calls, or the end of a
handshake or connection, ends every behaviour.

Why the bounds suffice: each request kind of a run can happen at least twice, and
the races the hazards describe need two requests in flight (one stale), and at
most four or five records (create, add a partition, read, delete, re-create).
For proposals seven requests are what it takes to propose, approve twice,
consume, read for a second approval, sweep and submit the stale record; setting
the sweep to delete early makes `SpentOnce` fail, so the case is reached. The
lookups have no bound on the history: their state spaces are complete. In
`hlc_clock` two calls on each node and the foreign stamp with the largest counter
reach overflow and both refusals. A replay in SCRAM needs one client and two servers, a mix-up
of server-finals two clients; the proofs hold for any number. A reused correlation id needs two
requests. A direction of the tap with a buffer of one is stuck with three frames (one delivered
to the full buffer, one in the pump, one behind it), so three pipelined requests fill it while the response
pump still has answers to relay. A batch rewritten twice, and a response that spans two batches, each
fit into three writes. Four connections let a message pass from a holder that
knows a tag over one that does not to one that does, with a version to spare.
Every property has a mutant of the code, a line or a guard off, that
breaks it under the same configuration.

Fairness, and why the code justifies it:

- `KafkaTap`: weak fairness of each pump thread (a loop on its own OS thread) and of nothing else:
  no peer has to send, read or close. `OnlyOwnPeerBlocks` therefore has the receiver's full
  buffer as its one excuse, next to a connection that breaks off; `ThreadsEnd` is conditional on both peers having closed.
- `Gssapi`: weak fairness of the side whose turn it is.
- `JwksCache`: weak fairness of the refresher's loop and of one client that retries;
  failures of fetches are bounded.
- `RecordLog`: weak fairness of the consumer's poll loop; faults are bounded.
- Everything else is checked for safety only: the image, the index, the clock and
  the TLS handle have no loop or queue of their own that must make progress.

### Findings

Five runs state what a comment says and find the code doing something else.

- `hlc_observation`: `observation()` "reads the physical clock and the whole state
  together", but the read precedes the lock, and a `now()` in between makes it
  report a drift that never existed.
- `topic_offsets`: offset advances "yield a gap-free" sequence, but an advance
  committed after the deletion of its topic is kept for the next topic of that
  name.
- `kraft_race`: a directory assignment merges "only the reporting replica's" slot,
  but its KIP-631 form carries the whole list of the encoder's image; behind a
  reassignment it gives the new replica the directory of the old one.
- `kraft_snapshot`: ELR and recovery records decode to partition updates that count
  a partition epoch, so a restart from a snapshot leaves a higher epoch than the
  log does.
- `kraft_value`: an update without directories, encoded against an image that has
  them, becomes an empty list, which no replica decodes, although the round trip
  is "the correctness bar for every modeled variant".

Observations without a run of their own:

- The comment of `from_fetch_bytes` says that "a complete batch that is corrupt in its CRC, magic byte, or
  content still returns an error", but a first batch whose magic byte is damaged turns the whole response into a
  legacy message set, without one (`FromFetchBytes`, `TakeLegacy`).
- `CounterOverflow` "needs more than four billion stamps in one microsecond", but
  the counter counts all stamps minted while the wall time stands still, which is
  as long as the physical clock is behind it.
- The replication factor of a topic is that of the last partition record applied,
  which in a snapshot is the highest index; `RestartedAgrees` leaves it out. An
  owner of configs or quotas whose last key was deleted has an empty map in
  the live image and none after a restart; the two are treated as equal.
- Partition updates name their topic by name alone: one built for a deleted topic
  lands on its successor, if the shape fits.
- A removal of ACLs says only what the controller's image held when it was encoded:
  of two that race the second meets an `UnknownAclId`, and an entry added meanwhile
  survives a filter that matches it. A serial controller excludes both.
- A validator whose JWKS cache has expired refuses without asking for a refresh: it
  is the periodic one that brings it back. `RotatedKeyAccepted` says so.
- A tap pump that ends leaves the other one holding both sockets: the peer behind
  it sees no close until both have gone. `ThreadsEnd` says what holds, that both threads end once both peers have
  gone; with one peer gone and the other silent they stay.
- Nothing serialises two reloads that overlap: the one that read the older files may
  store last. `OlderOnlyWhenOverlapped` says that this is the only way back.
- A response cut at 16 bytes or fewer is taken for a legacy message set, though the
  comment of `looks_like_v2` wants a truncated v2 batch in the V2 arm; the consumer
  asks again either way.
- Base offset, leader epoch and batch length lie outside the checksum: a length
  that grew is forgiven as truncation.
- A holder that keeps an unknown tag writes it into any flexible version; a reader
  that knows the tag to be of another one refuses the message.
  `RelayTransparent` allows exactly this: a refusal over a tag that the sender knew would break it.

## 4. Proofs

`HlcClockProofs`, for all sets of nodes and threads, all readings and limits, from
`ClockAssumption` (readings and foreign stamps are within `i64` and `u32`, 0 is an
`i64`, `MaxOffset` is below `i64::MAX`):

- `ClockTypes`, `StampsIncrease`, `StampsRespectCausality`, `FenceContainsDamage`,
  `RestartsTakeBackLittle`: the five invariants of `hlc_clock`; and `EvidenceAgrees`,
  that the counters of skew evidence agree with each other.

None of them is inductive alone. `ClockInvariant` adds: everything minted is at or
below the current time of the clock (`ClockCoversMinted`; without it a new stamp
could be below an old one), a call in flight carries a reading its host really had
(`CallsCarryReadings`, `ReadingsCovered`; without it a stale `observe` could pass
the fence). The argument: `NowAdvances` and `ObserveAdvances` say that the new time
is above the old one and above the peer; `MintKeepsInvariant` turns that into the
invariant for every action that returns a stamp; the error returns and the physical
clock leave the minted stamps alone.

`FoldProofs` has the lemmas about folds, for every image and every `Apply`; they say nothing of this code and
are there for the others. A snapshot is loaded by a fold
over its sections, and inside a section by a fold over a set in an order nobody
fixes, so every theorem about restarts needs to know what a fold computes.
`ReplayIs`: if a map h gives the base at the empty set and h[S] is
what each record of S leads to from h[S without it], the section ends in h[S].
`FromRecordsIs`: the sections follow one another. `InTurnIs`: the
records of a sequence are applied in its order, so a map over its prefixes that follows every one ends in the result. The induction theorems of the library
cannot be instantiated here, so the recursive functions behind the folds are shown
to exist and to be unique by looking at a smallest counterexample
(`SetInduction`, `SubsetRecursion`). `LeastExists` and `ListingExists` say that a set of numbers
has a least one and that a finite set can be listed by a key; the `CHOOSE`s of the models rest on them.

`TopicImageProofs`, for all topics, replica lists (`Sizes`: they are sequences, and
`MaxPartitions` is a number), bounds and lengths of the log:

- `DirectoriesFollow` (`DirectoriesFollowReplicas`), for any `MaxLag`.
- `IndexesAgree` (`DerivedConsistent`), `NothingOrphaned` (`NoOrphans`) and
  `TopicsRestartedAgree` (`RestartedAgrees`), when the log is `Serialised`: the validating
  image has applied every record (`MaxLag` = 0), or no topic is ever deleted. These are the
  two instances of `topic_image`; without the condition a partition that was validated
  before its topic was deleted leaves an orphan, which the next topic of that name does not count.

Two inductive invariants. `TypedInv`: images are well-formed (`TopicImg`), so are the
records under way, and there is one assignment of names to ids under which every topic
and every topic record has its own id (`TopicsNamed`). The last is what makes the reverse
index exact: a topic record that is applied late, or after its topic was deleted and created
again, cannot take the id of another topic (`TopicKeeps`). `SerialInv`: counts are exact and
nothing is orphaned (`Consistent`), the replayed image agrees with the restarted one but for
factors (`Agree`), and what is committed and not yet applied is as grounded as when it was
validated (`Grounded`). `TopicsRestored` says what a snapshot gives back: the
topics without counts, then the partitions index by index with the counts growing
(`PartitionsLoaded`), then the four auxiliary maps.

`ClusterImageProofs`, about `ImageSpec`, for all principals, brokers, features, voters, config owners
and bounds. Proposals need `MaxLag.glass` = 0 and a `Window` in Nat, features a `MaxLevel` in Nat,
quotas an `EntityType` of numbers (they stand for the names of the types in their order):

- `SettledNeverAuthorises` (`SpentOnce`), `ApprovalsOnlyGrow` (`ProposalsOnlyGrow`). `GlassInv` adds that
  what was settled still is, or its id has expired (`StaysSettled`): a stale approval may
  bring a swept proposal back, but with the expiry it was made with.
- `RegistrationUntouched` (`NewRegistrationUntouched`), `ProducerBlocksDisjoint` (`BlocksDisjoint`), for any
  `MaxLag`: `BrokersInv` says that a request names an epoch below the offset its handler
  had seen, and a registration gets its epoch from the log, so a later one is above.
- `EpochVersions` (`EpochVersionsLevels`).
- `ImageRestartedAgrees` (`RestartedAgrees`), for every part: from_records undoes to_records on every image
  that the invariants allow. For configs and quotas (`ConfigsInv`) the two replicas are
  not equal, only equal on the owners that have a key. That they stay so takes two facts: a
  change of one key does the same to an owner without keys as to one that is absent
  (`KeyedSet`), and an entity in the image is its own canonical form (`CanonicalStable`), so
  that replaying the records of a snapshot finds the same owners.

And there about `VersionDowngrade`, for all brokers, epochs and levels, if the levels requested are those
`from_feature_level` knows (`LevelsSupported`):

- `LevelsStayCoherent` (`LevelsCoherent`), `ImageAlwaysFits` (`ImageFitsLevel`), `DowngradeLosesOnlyGated`
  (`OnlyGatedLost`). `CarryInv` is their conjunction with what a downgrade under way has
  left to do: its records are still those computed from the present image (`Remaining`),
  whatever part of them was applied.

`KraftLogProofs`, about ACLs and configs as KIP-631 records, for any entries with the same axes (`OneShape`: they
are values of one struct), any filters and owners, a finite set of keys and any lag, numbers of
requests and restarts:

- `SettingsFaithful` (`SettingsLogFaithful`). `SettingsInv` adds that both images are ones records lead to
  (`WellFormed`: ACLs are finitely many and no owner has an empty map), that what is committed
  was encoded against some such image (`Batched`), and, behind a serial controller, against the present one (`Fresh`).
- `SnapshotExact`: a snapshot in KIP-631 form, decoded record by record, gives every such image back.

One record becomes a batch in the order of a `HashMap`, so each theorem first says what a batch does in any
order: removals by id take away the entries they name and no other (`RemovalBatch`, which needs `exact_filter`
to match one entry only), configs set and drop the keys they name (`MergeBatch`). `RecordCarries` compares
the batch with the record: they do the same on the image that encoded it, and elsewhere the batch
keeps every ACL that the record keeps.

`LookupProofs`, for all scopes and topics that are byte strings
(`NameAssumption`):

- `ResolutionIsExact` (`ResolutionExact`): the single reverse walk over the ordered
  map finds the entry that beats all others. The core is `PrefixesByLength`: among
  the prefixes of one topic, the order of the `BTreeMap` is the order of length, so
  keys that sort in between cannot hide a longer prefix. It rests on
  `StoredByScope`, the inductive invariant that an entry is stored under its own scope.
- `RecordsStayInScope` (`ScopeRespected`): from `OthersKept`, an update leaves all
  other keys alone, and a lookup that never reads the updated key.

And there for ACLs, for any entries and names that are byte strings, of which one that starts another does not
split a character (`AclAssumption`, which valid UTF-8 has), and any filters:

- `IndexIsStore` (`ImplementsStore`): adding, removing by filter and rebuilding from a snapshot change the
  index as they change the set of `AclStore`.
- `LookupsExact` (`MatchingExact`): what the probed buckets of a name hold is what a scan finds.

Both rest on the canonical form of the index (`IndexOf`): a bucket holds its entries once and is there
if and only if it holds any, and every length is counted as often as there are prefixes of it. That
`remove_matching` keeps the counts exact (`LengthsForgotten`) is what lets a lookup trust them.

`WireProofs`, of the tap, for any buffer size, correlation ids, APIs and number of requests:

- `TypeCorrect`: frames, pending entries and spooled records are well-formed.
- `SpoolOrdered` (`RequestBeforeResponse`): every response of the spool is behind its
  request. The invariant
  `SpoolInv` adds that a request which has got past the recorder, and every
  response anywhere, belongs to a recorded request: the request pump records
  before it writes.
- `Relayed` (`FramesRelayed`): each direction implements `FrameChannel`. `FlowInv` says
  that what was sent is what was delivered, then what the pump holds, then what
  waits in the buffer.
- `ResponsesClassified` (`ResponseClassified`) and `TeeIsComplete` (`TeeComplete`). `ClassInv` follows a request
  from the buffer over the upstream peer to the spool of its response: requests stay
  in order on the way (`FramesInOrder`), an id is used again only after the client has read an
  answer to the request that had it (`ReusedWhenRead`), so the entry a response finds is its own (`Entries`).

And of what the frames carry:

- `ReadsAsWritten` (`ReadAsWritten`), for any payloads and any numbers of records, batches, rewrites and
  faults, from `TimeAssumption` (timestamps and delete horizons are not negative and fit an `i64`, which is
  when `saturating_sub` loses nothing). `RecordInv` says of each stored batch (`Good`) that it decodes, that
  its records are in order, inside its offsets and those that were accepted there, and that an offset
  without a record was compacted; that batches follow one another without a gap and the position is where one
  ends; that a response, as far as it is sound, goes on from that position, though the log
  may have been rewritten since (`ResponseOK`); and that the checksum of a request is its producer's, or none,
  whatever else was damaged (`RequestOK`). `DamageShows`: no change of a sound batch is sound.
  `SoundRequest`: the verbatim and the decoded path store the same bytes. `RewrittenGood`: a rewrite under a
  horizon keeps times and offsets. `ReadsOn`: a batch that begins where reading stopped extends it.
- `RelayIsTransparent` (`RelayTransparent`), for any finite schema (`TagAssumption`), values, versions and number of
  connections. `TagInv`: entries have one tag each, not the default, and none that the holder knows; what message
  and trailer say of a tag is the origin's value or, where a version does not carry it, the
  default. `MergedIs` says that the merged trailer has exactly the entries of both kinds in
  ascending order, `Written` and `ReadBack` that encoding and decoding keep what is said.

`CredentialProofs`, about SCRAM for any number of exchanges, users, passwords and alterations, from
`NoneAssumption` and `LoginAssumption`:

- `Agreement` (`InjectiveAgreement`): a server exchange in Done was run by a client with the same
  user, password and mechanism against this very exchange, and no client exchange
  logs in at two servers.
- `ClientAgreement` (`ClientAuthenticates`): a client that verified the server-final spoke to an
  exchange that ended in Done for it.

Neither is inductive. `SafeInv` traces what an exchange accepted back to who made it:
exchanges have their shapes (`Shapes`), a server past the client-first holds the
server-first it issued (`Issued`), every client-final in `sent` was made by a client
still bound to the server-first it answers (`FinalsMade`), a server in Done was
handed a client-final whose proof holds (`Proved`), and every server-final is signed
by a server in Done (`FinalsSigned`). Nonces and credentials inside the proof then
name the one exchange on the other side.

And about the other mechanisms:

- `HandshakeAgrees` (`DoneAgreed`), for any number of legs and any damage: `GssInv` says whose
  the token in flight is.
- `OlderNeedsOverlap` (`OlderOnlyWhenOverlapped`), if `Torn` is no rotation: what a reload has read is
  no older than what was on disk when it began, and what is served was read (`TlsInv`).
- `AcceptedAgainstFreshKeys` (`AcceptedFresh`), for any set of expiries in Nat, with or without `None`, and tokens with a key: the refresher
  stores the keys before the time of their fetch, so a time read first is never
  younger than the keys read after it (`JwksInv`).

Only model-checked: liveness, which the prover cannot reach, and `TopicLogFaithful`, the topics in the
translated log, which needs the cases of `TopicImageProofs` once more for three images that agree only up to
epochs.

## 5. Not modelled

- The broker, the controller and Raft are in other repositories; what the image
  needs of them is stated by `MetadataLog` and its bounds.
- Generated messages: about 168,000 lines, two thirds of the implementation, are the output of
  the generator, one struct and codec after another, so that the share of lines
  the map covers is small whatever is modelled. What their tagged fields do is
  modelled once, at the templates; the rest is reading and writing fields in order,
  covered by differential tests.
- Codecs of primitives, the HLC wire format, varints, record headers, compressed bodies, legacy
  message sets, id and unit parsing, trace context: pure functions over bytes and
  text, covered by round-trip, differential and property tests.
- The rest of the generator: a build-time translator from JSON to Rust text.
- Translation of records of brokers, controllers, quotas, tokens and credentials:
  field by field and without the image, so nothing can be stale. What
  metadata.version strips of a registration is in `VersionDowngrade`.
- The claim checks of a JWT, introspection, name mapping, and the text grammar of
  SCRAM messages: stateless chains of tests.
- Cryptography, GSS, TLS and JWT libraries: external, taken to be perfect.
- `PROJECT.json` lists every component with the reason.

## 6. Plan

What is worth adding, in this order:

1. Proofs: `TopicLogFaithful`, as `KraftLogProofs` does it for the settings, over the lemmas of `TopicImageProofs`.
2. Varints and the HLC header codec as operators against a reference, over bounded
   inputs.
