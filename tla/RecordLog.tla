------------------------------ MODULE RecordLog ------------------------------
(***************************************************************************)
(* The v2 record batches of crates/protocol/src/records on their way from  *)
(* a producer through a partition's log to a consumer: encoded, validated  *)
(* and appended verbatim or re-encoded, rewritten by compaction, fetched   *)
(* as a run of bytes that may end in the middle of a batch, and decoded by *)
(* from_fetch_bytes, which forgives truncation and nothing else.           *)
(*                                                                         *)
(* Bytes are counted in units: the header is three, cut behind the leader  *)
(* epoch, behind the base sequence and at its end, so that a cut before,   *)
(* behind and after the magic byte differ; a record is one.  A checksum is *)
(* the value it covers.  Batches are not compressed.  The broker and the   *)
(* clients that call these functions are external.                         *)
(***************************************************************************)
EXTENDS Integers, Sequences, FiniteSets

CONSTANTS
  Value,           \* payloads of records
  Garbage,         \* a payload no producer wrote
  Time,            \* timestamps producers give, of 0..MaxI64
  Horizon,         \* delete horizons compaction stamps, of 0..MaxI64
  MaxI64,          \* the largest timestamp
  MaxRecords,      \* bound: records of a batch
  MaxBatches,      \* bound: batches a producer sends
  MaxWrites,       \* bound: batches sent and rewrites of batches together
  MaxFaults        \* bound: damaged or short answers and requests

ASSUME TimeAssumption ==
  MaxI64 \in Nat /\ Time \subseteq 0..MaxI64 /\ Horizon \subseteq 0..MaxI64

VARIABLES
  log,         \* the stored batches, as bytes
  request,     \* a produce request on its way: bytes, and what was meant
  response,    \* a fetch response on its way: batches and their units of it
  position,    \* the consumer's next offset
  consumed,    \* the records it has read
  appended,    \* history: the records accepted, by offset + 1
  removed,     \* history: the offsets compaction took away
  sends, compactions, faults

recordVars == <<log, request, response, position, consumed, appended, removed,
                sends, compactions, faults>>

MinI64 == -MaxI64 - 1

Saturated(t) == IF t < MinI64 THEN MinI64 ELSE IF t > MaxI64 THEN MaxI64 ELSE t

-----------------------------------------------------------------------------
(* A RecordBatch and its bytes *)

Header == 3

Crc32c(head, body) == <<head, body>>

\* encode_batch: the covered head and the records behind it, the checksum over
\* both, and the fields before the checksum, which it does not cover.
EncodeBatch(b) ==
  LET head == [horizon |-> b.horizon, lastDelta |-> b.lastDelta,
               time |-> b.time, count |-> Len(b.records)]
  IN [base |-> b.base, length |-> Len(b.records), magic |-> 2,
      crc |-> Crc32c(head, b.records), head |-> head, body |-> b.records]

\* The fields decode_with_policy returns.
DecodedBatch(w) ==
  [base |-> w.base, horizon |-> w.head.horizon, lastDelta |-> w.head.lastDelta,
   time |-> w.head.time, records |-> w.body]

\* Mutant: the checksum is not compared.
SoundUnchecked(w) ==
  w.magic = 2 /\ w.length = Len(w.body) /\ w.head.count = Len(w.body)

\* What decode_with_policy and validate_one_v2_batch with validate_records ask
\* of a batch whose bytes are all there.  A wrong length takes the checksum
\* over other bytes.
Sound(w) ==
  /\ w.magic = 2
  /\ w.length = Len(w.body)
  /\ w.crc = Crc32c(w.head, w.body)
  /\ w.head.count = Len(w.body)

\* The offset, timestamp and payload of a record as a consumer sees them.
RecordAt(w, k) ==
  [offset |-> w.base + w.body[k].offsetDelta,
   time |-> Saturated(w.head.time + w.body[k].timeDelta), value |-> w.body[k].value]

\* patch_base_offset_and_leader_epoch on the verbatim bytes.
Patched(w, base) == [w EXCEPT !.base = base]

\* with_delete_horizon: the horizon takes the place of the base timestamp and
\* the deltas are counted from it.
WithDeleteHorizon(b, h) ==
  [b EXCEPT !.horizon = TRUE, !.time = h,
            !.records = [k \in DOMAIN b.records |->
               [b.records[k] EXCEPT !.timeDelta =
                  Saturated(Saturated(b.time + b.records[k].timeDelta) - h)]]]

-----------------------------------------------------------------------------
(* The records field of a response: a sequence of batches, of the last of *)
(* which only some units may be there.                                    *)

Units(w) == Header + Len(w.body)

\* The units from batch i on.
Left(r, i) ==
  LET left[j \in 1..Len(r) + 1] == IF j > Len(r) THEN 0 ELSE r[j].units + left[j + 1]
  IN left[i]

\* decode_batch returns a batch.
DecodesBatch(r, i) == Left(r, i) >= Units(r[i].batch) /\ Sound(r[i].batch)

\* Mutant: a response that ends inside a batch is an error.
TooShortNever(r, i) == FALSE

\* decode_batch returns HeaderTooShort or BodyTooShort.
TooShort(r, i) ==
  \/ Left(r, i) < Header
  \/ /\ r[i].batch.magic = 2 /\ r[i].batch.length >= 0
     /\ Left(r, i) < Header + r[i].batch.length

\* looks_like_v2: the magic byte is there and is 2.
LooksLikeV2(r) == r # <<>> /\ Left(r, 1) > 1 /\ r[1].batch.magic = 2

\* from_fetch_bytes stops at the first batch it cannot decode.
StopsAt(r) ==
  CHOOSE i \in 1..Len(r) + 1 :
    /\ i <= Len(r) => ~DecodesBatch(r, i)
    /\ \A j \in 1..i - 1 : DecodesBatch(r, j)

\* from_fetch_bytes returns V2 with the batches before that one.
Forgiven(r) == LooksLikeV2(r) /\ (StopsAt(r) <= Len(r) => TooShort(r, StopsAt(r)))

\* from_fetch_bytes: what becomes of a response.
FromFetchBytes(r) ==
  IF ~LooksLikeV2(r) THEN "legacy" ELSE IF Forgiven(r) THEN "v2" ELSE "error"

-----------------------------------------------------------------------------
(* Producer, log, consumer *)

RecordInit ==
  /\ log = <<>> /\ request = {} /\ response = {}
  /\ position = 0 /\ consumed = <<>> /\ appended = <<>> /\ removed = {}
  /\ sends = 0 /\ compactions = 0 /\ faults = 0

\* A producer, external, encodes a batch whose timestamps count from the first.
Produce ==
  /\ request = {} /\ sends < MaxBatches /\ sends + compactions < MaxWrites
  /\ sends' = sends + 1
  /\ \E n \in 1..MaxRecords : \E meant \in [1..n -> [time : Time, value : Value]] :
       request' = {[meant |-> meant,
          wire |-> EncodeBatch(
            [base |-> 0, horizon |-> FALSE, lastDelta |-> n - 1, time |-> meant[1].time,
             records |-> [k \in 1..n |->
               [offsetDelta |-> k - 1, timeDelta |-> meant[k].time - meant[1].time,
                value |-> meant[k].value]]])]}
  /\ UNCHANGED <<log, response, position, consumed, appended, removed, compactions, faults>>

\* Bytes that changed on the way.  The base offset and the leader epoch lie
\* outside the checksum, so a response in which they changed is not told from
\* a good one (CRC_COVERAGE_START) and is left out.
Damaged(w) ==
  { [w EXCEPT !.magic = 3], [w EXCEPT !.length = @ + 1], [w EXCEPT !.length = @ - 1],
    [w EXCEPT !.crc = <<Garbage>>],
    [w EXCEPT !.head.lastDelta = @ + 1], [w EXCEPT !.head.count = @ + 1],
    [w EXCEPT !.body = [k \in DOMAIN @ |-> [@[k] EXCEPT !.value = Garbage]]] }
  \ {w}

\* A produce request is damaged, its base offset included.
DamageRequest ==
  /\ faults < MaxFaults /\ faults' = faults + 1
  /\ \E q \in request : \E w \in Damaged(q.wire) \cup {Patched(q.wire, 1)} :
       request' = {[q EXCEPT !.wire = w]}
  /\ UNCHANGED <<log, response, position, consumed, appended, removed, sends, compactions>>

Accept(q, stored) ==
  /\ Sound(q.wire)
  /\ log' = Append(log, stored)
  /\ appended' = appended \o
       [k \in DOMAIN q.meant |-> [offset |-> Len(appended) + k - 1,
                                  time |-> q.meant[k].time, value |-> q.meant[k].value]]
  /\ request' = {}
  /\ UNCHANGED <<response, position, consumed, removed, sends, compactions, faults>>

\* The fast path: the producer's bytes with the assigned offset patched in.
AppendVerbatim == \E q \in request : Accept(q, Patched(q.wire, Len(appended)))

\* The owned path: decoded, stamped and encoded again.
AppendDecoded ==
  \E q \in request :
    Accept(q, EncodeBatch([DecodedBatch(q.wire) EXCEPT !.base = Len(appended)]))

Reject ==
  /\ \E q \in request : ~Sound(q.wire)
  /\ request' = {}
  /\ UNCHANGED <<log, response, position, consumed, appended, removed, sends, compactions, faults>>

\* The positions in ascending order.
InOrder(positions) ==
  CHOOSE s \in [1..Cardinality(positions) -> positions] :
    \A j, k \in DOMAIN s : j < k => s[j] < s[k]

\* Compaction, external, rewrites a batch without some of its records and
\* under a delete horizon.
Compact ==
  /\ sends + compactions < MaxWrites /\ compactions' = compactions + 1
  /\ \E i \in DOMAIN log : \E gone \in SUBSET DOMAIN log[i].body : \E h \in Horizon :
       LET b     == DecodedBatch(log[i])
           order == InOrder(DOMAIN b.records \ gone)
           kept  == [b EXCEPT !.records = [k \in DOMAIN order |-> b.records[order[k]]]]
       IN /\ log' = [log EXCEPT ![i] = EncodeBatch(WithDeleteHorizon(kept, h))]
          /\ removed' = removed \cup {RecordAt(log[i], k).offset : k \in gone}
  /\ UNCHANGED <<request, response, position, consumed, appended, sends, faults>>

\* The batch a fetch at the consumer's position starts with.
FirstBatch ==
  CHOOSE i \in DOMAIN log :
    /\ log[i].base + log[i].head.lastDelta >= position
    /\ \A j \in 1..i - 1 : log[j].base + log[j].head.lastDelta < position

\* encode_to of the run of bytes from that batch to the given units of batch m.
Run(m, units) ==
  [k \in 1..m - FirstBatch + 1 |->
     LET w == log[FirstBatch + k - 1]
     IN [batch |-> w, units |-> IF k = m - FirstBatch + 1 THEN units ELSE Units(w)]]

CanFetch == response = {} /\ position < Len(appended)

\* A FileRegion: complete batches, and the last one clipped.
Fetch ==
  /\ CanFetch
  /\ \E m \in FirstBatch..Len(log) :
       \E u \in IF m = FirstBatch THEN {Units(log[m])} ELSE 1..Units(log[m]) :
         response' = {Run(m, u)}
  /\ UNCHANGED <<log, request, position, consumed, appended, removed, sends, compactions, faults>>

\* A response whose budget went to other partitions, or that was damaged.
FetchFaulty ==
  /\ CanFetch
  /\ faults < MaxFaults /\ faults' = faults + 1
  /\ \/ \E u \in 0..Units(log[FirstBatch]) - 1 :
          response' = {IF u = 0 THEN <<>> ELSE Run(FirstBatch, u)}
     \/ \E m \in FirstBatch..Len(log) :
          LET r == Run(m, Units(log[m]))
          IN \E k \in DOMAIN r : \E w \in Damaged(r[k].batch) :
               response' = {[r EXCEPT ![k].batch = w]}
  /\ UNCHANGED <<log, request, position, consumed, appended, removed, sends, compactions>>

\* The consumer reads the batches from_fetch_bytes returns and goes on behind
\* the last offset of the last one.
Consume ==
  \E r \in response :
    /\ FromFetchBytes(r) = "v2"
    /\ LET n == StopsAt(r) - 1
           read[i \in 0..n] ==
             IF i = 0 THEN consumed
             ELSE read[i - 1] \o [k \in DOMAIN r[i].batch.body |-> RecordAt(r[i].batch, k)]
       IN /\ consumed' = read[n]
          /\ position' = IF n = 0 THEN position
                         ELSE r[n].batch.base + r[n].batch.head.lastDelta + 1
    /\ response' = {}
    /\ UNCHANGED <<log, request, appended, removed, sends, compactions, faults>>

\* An error: the consumer asks again.
Fail ==
  /\ \E r \in response : FromFetchBytes(r) = "error"
  /\ response' = {}
  /\ UNCHANGED <<log, request, position, consumed, appended, removed, sends, compactions, faults>>

\* Bytes taken for a legacy message set, in which the consumer finds no record
\* (external): it asks again as well.
TakeLegacy ==
  /\ \E r \in response : FromFetchBytes(r) = "legacy"
  /\ response' = {}
  /\ UNCHANGED <<log, request, position, consumed, appended, removed, sends, compactions, faults>>

RecordNext ==
  \/ Produce \/ DamageRequest \/ AppendVerbatim \/ AppendDecoded \/ Reject \/ Compact
  \/ Fetch \/ FetchFaulty \/ Consume \/ Fail \/ TakeLegacy

\* The consumer's loop: it polls and takes the answer.
ConsumerStep == Fetch \/ Consume \/ Fail \/ TakeLegacy

\* A consumer keeps running; faults are bounded.
RecordFairness == WF_recordVars(ConsumerStep)

RecordSpec == RecordInit /\ [][RecordNext]_recordVars /\ RecordFairness

-----------------------------------------------------------------------------
(* Properties *)

\* What a consumer has read is what the producers meant, with the offsets the
\* log gave it, in order and nothing left out but what compaction removed:
\* patched, re-encoded, rewritten under a delete horizon, clipped, damaged and
\* fetched while the log was rewritten.
ReadAsWritten ==
  /\ \A k \in DOMAIN consumed : consumed[k] = appended[consumed[k].offset + 1]
  /\ \A j, k \in DOMAIN consumed : j < k => consumed[j].offset < consumed[k].offset
  /\ \A o \in 0..position - 1 : o \in removed \/ \E k \in DOMAIN consumed : consumed[k].offset = o

\* Every offset is eventually behind the consumer, also where a response ended
\* inside a batch, or compaction left a batch without its last record or with
\* none (from_fetch_bytes: "stops at the first incomplete batch and re-fetches").
EverythingRead ==
  \A o \in 0..MaxBatches * MaxRecords - 1 : o < Len(appended) ~> o < position
=============================================================================
