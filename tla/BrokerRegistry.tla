--------------------------- MODULE BrokerRegistry ---------------------------
(***************************************************************************)
(* The registrations of the metadata image (crates/metadata/src/image.rs,  *)
(* records.rs): brokers with their epochs, controllers, and the producer   *)
(* id blocks allocated to brokers, driven as MetadataLog says.  A broker   *)
(* epoch is the log offset at which the leader appended the registration.  *)
(* Endpoints, racks and feature ranges are carried unread and left out.    *)
(***************************************************************************)
EXTENDS Integers, Sequences, FiniteSets, SequencesExt, MetadataMaps

CONSTANTS
  Broker,      \* node ids
  Dirs,        \* log directory ids
  Kinds,       \* the kinds of request the handlers make
  MaxAsked, MaxPending, MaxLag

VARIABLES image, replayed, unapplied, pending, asked, committed

NewImage ==
  [ brokers     |-> EmptyMap,   \* node -> registration
    controllers |-> EmptyMap,   \* node -> incarnation
    producers   |-> None ]      \* Option of [broker, epoch, next]

BrokerEpoch(img, b) ==
  IF b \in DOMAIN img.brokers THEN Some(img.brokers[b].epoch) ELSE None

NextProducerId(img) ==
  IF img.producers = None THEN 0 ELSE (CHOOSE p \in img.producers : TRUE).next

-----------------------------------------------------------------------------
(* apply *)

Fenced(change, fenced) ==
  \/ change = "fence"
  \/ change = "none" /\ fenced

\* An empty directory list and an absent cordoned list mean no change.
AppliedTo(rec, reg) ==
  [reg EXCEPT !.fenced = Fenced(rec.fencing, reg.fenced),
              !.shutdown = reg.shutdown \/ rec.shutdown,
              !.dirs = IF rec.dirs = {} THEN reg.dirs ELSE rec.dirs,
              !.cordoned = IF rec.cordoned = None THEN reg.cordoned ELSE rec.cordoned]

\* Mutant: any registration of the broker will do.
AtEpochRegistered(img, rec) == rec.broker \in DOMAIN img.brokers

\* The broker is registered at the epoch of the record.
AtEpoch(img, rec) == BrokerEpoch(img, rec.broker) = Some(rec.epoch)

ApplyRegistrationChange(img, rec) ==
  IF AtEpoch(img, rec)
    THEN [img EXCEPT !.brokers[rec.broker] = AppliedTo(rec, img.brokers[rec.broker])]
    ELSE img

ApplyUnregisterBroker(img, rec) ==
  IF AtEpoch(img, rec)
    THEN [img EXCEPT !.brokers = Drop(img.brokers, {rec.broker})]
    ELSE img

\* Mutant: the last allocation in the log wins.
AdvancesLastWins(img, rec) == TRUE

Advances(img, rec) == rec.next > NextProducerId(img)

\* An allocation that does not advance the next id is logged and ignored.
ApplyProducerIds(img, rec) ==
  IF Advances(img, rec)
    THEN [img EXCEPT !.producers =
            Some([broker |-> rec.broker, epoch |-> rec.epoch, next |-> rec.next])]
    ELSE img

Apply(img, rec) ==
  CASE rec.kind = "Registration"           ->
         [img EXCEPT !.brokers = Put(img.brokers, rec.broker, rec.registration)]
    [] rec.kind = "RegistrationChange"     -> ApplyRegistrationChange(img, rec)
    [] rec.kind = "UnregisterBroker"       -> ApplyUnregisterBroker(img, rec)
    [] rec.kind = "ControllerRegistration" ->
         [img EXCEPT !.controllers = Put(img.controllers, rec.controller, rec.incarnation)]
    [] rec.kind = "UnregisterController"   ->
         [img EXCEPT !.controllers = Drop(img.controllers, {rec.controller})]
    [] rec.kind = "ProducerIds"            -> ApplyProducerIds(img, rec)

-----------------------------------------------------------------------------
(* validate *)

ValidProducerIds(img, rec) == Advances(img, rec) /\ AtEpoch(img, rec)

Valid(img, rec) ==
  \/ rec.kind \in {"Registration", "ControllerRegistration"}
  \/ rec.kind \in {"RegistrationChange", "UnregisterBroker"} /\ AtEpoch(img, rec)
  \/ rec.kind = "UnregisterController" /\ rec.controller \in DOMAIN img.controllers
  \/ rec.kind = "ProducerIds" /\ ValidProducerIds(img, rec)

-----------------------------------------------------------------------------
(* to_records *)

ProducerRecords(img) ==
  {[kind |-> "ProducerIds", broker |-> p.broker, epoch |-> p.epoch, next |-> p.next] :
     p \in img.producers}

RegistrationRecords(img) ==
  {[kind |-> "Registration", broker |-> b, registration |-> img.brokers[b]] :
     b \in DOMAIN img.brokers}

ToRecords(img) ==
  << RegistrationRecords(img),
     {[kind |-> "ControllerRegistration", controller |-> c,
       incarnation |-> img.controllers[c]] : c \in DOMAIN img.controllers},
     ProducerRecords(img) >>

-----------------------------------------------------------------------------
(* The records the request handlers build (outside this repository).       *)

\* A new registration is fenced and carries epoch 0 until it is appended.
Register ==
  {[kind |-> "Registration", broker |-> b,
    registration |-> [epoch |-> 0, fenced |-> TRUE, shutdown |-> FALSE,
                      dirs |-> dirs, cordoned |-> None]] :
     b \in Broker, dirs \in SUBSET Dirs}

Heartbeat(img) ==
  {[kind |-> "RegistrationChange", broker |-> b, epoch |-> img.brokers[b].epoch,
    fencing |-> fencing, shutdown |-> shutdown, dirs |-> dirs, cordoned |-> cordoned] :
     b \in DOMAIN img.brokers, fencing \in {"unfence", "none", "fence"},
     shutdown \in BOOLEAN, dirs \in SUBSET Dirs, cordoned \in {None, Some({})}}

UnregisterBroker(img) ==
  {[kind |-> "UnregisterBroker", broker |-> b, epoch |-> img.brokers[b].epoch] :
     b \in DOMAIN img.brokers}

\* A controller process registers its incarnation.
RegisterController(fresh) ==
  {[kind |-> "ControllerRegistration", controller |-> c, incarnation |-> fresh] :
     c \in Broker}

UnregisterController(img) ==
  {[kind |-> "UnregisterController", controller |-> c] : c \in DOMAIN img.controllers}

\* One block, counted as one id, after the last allocated one.
AllocateProducerIds(img) ==
  {[kind |-> "ProducerIds", broker |-> b, epoch |-> img.brokers[b].epoch,
    next |-> NextProducerId(img) + 1] : b \in DOMAIN img.brokers}

Requests(img, fresh) ==
  {rec \in Register \cup Heartbeat(img) \cup UnregisterBroker(img)
           \cup RegisterController(fresh) \cup UnregisterController(img)
           \cup AllocateProducerIds(img) :
     rec.kind \in Kinds}

\* The leader stamps the epoch of a registration at append time.
Stamped(rec, offset) ==
  IF rec.kind = "Registration" THEN [rec EXCEPT !.registration.epoch = offset] ELSE rec

INSTANCE MetadataLog WITH Empty <- NewImage

-----------------------------------------------------------------------------
(* Properties *)

\* A request that a handler built before a broker registered never changes or
\* removes that registration, even when the validating image had not yet
\* applied it: apply itself compares the epochs.
NewRegistrationUntouched ==
  \A b \in DOMAIN image.brokers :
    \/ b \in DOMAIN image'.brokers /\ image'.brokers[b] = image.brokers[b]
    \/ Head(unapplied).record.kind = "Registration"
    \/ Head(unapplied).seen > image.brokers[b].epoch

\* Two requests that read the same next producer id never both get a block,
\* although both may be committed: every allocation that takes effect starts
\* at the id the one before it left, and a restart does not give ids back.
BlocksDisjoint ==
  image'.producers # image.producers =>
    NextProducerId(image') = NextProducerId(image) + 1

\* A replica that restarted from snapshots holds the image of one that
\* replayed every record.
RestartedAgrees == image = replayed
=============================================================================
