--------------------------- MODULE HlcClockProofs ---------------------------
(***************************************************************************)
(* The guarantees of HlcClock for every number of nodes and threads, every *)
(* behaviour of the physical clocks and every maximum offset.              *)
(***************************************************************************)
EXTENDS HlcClock, SequenceTheorems, TLAPS

\* What the assumptions say of the limits.
LEMMA WallFacts ==
  /\ Wall \subseteq Int
  /\ 0 \in Wall
  /\ MinWall \in Wall
  /\ NoStamp \in [wall : Wall, counter : Counter, node : Int]
BY ClockAssumption DEF Wall, NoStamp, Counter

\* The fields of a stamp are integers.
LEMMA StampFields ==
  ASSUME NEW s \in Stamp
  PROVE  s.wall \in Int /\ s.counter \in Int /\ s.node \in Int
<1>1. s.wall \in Wall /\ s.counter \in Counter /\ s.node \in Nat
  BY DEF Stamp
<1> QED BY <1>1, ClockAssumption DEF Wall, Counter

\* The time a State holds is a pair of integers.
LEMMA StateFields ==
  ASSUME NEW s \in State
  PROVE  s.wall \in Int /\ s.counter \in Int
<1>1. s.wall \in Wall /\ s.counter \in Counter
  BY DEF State
<1> QED BY <1>1, ClockAssumption DEF Wall, Counter

\* What a clock minted is below every stamp with a later time.
LEMMA BelowNewTime ==
  ASSUME NEW s \in Stamp, NEW old \in State, NEW new \in State, NEW n,
         NotAfter(s, old),
         \/ old.wall < new.wall
         \/ old.wall = new.wall /\ old.counter < new.counter
  PROVE  Less(s, [wall |-> new.wall, counter |-> new.counter, node |-> n])
<1>1. /\ s.wall \in Int /\ s.counter \in Int
      /\ old.wall \in Int /\ old.counter \in Int
      /\ new.wall \in Int /\ new.counter \in Int
  BY StampFields, StateFields
<1>2. s.wall < new.wall \/ (s.wall = new.wall /\ s.counter < new.counter)
  BY <1>1 DEF NotAfter
<1> QED BY <1>2 DEF Less

\* The order of stamps is transitive.
LEMMA LessTransitive ==
  ASSUME NEW a \in Stamp, NEW b \in Stamp, NEW c \in Stamp, Less(a, b), Less(b, c)
  PROVE  Less(a, c)
<1>1. /\ a.wall \in Int /\ a.counter \in Int /\ a.node \in Int
      /\ b.wall \in Int /\ b.counter \in Int /\ b.node \in Int
      /\ c.wall \in Int /\ c.counter \in Int /\ c.node \in Int
  BY StampFields
<1> QED BY <1>1 DEF Less

\* saturating_sub stays in i64.
LEMMA SaturatingSubType ==
  ASSUME NEW a \in Wall, NEW b \in Wall
  PROVE  SaturatingSub(a, b) \in Wall
BY ClockAssumption DEF SaturatingSub, Wall

\* saturating_sub never hides a lead over the fence, which lies below i64::MAX.
LEMMA AdmittedLead ==
  ASSUME NEW a \in Wall, NEW b \in Wall, SaturatingSub(a, b) <= MaxOffset
  PROVE  a <= b + MaxOffset
BY ClockAssumption DEF SaturatingSub, Wall

\* A peer ahead is measured as ahead, saturated or not.
LEMMA PositiveLead ==
  ASSUME NEW a \in Wall, NEW b \in Wall, a > b
  PROVE  SaturatingSub(a, b) > 0
BY ClockAssumption DEF SaturatingSub, Wall

\* now(): the new time is after the old one, whatever the reading is.
LEMMA NowAdvances ==
  ASSUME NEW state \in State, NEW physical \in Wall,
         CanCount(NowBase(state, physical))
  PROVE  LET w == NowWall(state, physical)
             c == NowBase(state, physical) + 1
         IN  /\ w \in Wall /\ c \in Counter
             /\ w = state.wall \/ w = physical
             /\ state.wall < w \/ (state.wall = w /\ state.counter < c)
BY ClockAssumption
   DEF State, CanCount, NowBase, NowWall, Larger, Wall, Counter

\* observe(): the new time is after the old one and after the peer.
LEMMA ObserveAdvances ==
  ASSUME NEW state \in State, NEW physical \in Wall, NEW peer \in Stamp,
         CanCount(ObserveBase(state, physical, peer))
  PROVE  LET w == ObserveWall(state, physical, peer)
             c == ObserveBase(state, physical, peer) + 1
         IN  /\ w \in Wall /\ c \in Counter
             /\ w = state.wall \/ w = physical \/ w = peer.wall
             /\ state.wall < w \/ (state.wall = w /\ state.counter < c)
             /\ peer.wall < w \/ (peer.wall = w /\ peer.counter < c)
BY ClockAssumption
   DEF State, Stamp, CanCount, ObserveBase, ObserveWall, Larger, Wall, Counter

-----------------------------------------------------------------------------
\* A new clock satisfies the invariant.
LEMMA InitClock == Init => ClockInvariant
<1> SUFFICES ASSUME Init PROVE ClockInvariant
  OBVIOUS
<1> USE ClockAssumption, WallFacts DEF Init, NewState
<1>0. ASSUME NEW n \in Node
      PROVE  /\ pt[n] \in Wall /\ pt[n] \in Int
             /\ clock[n] = NewState(pt[n])
             /\ topPt[n] = pt[n]
  OBVIOUS
<1>1. TypeOK
  <2>1. clock \in [Node -> State]
    <3>1. ASSUME NEW n \in Node PROVE NewState(pt[n]) \in State
      BY <1>0 DEF State, Counter
    <3> QED BY <3>1
  <2>2. call \in [Node -> [Thread -> Call]]
    BY DEF Call, NoCall
  <2>3. minted \in [Node -> Seq(Event)]
    OBVIOUS
  <2> QED BY <2>1, <2>2, <2>3 DEF TypeOK
<1>2. ClockCoversMinted /\ StampsStrictlyIncrease /\ CausalOrder
  BY DEF ClockCoversMinted, StampsStrictlyIncrease, CausalOrder
<1>3. CallsCarryReadings
  BY DEF CallsCarryReadings, NoCall
<1>4. FenceContainment /\ SkewEvidence /\ ReadingsCovered
  BY <1>0 DEF FenceContainment, SkewEvidence, ReadingsCovered
<1> QED BY <1>1, <1>2, <1>3, <1>4 DEF ClockInvariant

\* A critical section that returns a stamp keeps the invariant as soon as the
\* new time is after the old one and after the cause, and inside the fence.
LEMMA MintKeepsInvariant ==
  ASSUME ClockInvariant, NEW n \in Node, NEW t \in Thread,
         NEW state \in State, NEW cause \in Stamp \cup {NoStamp},
         Mint(n, state, cause), Return(n, t),
         \/ clock[n].wall < state.wall
         \/ clock[n].wall = state.wall /\ clock[n].counter < state.counter,
         cause # NoStamp =>
           \/ cause.wall < state.wall
           \/ cause.wall = state.wall /\ cause.counter < state.counter,
         state.wall <= topPt[n] + MaxOffset,
         state.refusals > 0 <=> state.maxPeerAhead > MaxOffset,
         state.peerAdvances > 0 => state.maxPeerAhead > 0
  PROVE  ClockInvariant'
<1> USE DEF ClockInvariant
<1> DEFINE stamp == [wall |-> state.wall, counter |-> state.counter, node |-> n]
           event == [stamp |-> stamp, cause |-> cause]
<1>s. stamp \in Stamp /\ event \in Event
  BY ClockAssumption DEF Stamp, Event, State
<1>1. /\ clock' = [clock EXCEPT ![n] = state]
      /\ minted' = [minted EXCEPT ![n] = Append(minted[n], event)]
      /\ UNCHANGED <<pt, report, calls, topPt>>
  BY DEF Mint
<1>2. TypeOK'
  <2>1. /\ clock' \in [Node -> State]
        /\ minted' \in [Node -> Seq(Event)]
    BY <1>1, <1>s DEF TypeOK
  <2>2. records' \subseteq Stamp /\ topLead' \in [Node -> Int]
    <3>1. ASSUME NEW m \in Node
          PROVE  /\ topLead[m] \in Int /\ pt[m] \in Int
                 /\ state.wall - pt[m] \in Int
      <4>1. topLead[m] \in Int /\ pt[m] \in Wall
        BY ClockAssumption DEF TypeOK
      <4>2. state.wall \in Int
        BY StateFields
      <4>3. pt[m] \in Int
        BY <4>1, ClockAssumption DEF Wall
      <4> QED BY <4>1, <4>2, <4>3
    <3>2. topLead' = [topLead EXCEPT ![n] = Larger(@, state.wall - pt[n])]
      BY DEF Mint
    <3>3. topLead' \in [Node -> Int]
      BY <3>1, <3>2 DEF TypeOK, Larger
    <3>4. records' \subseteq Stamp
      BY <1>s DEF Mint, TypeOK
    <3> QED BY <3>3, <3>4
  <2>3. call' \in [Node -> [Thread -> Call]]
    BY WallFacts DEF Return, NoCall, Call, TypeOK
  <2> QED BY <2>1, <2>2, <2>3, <1>1 DEF TypeOK
<1>3. ASSUME NEW m \in Node
      PROVE  \/ /\ minted'[m] = minted[m] /\ clock'[m] = clock[m]
                /\ m # n
             \/ /\ m = n /\ clock'[m] = state
                /\ DOMAIN minted'[m] = 1 .. (Len(minted[m]) + 1)
                /\ DOMAIN minted[m] = 1 .. Len(minted[m])
                /\ Len(minted[m]) \in Nat
                /\ minted'[m][Len(minted[m]) + 1] = event
                /\ \A i \in 1 .. Len(minted[m]) : minted'[m][i] = minted[m][i]
  BY <1>1, <1>3, <1>s DEF TypeOK
<1>t. ASSUME NEW m \in Node, NEW i \in DOMAIN minted[m]
      PROVE  /\ minted[m][i].stamp \in Stamp
             /\ minted[m][i].cause \in Stamp \cup {NoStamp}
             /\ minted[m][i].stamp.node = m
             /\ NotAfter(minted[m][i].stamp, clock[m])
  <2>1. minted[m] \in Seq(Event)
    BY DEF TypeOK
  <2>2. minted[m][i] \in Event
    BY <2>1, <1>t
  <2> QED BY <2>2, <1>t DEF Event, ClockCoversMinted
<1>u. ASSUME NEW m \in Node
      PROVE  /\ clock[m].wall \in Int /\ clock[m].counter \in Int
             /\ state.wall \in Int /\ state.counter \in Int
  <2>1. clock[m] \in State
    BY DEF TypeOK
  <2> QED BY <2>1, StateFields
<1>v. \A s \in Stamp : s.wall \in Int /\ s.counter \in Int /\ s.node \in Int
  BY StampFields
<1>w. clock[n] \in State /\ state \in State
  BY DEF TypeOK
<1>4. ClockCoversMinted'
  <2> SUFFICES ASSUME NEW m \in Node, NEW i \in DOMAIN minted'[m]
               PROVE  /\ minted'[m][i].stamp.node = m
                      /\ NotAfter(minted'[m][i].stamp, clock'[m])
    BY DEF ClockCoversMinted, NotAfter
  <2> QED
    <3>1. CASE m # n
      BY <1>3, <1>t, <3>1
    <3>2. CASE m = n /\ i = Len(minted[m]) + 1
      BY <1>3, <1>u, <3>2 DEF NotAfter
    <3>3. CASE m = n /\ i \in 1 .. Len(minted[m])
      <4>1. i \in DOMAIN minted[m] /\ minted'[m][i] = minted[m][i]
        BY <1>3, <3>3
      <4>2. /\ minted[m][i].stamp \in Stamp /\ minted[m][i].stamp.node = m
            /\ NotAfter(minted[m][i].stamp, clock[n]) /\ clock'[m] = state
        BY <1>3, <1>t, <4>1, <3>3
      <4> QED BY <1>u, <1>v, <4>1, <4>2 DEF NotAfter
    <3> QED BY <1>3, <3>1, <3>2, <3>3
<1>5. StampsStrictlyIncrease'
  <2> SUFFICES ASSUME NEW m \in Node, NEW i \in DOMAIN minted'[m],
                      NEW j \in DOMAIN minted'[m], i < j
               PROVE  Less(minted'[m][i].stamp, minted'[m][j].stamp)
    BY DEF StampsStrictlyIncrease, Less
  <2> QED
    <3>1. CASE j \in DOMAIN minted[m] /\ i \in DOMAIN minted[m]
               /\ minted'[m][i] = minted[m][i] /\ minted'[m][j] = minted[m][j]
      BY <3>1 DEF StampsStrictlyIncrease
    <3>2. CASE m = n /\ j = Len(minted[m]) + 1
      <4>1. i \in DOMAIN minted[m] /\ minted'[m][i] = minted[m][i]
        BY <1>3, <3>2
      <4>2. minted'[m][j].stamp = stamp
        BY <1>3, <3>2
      <4>3. /\ minted[m][i].stamp \in Stamp
            /\ NotAfter(minted[m][i].stamp, clock[n])
        BY <1>t, <4>1, <3>2
      <4>4. Less(minted[m][i].stamp, stamp)
        BY <1>w, <4>3, BelowNewTime
      <4> QED BY <4>1, <4>2, <4>4
    <3>3. CASE m # n
      BY <1>3, <3>1, <3>3
    <3>4. CASE m = n /\ j \in 1 .. Len(minted[m])
      <4>1. i \in 1 .. Len(minted[m])
        BY <1>3, <3>4
      <4> QED BY <1>3, <3>1, <3>4, <4>1
    <3> QED BY <1>3, <3>2, <3>3, <3>4
<1>6. CausalOrder'
  <2> SUFFICES ASSUME NEW m \in Node, NEW i \in DOMAIN minted'[m],
                      NEW j \in DOMAIN minted'[m], i <= j,
                      minted'[m][i].cause # NoStamp
               PROVE  Less(minted'[m][i].cause, minted'[m][j].stamp)
    BY DEF CausalOrder, Less, NoStamp
  <2> QED
    <3>1. CASE j \in DOMAIN minted[m] /\ i \in DOMAIN minted[m]
               /\ minted'[m][i] = minted[m][i] /\ minted'[m][j] = minted[m][j]
      BY <3>1 DEF CausalOrder
    <3>2. CASE m = n /\ j = Len(minted[m]) + 1 /\ i = j
      <4>1. minted'[m][j].stamp = stamp /\ minted'[m][i].cause = cause
        BY <1>3, <3>2
      <4> QED BY <1>u, <1>v, <4>1 DEF Less
    <3>3. CASE m = n /\ j = Len(minted[m]) + 1 /\ i < j
      <4>1. i \in DOMAIN minted[m] /\ minted'[m][i] = minted[m][i]
        BY <1>3, <3>3
      <4>2. minted'[m][j].stamp = stamp
        BY <1>3, <3>3
      <4>3. Less(minted[m][i].cause, minted[m][i].stamp)
        <5>1. minted[m][i].cause # NoStamp
          BY <4>1
        <5>2. i <= i
          BY <1>3, <3>3
        <5> QED BY <5>1, <5>2, <4>1 DEF CausalOrder
      <4>4. minted[m][i].cause \in Stamp
        BY <1>t, <4>1
      <4>5. /\ minted[m][i].stamp \in Stamp
            /\ NotAfter(minted[m][i].stamp, clock[n])
        BY <1>t, <4>1, <3>3
      <4>6. Less(minted[m][i].stamp, stamp)
        BY <1>w, <4>5, BelowNewTime
      <4>7. stamp \in Stamp
        BY <1>w, ClockAssumption DEF State, Stamp
      <4>8. Less(minted[m][i].cause, stamp)
        <5> HIDE DEF stamp
        <5> QED BY <4>3, <4>4, <4>5, <4>6, <4>7, LessTransitive
      <4> QED BY <4>1, <4>2, <4>8
    <3>4. CASE m # n
      BY <1>3, <3>1, <3>4
    <3>5. CASE m = n /\ j \in 1 .. Len(minted[m])
      <4>1. i \in 1 .. Len(minted[m])
        BY <1>3, <3>5
      <4> QED BY <1>3, <3>1, <3>5, <4>1
    <3> QED BY <1>3, <3>2, <3>3, <3>4, <3>5
<1>7. CallsCarryReadings'
  BY <1>1 DEF CallsCarryReadings, Return, NoCall, TypeOK
<1>8. FenceContainment' /\ SkewEvidence' /\ ReadingsCovered'
  BY <1>1 DEF FenceContainment, SkewEvidence, ReadingsCovered, TypeOK
<1> QED BY <1>2, <1>4, <1>5, <1>6, <1>7, <1>8

-----------------------------------------------------------------------------
\* The steps of the specification, one after the other.

\* The time of the clock, and any time inside the fence, is inside the fence.
LEMMA FenceKept ==
  ASSUME ClockInvariant, NEW n \in Node, NEW w \in Wall,
         w = clock[n].wall \/ w <= topPt[n] + MaxOffset
  PROVE  w <= topPt[n] + MaxOffset
BY DEF ClockInvariant, FenceContainment

\* now() that returns a stamp keeps the invariant.
LEMMA NowStep ==
  ASSUME ClockInvariant, NEW n \in Node, NEW t \in Thread, Now(n, t)
  PROVE  ClockInvariant'
<1> DEFINE state == clock[n]
           physical == call[n][t].physical
           new == [state EXCEPT !.wall = NowWall(state, physical),
                                !.counter = NowBase(state, physical) + 1]
<1>1. /\ state \in State /\ physical \in Wall
      /\ physical <= topPt[n] /\ topPt[n] \in Wall
  BY ClockAssumption
     DEF ClockInvariant, TypeOK, CallsCarryReadings, Call, Now
<1>2. CanCount(NowBase(state, physical))
  BY DEF Now
<1>3. /\ NowWall(state, physical) \in Wall
      /\ NowBase(state, physical) + 1 \in Counter
      /\ NowWall(state, physical) = state.wall
           \/ NowWall(state, physical) = physical
      /\ \/ state.wall < NowWall(state, physical)
         \/ /\ state.wall = NowWall(state, physical)
            /\ state.counter < NowBase(state, physical) + 1
  BY <1>1, <1>2, NowAdvances
<1>4. new \in State
  BY <1>1, <1>3 DEF State
<1>5. /\ new.wall = NowWall(state, physical)
      /\ new.counter = NowBase(state, physical) + 1
      /\ new.refusals = state.refusals
      /\ new.peerAdvances = state.peerAdvances
      /\ new.maxPeerAhead = state.maxPeerAhead
  BY <1>1 DEF State
<1>6. new.wall <= topPt[n] + MaxOffset
  <2>1. physical <= topPt[n] + MaxOffset
    BY <1>1, ClockAssumption DEF Wall
  <2> QED BY <2>1, <1>3, <1>5, FenceKept
<1>7. /\ new.refusals > 0 <=> new.maxPeerAhead > MaxOffset
      /\ new.peerAdvances > 0 => new.maxPeerAhead > 0
  BY <1>5 DEF ClockInvariant, SkewEvidence
<1>8. Mint(n, new, NoStamp) /\ Return(n, t)
  BY DEF Now
<1> HIDE DEF new, state, physical
<1> QED
  BY <1>1, <1>3, <1>4, <1>5, <1>6, <1>7, <1>8, MintKeepsInvariant DEF state

\* observe() that returns a stamp keeps the invariant.
LEMMA ObserveStep ==
  ASSUME ClockInvariant, NEW n \in Node, NEW t \in Thread, Observe(n, t)
  PROVE  ClockInvariant'
<1> DEFINE c == call[n][t]
           state == Measured(clock[n], c)
           w == ObserveWall(state, c.physical, c.peer)
           k == ObserveBase(state, c.physical, c.peer) + 1
           pulls == c.peer.wall > state.wall /\ c.peer.wall > c.physical
           new == [state EXCEPT !.wall = w, !.counter = k,
                                !.peerAdvances = IF pulls THEN @ + 1 ELSE @]
<1>1. /\ clock[n] \in State /\ c.physical \in Wall /\ c.peer \in Stamp
      /\ c.physical <= topPt[n] /\ topPt[n] \in Wall /\ c.peer.wall \in Wall
  BY ClockAssumption
     DEF ClockInvariant, TypeOK, CallsCarryReadings, Call, Observe, Stamp
<1>2. Ahead(c) \in Wall /\ Ahead(c) \in Int
  BY <1>1, SaturatingSubType, WallFacts DEF Ahead
<1>3. /\ state \in State
      /\ state.wall = clock[n].wall /\ state.counter = clock[n].counter
      /\ state.refusals = clock[n].refusals
      /\ state.peerAdvances = clock[n].peerAdvances
      /\ state.maxPeerAhead = Larger(clock[n].maxPeerAhead, Ahead(c))
  BY <1>1, <1>2 DEF Measured, State, Larger
<1>4. CanCount(ObserveBase(state, c.physical, c.peer)) /\ Ahead(c) <= MaxOffset
  BY DEF Observe
<1>5. /\ w \in Wall /\ k \in Counter
      /\ w = state.wall \/ w = c.physical \/ w = c.peer.wall
      /\ state.wall < w \/ (state.wall = w /\ state.counter < k)
      /\ c.peer.wall < w \/ (c.peer.wall = w /\ c.peer.counter < k)
  BY <1>1, <1>3, <1>4, ObserveAdvances
<1>6. new \in State
  <2>1. (IF pulls THEN state.peerAdvances + 1 ELSE state.peerAdvances) \in Nat
    BY <1>3 DEF State
  <2> HIDE DEF pulls, state, w, k
  <2> QED BY <2>1, <1>3, <1>5 DEF State
<1>7. /\ new.wall = w /\ new.counter = k
      /\ new.refusals = state.refusals
      /\ new.peerAdvances = IF pulls THEN state.peerAdvances + 1
                                     ELSE state.peerAdvances
      /\ new.maxPeerAhead = state.maxPeerAhead
  BY <1>3 DEF State
<1>8. new.wall <= topPt[n] + MaxOffset
  <2>1. c.peer.wall <= c.physical + MaxOffset
    BY <1>1, <1>4, AdmittedLead DEF Ahead
  <2>2. /\ c.peer.wall <= topPt[n] + MaxOffset
        /\ c.physical <= topPt[n] + MaxOffset
    BY <1>1, <2>1, ClockAssumption DEF Wall
  <2> QED BY <2>2, <1>3, <1>5, <1>7, FenceKept
<1>9. /\ new.refusals > 0 <=> new.maxPeerAhead > MaxOffset
      /\ new.peerAdvances > 0 => new.maxPeerAhead > 0
  <2>1. pulls => Ahead(c) > 0
    BY <1>1, PositiveLead DEF Ahead
  <2>2. /\ clock[n].refusals > 0 <=> clock[n].maxPeerAhead > MaxOffset
        /\ clock[n].peerAdvances > 0 => clock[n].maxPeerAhead > 0
    BY DEF ClockInvariant, SkewEvidence
  <2>3. clock[n].maxPeerAhead \in Int /\ clock[n].peerAdvances \in Nat
    BY <1>1, WallFacts DEF State
  <2> HIDE DEF new, pulls, c, state
  <2> QED
    BY <2>1, <2>2, <2>3, <1>2, <1>3, <1>4, <1>7, ClockAssumption DEF Larger
<1>10. Mint(n, new, c.peer) /\ Return(n, t)
  BY DEF Observe
<1> HIDE DEF new, state, c, w, k
<1> QED
  BY <1>1, <1>3, <1>5, <1>6, <1>7, <1>8, <1>9, <1>10, MintKeepsInvariant

\* The steps that mint nothing: a stale reading, a refusal, an overflow.

\* A return that mints nothing keeps the invariant.
LEMMA QuietStep ==
  ASSUME ClockInvariant, NEW n \in Node, NEW t \in Thread, Return(n, t),
         UNCHANGED <<pt, records, minted, calls, topPt, topLead>>,
         report' \in [Node -> Wall],
         NEW state \in State, clock' = [clock EXCEPT ![n] = state],
         state.wall = clock[n].wall, state.counter = clock[n].counter,
         state.refusals > 0 <=> state.maxPeerAhead > MaxOffset,
         state.peerAdvances > 0 => state.maxPeerAhead > 0
  PROVE  ClockInvariant'
<1> USE DEF ClockInvariant
<1>1. TypeOK'
  <2>1. call' \in [Node -> [Thread -> Call]]
    BY WallFacts DEF Return, NoCall, Call, TypeOK
  <2> QED BY <2>1 DEF TypeOK
<1>2. \A m \in Node : /\ clock'[m].wall = clock[m].wall
                       /\ clock'[m].counter = clock[m].counter
  BY DEF TypeOK
<1>3. ClockCoversMinted'
  BY <1>2 DEF ClockCoversMinted, NotAfter
<1>4. CallsCarryReadings'
  BY DEF CallsCarryReadings, Return, NoCall, TypeOK
<1>5. StampsStrictlyIncrease' /\ CausalOrder'
  BY DEF StampsStrictlyIncrease, CausalOrder
<1>6. FenceContainment' /\ ReadingsCovered'
  BY <1>2 DEF FenceContainment, ReadingsCovered
<1>7. SkewEvidence'
  BY DEF SkewEvidence, TypeOK
<1> QED BY <1>1, <1>3, <1>4, <1>5, <1>6, <1>7

\* The error returns of now() and observe() keep the invariant.
LEMMA ErrorStep ==
  ASSUME ClockInvariant, NEW n \in Node, NEW t \in Thread,
         NowOverflows(n, t) \/ ObserveRefuses(n, t) \/ ObserveOverflows(n, t)
  PROVE  ClockInvariant'
<1>0. clock[n] \in State /\ clock \in [Node -> State] /\ report \in [Node -> Wall]
  BY DEF ClockInvariant, TypeOK
<1>e. /\ clock[n].refusals > 0 <=> clock[n].maxPeerAhead > MaxOffset
      /\ clock[n].peerAdvances > 0 => clock[n].maxPeerAhead > 0
  BY DEF ClockInvariant, SkewEvidence
<1>1. CASE NowOverflows(n, t)
  <2>1. clock' = [clock EXCEPT ![n] = clock[n]]
    BY <1>0, <1>1 DEF NowOverflows
  <2> QED BY <1>0, <1>e, <1>1, <2>1, QuietStep DEF NowOverflows
<1> DEFINE c == call[n][t]
           state == Measured(clock[n], c)
<1>2. CASE ObserveRefuses(n, t) \/ ObserveOverflows(n, t)
  <2>1. c.physical \in Wall /\ c.peer \in Stamp /\ c.peer.wall \in Wall
    BY <1>2 DEF ClockInvariant, TypeOK, CallsCarryReadings, Call, Stamp,
                ObserveRefuses, ObserveOverflows
  <2>2. Ahead(c) \in Wall /\ Ahead(c) \in Int
    BY <2>1, SaturatingSubType, WallFacts DEF Ahead
  <2>3. /\ state \in State
        /\ state.wall = clock[n].wall /\ state.counter = clock[n].counter
        /\ state.refusals = clock[n].refusals
        /\ state.peerAdvances = clock[n].peerAdvances
        /\ state.maxPeerAhead = Larger(clock[n].maxPeerAhead, Ahead(c))
    BY <1>0, <2>2 DEF Measured, State, Larger
  <2>4. clock[n].maxPeerAhead \in Int /\ clock[n].refusals \in Nat
    BY <1>0, WallFacts DEF State
  <2>5. CASE ObserveOverflows(n, t)
    <3>1. /\ clock' = [clock EXCEPT ![n] = state] /\ Ahead(c) <= MaxOffset
          /\ UNCHANGED <<pt, records, minted, calls, topPt, topLead, report>>
          /\ Return(n, t)
      BY <2>5 DEF ObserveOverflows
    <3> HIDE DEF state, c
    <3>2. /\ state.refusals > 0 <=> state.maxPeerAhead > MaxOffset
          /\ state.peerAdvances > 0 => state.maxPeerAhead > 0
      BY <1>e, <2>2, <2>3, <2>4, <3>1, ClockAssumption DEF Larger
    <3> QED BY <1>0, <2>3, <3>1, <3>2, QuietStep
  <2>6. CASE ObserveRefuses(n, t)
    <3> DEFINE new == [state EXCEPT !.refusals = @ + 1]
    <3>1. /\ clock' = [clock EXCEPT ![n] = new] /\ Ahead(c) > MaxOffset
          /\ UNCHANGED <<pt, records, minted, calls, topPt, topLead, report>>
          /\ Return(n, t)
      BY <2>6 DEF ObserveRefuses
    <3> HIDE DEF state, c
    <3>2. /\ new \in State /\ new.wall = state.wall
          /\ new.counter = state.counter
          /\ new.refusals = state.refusals + 1
          /\ new.maxPeerAhead = state.maxPeerAhead
      BY <2>3 DEF State
    <3> HIDE DEF new
    <3>3. new.maxPeerAhead > MaxOffset /\ new.maxPeerAhead > 0 /\ new.refusals > 0
      BY <2>2, <2>3, <2>4, <3>1, <3>2, ClockAssumption DEF Larger
    <3> QED BY <1>0, <2>3, <3>1, <3>2, <3>3, QuietStep
  <2> QED BY <1>2, <2>5, <2>6
<1> QED BY <1>1, <1>2

\* The physical clock, the reads before the lock, observation() and restarts
\* keep the invariant.
LEMMA OtherSteps ==
  ASSUME ClockInvariant, NEW n \in Node
  PROVE  /\ \A p \in Physical : PhysicalClockMoves(n, p) => ClockInvariant'
         /\ \A t \in Thread :
              /\ StartNow(n, t) \/ StartObserve(n, t) \/ StartObservation(n, t)
                   => ClockInvariant'
              /\ Observation(n, t) => ClockInvariant'
         /\ Restart(n) => ClockInvariant'
<1> USE DEF ClockInvariant
<1>p. /\ pt[n] \in Physical /\ topPt[n] \in Physical /\ topLead[n] \in Int
      /\ pt[n] \in Wall /\ topPt[n] \in Wall /\ clock[n] \in State
      /\ clock[n].wall \in Wall
  BY ClockAssumption DEF TypeOK, State
<1>1. ASSUME NEW p \in Physical, PhysicalClockMoves(n, p)
      PROVE  ClockInvariant'
  <2> USE <1>1 DEF PhysicalClockMoves
  <2>0. /\ topPt' = [topPt EXCEPT ![n] = Larger(topPt[n], p)]
        /\ Larger(topPt[n], p) \in Physical
        /\ topPt[n] <= Larger(topPt[n], p)
        /\ p <= Larger(topPt[n], p)
        /\ clock[n].wall - p \in Int
    <3>1. /\ p \in Int /\ topPt[n] \in Int /\ clock[n].wall \in Int
          /\ topPt[n] \in Physical
      BY <1>p, ClockAssumption DEF Wall
    <3> QED BY <3>1 DEF Larger
  <2>1. TypeOK'
    BY <2>0, <1>p DEF TypeOK, Larger
  <2>2. \A m \in Node : topPt[m] <= topPt'[m] /\ topPt[m] \in Int /\ topPt'[m] \in Int
    <3>1. \A q \in Physical : q \in Int
      BY ClockAssumption DEF Wall
    <3>2. \A m \in Node : topPt[m] \in Int /\ topPt'[m] \in Int
      BY <2>1, <3>1 DEF TypeOK
    <3> QED BY <2>0, <3>2 DEF TypeOK
  <2>3. CallsCarryReadings'
    <3> SUFFICES ASSUME NEW m \in Node, NEW t \in Thread, call[m][t].op # "none"
                 PROVE  call[m][t].physical <= topPt'[m]
      BY DEF CallsCarryReadings
    <3>1. call[m][t].physical <= topPt[m] /\ call[m][t].physical \in Int
      BY WallFacts DEF CallsCarryReadings, TypeOK, Call
    <3> QED BY <3>1, <2>2
  <2>4. FenceContainment'
    <3> SUFFICES ASSUME NEW m \in Node PROVE clock[m].wall <= topPt'[m] + MaxOffset
      BY DEF FenceContainment
    <3>1. clock[m].wall <= topPt[m] + MaxOffset /\ clock[m].wall \in Int
      BY StateFields DEF FenceContainment, TypeOK
    <3> QED BY <3>1, <2>2, ClockAssumption
  <2>5. ClockCoversMinted' /\ StampsStrictlyIncrease' /\ CausalOrder' /\ SkewEvidence'
    BY DEF ClockCoversMinted, StampsStrictlyIncrease, CausalOrder, SkewEvidence
  <2>6. ReadingsCovered'
    <3> SUFFICES ASSUME NEW m \in Node PROVE pt'[m] <= topPt'[m]
      BY DEF ReadingsCovered
    <3>1. CASE m = n
      BY <3>1, <2>0 DEF TypeOK
    <3>2. CASE m # n
      BY <3>2 DEF ReadingsCovered, TypeOK
    <3> QED BY <3>1, <3>2
  <2> QED BY <2>1, <2>3, <2>4, <2>5, <2>6
<1>2. ASSUME NEW t \in Thread, NEW op \in {"now", "observe", "observation"},
             NEW peer \in Stamp \cup {NoStamp}, op = "observe" => peer \in Stamp,
             pt[n] <= topPt[n], Start(n, t, op, peer)
      PROVE  ClockInvariant'
  <2> USE <1>2 DEF Start
  <2>1. [op |-> op, physical |-> pt[n], peer |-> peer] \in Call
    BY <1>p DEF Call
  <2>2. TypeOK'
    BY <2>1, ClockAssumption DEF TypeOK
  <2>3. CallsCarryReadings'
    BY DEF CallsCarryReadings, TypeOK
  <2> QED
    BY <2>2, <2>3 DEF ClockCoversMinted, StampsStrictlyIncrease, CausalOrder,
                      FenceContainment, SkewEvidence, ReadingsCovered
<1>3. ASSUME NEW t \in Thread,
             StartNow(n, t) \/ StartObserve(n, t) \/ StartObservation(n, t)
      PROVE  ClockInvariant'
  <2>1. pt[n] <= topPt[n]
    BY DEF ReadingsCovered
  <2> QED
    BY <1>2, <1>3, <2>1 DEF StartNow, StartObserve, StartObservation, TypeOK
<1>4. ASSUME NEW t \in Thread, Observation(n, t)
      PROVE  ClockInvariant'
  <2>1. call[n][t].physical \in Wall
    BY DEF TypeOK, Call
  <2>2. report' \in [Node -> Wall]
    BY <1>4, <1>p, <2>1, SaturatingSubType DEF Observation, TypeOK
  <2>3. clock' = [clock EXCEPT ![n] = clock[n]]
    BY <1>4 DEF Observation, TypeOK
  <2>4. /\ clock[n].refusals > 0 <=> clock[n].maxPeerAhead > MaxOffset
        /\ clock[n].peerAdvances > 0 => clock[n].maxPeerAhead > 0
    BY DEF SkewEvidence
  <2> QED BY <1>4, <1>p, <2>2, <2>3, <2>4, QuietStep DEF Observation
<1>5. ASSUME Restart(n)
      PROVE  ClockInvariant'
  <2> USE <1>5 DEF Restart
  <2>0. /\ NewState(pt[n]) \in State /\ NewState(pt[n]).wall = pt[n]
        /\ pt[n] <= topPt[n] + MaxOffset
        /\ NewState(pt[n]).refusals = 0 /\ NewState(pt[n]).peerAdvances = 0
        /\ NewState(pt[n]).maxPeerAhead = 0
    BY <1>p, WallFacts, ClockAssumption
       DEF NewState, State, Counter, ReadingsCovered, Wall
  <2>1. TypeOK'
    <3>1. call' \in [Node -> [Thread -> Call]]
      BY WallFacts DEF NoCall, Call, TypeOK
    <3>2. /\ clock' \in [Node -> State] /\ report' \in [Node -> Wall]
          /\ minted' \in [Node -> Seq(Event)]
      BY <2>0, WallFacts DEF TypeOK
    <3> QED BY <3>1, <3>2, ClockAssumption DEF TypeOK
  <2>2. ClockCoversMinted' /\ StampsStrictlyIncrease' /\ CausalOrder'
    BY DEF ClockCoversMinted, StampsStrictlyIncrease, CausalOrder, TypeOK
  <2>3. CallsCarryReadings'
    BY DEF CallsCarryReadings, TypeOK, NoCall
  <2>4. FenceContainment' /\ SkewEvidence' /\ ReadingsCovered'
    BY <2>0, ClockAssumption
       DEF FenceContainment, SkewEvidence, ReadingsCovered, TypeOK
  <2> QED BY <2>1, <2>2, <2>3, <2>4
<1> QED BY <1>1, <1>3, <1>4, <1>5

\* Every step keeps the invariant.
LEMMA StepKeepsInvariant == ClockInvariant /\ [Next]_vars => ClockInvariant'
<1> SUFFICES ASSUME ClockInvariant, [Next]_vars PROVE ClockInvariant'
  OBVIOUS
<1>1. CASE UNCHANGED vars
  BY <1>1
     DEF vars, ClockInvariant, TypeOK, ClockCoversMinted, ReadingsCovered,
         CallsCarryReadings, StampsStrictlyIncrease, CausalOrder,
         FenceContainment, SkewEvidence, NotAfter, Less
<1>2. ASSUME NEW n \in Node, NEW t \in Thread, ThreadStep(n, t)
      PROVE  ClockInvariant'
  BY <1>2, NowStep, ObserveStep, ErrorStep, OtherSteps DEF ThreadStep
<1>3. ASSUME NEW n \in Node,
             Restart(n) \/ \E p \in Physical : PhysicalClockMoves(n, p)
      PROVE  ClockInvariant'
  BY <1>3, OtherSteps
<1> QED BY <1>1, <1>2, <1>3 DEF Next

\* The whole inductive invariant holds in every reachable state.
THEOREM ClockInvariantHolds == Spec => []ClockInvariant
BY InitClock, StepKeepsInvariant, PTL DEF Spec

\* No counter passes u32::MAX and no wall time leaves the i64 range.
THEOREM ClockTypes == Spec => []TypeOK
<1>1. ClockInvariant => TypeOK
  BY DEF ClockInvariant
<1> QED BY <1>1, ClockInvariantHolds, PTL

\* The stamps one clock mints strictly increase, for any number of threads,
\* stale physical readings and physical clocks that move backwards.
THEOREM StampsIncrease == Spec => []StampsStrictlyIncrease
<1>1. ClockInvariant => StampsStrictlyIncrease
  BY DEF ClockInvariant
<1> QED BY <1>1, ClockInvariantHolds, PTL

\* A stamp a clock accepted is below everything the clock mints afterwards.
THEOREM StampsRespectCausality == Spec => []CausalOrder
<1>1. ClockInvariant => CausalOrder
  BY DEF ClockInvariant
<1> QED BY <1>1, ClockInvariantHolds, PTL

\* No chain of records moves a clock more than MaxOffset past the highest
\* reading of its own physical clock.
THEOREM FenceContainsDamage == Spec => []FenceContainment
<1>1. ClockInvariant => FenceContainment
  BY DEF ClockInvariant
<1> QED BY <1>1, ClockInvariantHolds, PTL

\* Refusals, peer advances and the largest peer lead tell one story.
THEOREM EvidenceAgrees == Spec => []SkewEvidence
<1>1. ClockInvariant => SkewEvidence
  BY DEF ClockInvariant
<1> QED BY <1>1, ClockInvariantHolds, PTL

\* A physical clock's highest reading only grows.
LEMMA ReadingsGrow ==
  ASSUME ClockInvariant, [Next]_vars, NEW n \in Node
  PROVE  topPt'[n] >= topPt[n] /\ topPt'[n] \in Int /\ topPt[n] \in Int
<1>1. \A p \in Physical : p \in Int
  BY ClockAssumption DEF Wall
<1>2. \A m \in Node : topPt[m] \in Int
  <2>1. topPt \in [Node -> Physical]
    BY DEF ClockInvariant, TypeOK
  <2> QED BY <1>1, <2>1
<1>3. ASSUME NEW m \in Node, NEW p \in Physical, PhysicalClockMoves(m, p)
      PROVE  topPt'[n] >= topPt[n] /\ topPt'[n] \in Int
  BY <1>1, <1>2, <1>3 DEF PhysicalClockMoves, Larger, ClockInvariant, TypeOK
<1>4. ASSUME NEW m \in Node, Restart(m) \/ \E t \in Thread : ThreadStep(m, t)
      PROVE  topPt' = topPt
  BY <1>4
     DEF Restart, ThreadStep, StartNow, StartObserve, StartObservation, Start, Now,
         NowOverflows, Observe, ObserveRefuses, ObserveOverflows, Observation, Mint
<1>5. CASE UNCHANGED vars
  BY <1>2, <1>5 DEF vars
<1> QED BY <1>2, <1>3, <1>4, <1>5 DEF Next

\* A new record carries the time of the clock that minted it.
LEMMA RecordsFromClocks ==
  ASSUME ClockInvariant, [Next]_vars, NEW stamp \in records', stamp \notin records
  PROVE  stamp.node \in Node /\ stamp.wall = clock'[stamp.node].wall
<1>0. clock \in [Node -> State]
  BY DEF ClockInvariant, TypeOK
<1>1. ASSUME NEW n \in Node, NEW state, NEW cause, Mint(n, state, cause)
      PROVE  stamp.node \in Node /\ stamp.wall = clock'[stamp.node].wall
  <2>1. stamp = [wall |-> state.wall, counter |-> state.counter, node |-> n]
    BY <1>1 DEF Mint
  <2>2. clock'[n] = state
    BY <1>0, <1>1 DEF Mint
  <2> QED BY <2>1, <2>2
<1>2. ASSUME NEW n \in Node, NEW t \in Thread, Now(n, t)
      PROVE  stamp.node \in Node /\ stamp.wall = clock'[stamp.node].wall
  BY <1>1, <1>2 DEF Now
<1>3. ASSUME NEW n \in Node, NEW t \in Thread, Observe(n, t)
      PROVE  stamp.node \in Node /\ stamp.wall = clock'[stamp.node].wall
  BY <1>1, <1>3 DEF Observe
<1>4. ASSUME NEW n \in Node, NEW t \in Thread, ThreadStep(n, t),
             ~Now(n, t), ~Observe(n, t)
      PROVE  FALSE
  BY <1>4
     DEF ThreadStep, StartNow, StartObserve, StartObservation, Start,
         NowOverflows, ObserveRefuses, ObserveOverflows, Observation
<1>5. ASSUME NEW n \in Node, Restart(n) \/ \E p \in Physical : PhysicalClockMoves(n, p)
      PROVE  FALSE
  BY <1>5 DEF Restart, PhysicalClockMoves
<1>6. CASE UNCHANGED vars
  BY <1>6 DEF vars
<1> QED BY <1>2, <1>3, <1>4, <1>5, <1>6 DEF Next

\* Across restarts, what a node mints stays within MaxOffset of the highest
\* reading of its physical clock.
THEOREM RestartsTakeBackLittle == Spec => []RegressionBounded
<1>1. Init => RegressionBounded
  BY DEF Init, RegressionBounded
<1>2. RegressionBounded /\ ClockInvariant /\ ClockInvariant' /\ [Next]_vars
        => RegressionBounded'
  <2> SUFFICES ASSUME RegressionBounded, ClockInvariant, ClockInvariant', [Next]_vars,
                      NEW stamp \in records' \ Foreign
               PROVE  stamp.node \in Node /\ stamp.wall <= topPt'[stamp.node] + MaxOffset
    BY DEF RegressionBounded
  <2>1. CASE stamp \in records
    <3>1. stamp.node \in Node /\ stamp.wall <= topPt[stamp.node] + MaxOffset
      BY <2>1 DEF RegressionBounded
    <3>2. stamp.wall \in Int /\ MaxOffset \in Int
      BY <2>1, ClockAssumption DEF ClockInvariant, TypeOK, Stamp, Wall
    <3>3. /\ topPt'[stamp.node] >= topPt[stamp.node]
          /\ topPt'[stamp.node] \in Int /\ topPt[stamp.node] \in Int
      BY <3>1, ReadingsGrow
    <3> QED BY <3>1, <3>2, <3>3
  <2>2. CASE stamp \notin records
    <3>1. stamp.node \in Node /\ stamp.wall = clock'[stamp.node].wall
      BY <2>2, RecordsFromClocks
    <3>2. \A n \in Node : clock'[n].wall <= topPt'[n] + MaxOffset
      BY DEF ClockInvariant, FenceContainment
    <3> QED BY <3>1, <3>2
  <2> QED BY <2>1, <2>2
<1> QED BY <1>1, <1>2, ClockInvariantHolds, PTL DEF Spec
=============================================================================
