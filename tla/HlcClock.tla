------------------------------ MODULE HlcClock ------------------------------
(***************************************************************************)
(* The hybrid logical clocks of a cluster (crates/hlc).                    *)
(*                                                                         *)
(* Every node owns one HlcClock that its threads share.  A call reads the  *)
(* physical clock first and takes the mutex afterwards, so each call is    *)
(* two steps here: Start... is the unlocked read, the action named after   *)
(* the method is the whole critical section.  Between the two, other       *)
(* threads of the node may run and the physical clock may move, forwards   *)
(* or backwards.  A stamp travels on a record header; a record can be read *)
(* late, twice, out of order or never, so the records are a set from which *)
(* any node may observe at any time.                                       *)
(***************************************************************************)
EXTENDS Integers, Sequences

CONSTANTS
  Node,        \* node ids of the clocks
  Thread,      \* the threads that share one clock
  Physical,    \* the readings a physical clock can give, in microseconds
  MaxOffset,   \* the configured maximum offset of the self-fence
  MaxCounter,  \* u32::MAX
  MinWall,     \* i64::MIN
  MaxWall,     \* i64::MAX
  Foreign,     \* stamps on records that other hosts wrote
  MaxCalls     \* bound: calls made at one node

Wall    == MinWall .. MaxWall
Counter == 0 .. MaxCounter
Stamp   == [wall : Wall, counter : Counter, node : Nat]

ASSUME ClockAssumption ==
  /\ Node \subseteq Nat
  /\ MinWall \in Int /\ MaxWall \in Int /\ MinWall <= 0
  /\ Physical \subseteq Wall
  /\ MaxOffset \in Nat /\ MaxOffset < MaxWall
  /\ MaxCounter \in Nat
  /\ Foreign \subseteq Stamp
  /\ MaxCalls \in Nat

NoStamp == [wall |-> MinWall, counter |-> 0, node |-> -1]
NoCall  == [op |-> "none", physical |-> 0, peer |-> NoStamp]

VARIABLES
  pt,        \* the physical clock of each node
  clock,     \* the mutex-protected State of each node's HlcClock
  call,      \* the call each thread is in, with what it read so far
  records,   \* the stamps that records carry
  report,    \* the drift each node's last observation() returned
  minted,    \* history: what the clock returned, in the order of the lock
  calls,     \* history and bound: calls started at each node
  topPt,     \* history: the highest physical reading a node ever had
  topLead    \* history: the furthest the logical clock ever led pt

vars == <<pt, clock, call, records, report, minted, calls, topPt, topLead>>

-----------------------------------------------------------------------------
\* The order of stamps: wall, then counter, then node (derive(Ord) on Hlc).
Less(a, b) ==
  \/ a.wall < b.wall
  \/ a.wall = b.wall /\ a.counter < b.counter
  \/ a.wall = b.wall /\ a.counter = b.counter /\ a.node < b.node

Larger(a, b) == IF a < b THEN b ELSE a

\* i64::saturating_sub.
SaturatingSub(a, b) ==
  IF a - b > MaxWall THEN MaxWall
  ELSE IF a - b < MinWall THEN MinWall ELSE a - b

\* Slips a change to this code could make; each breaks a property below.
CanCountUnchecked(base) == TRUE
NowWallPhysical(state, physical) == physical
ObserveBaseLocal(state, physical, peer) ==
  LET wall == Larger(Larger(state.wall, peer.wall), physical) IN
  IF wall = state.wall THEN state.counter
  ELSE IF wall = peer.wall THEN peer.counter ELSE -1
AheadSwapped(c) == SaturatingSub(c.physical, c.peer.wall)
\* The new wall time and the value the counter is derived from.  -1 says that
\* the physical clock overtook, so that next_counter(-1) is the reset to zero.
NowWall(state, physical) == Larger(state.wall, physical)

NowBase(state, physical) ==
  IF NowWall(state, physical) = state.wall THEN state.counter ELSE -1

ObserveWall(state, physical, peer) ==
  Larger(Larger(state.wall, peer.wall), physical)

ObserveBase(state, physical, peer) ==
  LET wall == ObserveWall(state, physical, peer) IN
  IF wall = state.wall /\ wall = peer.wall
    THEN Larger(state.counter, peer.counter)
  ELSE IF wall = state.wall THEN state.counter
  ELSE IF wall = peer.wall THEN peer.counter
  ELSE -1

\* next_counter: checked_add(1) fails at u32::MAX.
CanCount(base) == base < MaxCounter

NewState(physical) ==
  [wall |-> physical, counter |-> 0,
   peerAdvances |-> 0, refusals |-> 0, maxPeerAhead |-> 0]

-----------------------------------------------------------------------------
Init ==
  /\ pt \in [Node -> Physical]
  /\ clock = [n \in Node |-> NewState(pt[n])]
  /\ call = [n \in Node |-> [t \in Thread |-> NoCall]]
  /\ records = Foreign
  /\ report = [n \in Node |-> MinWall]
  /\ minted = [n \in Node |-> <<>>]
  /\ calls = [n \in Node |-> 0]
  /\ topPt = pt
  /\ topLead = [n \in Node |-> 0]

\* The host's clock moves: forwards as time passes, backwards when it is set.
PhysicalClockMoves(n, p) ==
  /\ p # pt[n]
  /\ pt' = [pt EXCEPT ![n] = p]
  /\ topPt' = [topPt EXCEPT ![n] = Larger(@, p)]
  /\ topLead' = [topLead EXCEPT ![n] = Larger(@, clock[n].wall - p)]
  /\ UNCHANGED <<clock, call, records, report, minted, calls>>

\* A call reads the physical clock before it takes the lock.
Start(n, t, op, peer) ==
  /\ call[n][t].op = "none"
  /\ calls[n] < MaxCalls
  /\ calls' = [calls EXCEPT ![n] = @ + 1]
  /\ call' = [call EXCEPT ![n][t] =
                [op |-> op, physical |-> pt[n], peer |-> peer]]
  /\ UNCHANGED <<pt, clock, records, report, minted, topPt, topLead>>

Return(n, t) == call' = [call EXCEPT ![n][t] = NoCall]

\* The end of a critical section that returns a stamp, which the caller puts
\* on a record.
Mint(n, state, cause) ==
  LET stamp == [wall |-> state.wall, counter |-> state.counter, node |-> n]
  IN  /\ clock' = [clock EXCEPT ![n] = state]
      /\ minted' = [minted EXCEPT ![n] =
                      Append(@, [stamp |-> stamp, cause |-> cause])]
      /\ records' = records \cup {stamp}
      /\ topLead' = [topLead EXCEPT ![n] = Larger(@, state.wall - pt[n])]
      /\ UNCHANGED <<pt, report, calls, topPt>>

StartNow(n, t) == Start(n, t, "now", NoStamp)

Now(n, t) ==
  LET state    == clock[n]
      physical == call[n][t].physical
  IN  /\ call[n][t].op = "now"
      /\ CanCount(NowBase(state, physical))
      /\ Mint(n, [state EXCEPT !.wall = NowWall(state, physical),
                               !.counter = NowBase(state, physical) + 1],
              NoStamp)
      /\ Return(n, t)

\* CounterOverflow: the error leaves the state as it was.
NowOverflows(n, t) ==
  /\ call[n][t].op = "now"
  /\ ~CanCount(NowBase(clock[n], call[n][t].physical))
  /\ Return(n, t)
  /\ UNCHANGED <<pt, clock, records, report, minted, calls, topPt, topLead>>

-----------------------------------------------------------------------------
StartObserve(n, t) == \E peer \in records : Start(n, t, "observe", peer)

Ahead(c) == SaturatingSub(c.peer.wall, c.physical)

\* Every received stamp is measured, the refused ones too.
Measured(state, c) ==
  [state EXCEPT !.maxPeerAhead = Larger(@, Ahead(c))]

Observe(n, t) ==
  LET c     == call[n][t]
      state == Measured(clock[n], c)
      pulls == c.peer.wall > state.wall /\ c.peer.wall > c.physical
  IN  /\ c.op = "observe"
      /\ Ahead(c) <= MaxOffset
      /\ CanCount(ObserveBase(state, c.physical, c.peer))
      /\ Mint(n,
              [state EXCEPT
                 !.wall = ObserveWall(state, c.physical, c.peer),
                 !.counter = ObserveBase(state, c.physical, c.peer) + 1,
                 !.peerAdvances = IF pulls THEN @ + 1 ELSE @],
              c.peer)
      /\ Return(n, t)

\* PeerTooFarAhead: the self-fence counts the refusal and nothing moves.
ObserveRefuses(n, t) ==
  LET c == call[n][t] IN
  /\ c.op = "observe"
  /\ Ahead(c) > MaxOffset
  /\ clock' = [clock EXCEPT
                 ![n] = [Measured(clock[n], c) EXCEPT !.refusals = @ + 1]]
  /\ Return(n, t)
  /\ UNCHANGED <<pt, records, report, minted, calls, topPt, topLead>>

\* CounterOverflow: the stamp was measured, but the clock does not move.
ObserveOverflows(n, t) ==
  LET c == call[n][t] IN
  /\ c.op = "observe"
  /\ Ahead(c) <= MaxOffset
  /\ ~CanCount(ObserveBase(clock[n], c.physical, c.peer))
  /\ clock' = [clock EXCEPT ![n] = Measured(clock[n], c)]
  /\ Return(n, t)
  /\ UNCHANGED <<pt, records, report, minted, calls, topPt, topLead>>

-----------------------------------------------------------------------------
StartObservation(n, t) == Start(n, t, "observation", NoStamp)

Observation(n, t) ==
  /\ call[n][t].op = "observation"
  /\ report' = [report EXCEPT ![n] =
                  SaturatingSub(clock[n].wall, call[n][t].physical)]
  /\ Return(n, t)
  /\ UNCHANGED <<pt, clock, records, minted, calls, topPt, topLead>>

\* The process of a node restarts.  Nothing of the clock is persisted: a new
\* clock starts from the physical clock, and what it mints is a new sequence.
Restart(n) ==
  /\ calls[n] < MaxCalls
  /\ calls' = [calls EXCEPT ![n] = @ + 1]
  /\ clock' = [clock EXCEPT ![n] = NewState(pt[n])]
  /\ call' = [call EXCEPT ![n] = [t \in Thread |-> NoCall]]
  /\ report' = [report EXCEPT ![n] = MinWall]
  /\ minted' = [minted EXCEPT ![n] = <<>>]
  /\ UNCHANGED <<pt, records, topPt, topLead>>

ThreadStep(n, t) ==
  \/ StartNow(n, t) \/ Now(n, t) \/ NowOverflows(n, t)
  \/ StartObserve(n, t) \/ Observe(n, t)
  \/ ObserveRefuses(n, t) \/ ObserveOverflows(n, t)
  \/ StartObservation(n, t) \/ Observation(n, t)

Next ==
  \E n \in Node :
    \/ \E p \in Physical : PhysicalClockMoves(n, p)
    \/ \E t \in Thread : ThreadStep(n, t)
    \/ Restart(n)

Spec == Init /\ [][Next]_vars

-----------------------------------------------------------------------------
State ==
  [wall : Wall, counter : Counter, peerAdvances : Nat, refusals : Nat,
   maxPeerAhead : Wall]
Call ==
  [op : {"none", "now", "observe", "observation"}, physical : Wall,
   peer : Stamp \cup {NoStamp}]
Event ==
  [stamp : Stamp, cause : Stamp \cup {NoStamp}]

\* The variables keep the types of State, Hlc and the calls' locals; in
\* particular no counter passes u32::MAX and no wall time leaves i64.
TypeOK ==
  /\ pt \in [Node -> Physical]
  /\ clock \in [Node -> State]
  /\ call \in [Node -> [Thread -> Call]]
  /\ records \subseteq Stamp
  /\ report \in [Node -> Wall]
  /\ minted \in [Node -> Seq(Event)]
  /\ calls \in [Node -> 0 .. MaxCalls]
  /\ topPt \in [Node -> Physical]
  /\ topLead \in [Node -> Int]

\* clock.rs: "The stamps one node mints strictly increase", in the order of
\* the lock and however stale the physical reading of a call is.
StampsStrictlyIncrease ==
  \A n \in Node : \A i, j \in DOMAIN minted[n] :
    i < j => Less(minted[n][i].stamp, minted[n][j].stamp)

\* clock.rs: "A stamp that a node received is always below every stamp that
\* the node mints after it": observe() returns above the peer, and no later
\* stamp of any thread falls back below it.
CausalOrder ==
  \A n \in Node : \A i, j \in DOMAIN minted[n] :
    (i <= j /\ minted[n][i].cause # NoStamp)
      => Less(minted[n][i].cause, minted[n][j].stamp)

\* The self-fence: whatever stamps other hosts write, and however far the
\* nodes pass them on, no logical clock leads the highest reading its own
\* physical clock ever gave by more than MaxOffset.
FenceContainment ==
  \A n \in Node : clock[n].wall <= topPt[n] + MaxOffset

\* What a restart can take back is bounded.  The clock is not persisted, so a
\* restarted node may mint below its earlier stamps; but no stamp that any
\* incarnation put on a record leads the highest reading of its physical clock
\* by more than MaxOffset, so a node whose clock has passed that mints above
\* everything it ever minted.
RegressionBounded ==
  \A stamp \in records \ Foreign :
    stamp.node \in Node /\ stamp.wall <= topPt[stamp.node] + MaxOffset

\* The fields of ClockObservation agree: the fence refused something exactly
\* when a peer was seen further ahead than it allows, and a peer pulled the
\* clock only if one was seen ahead.
SkewEvidence ==
  \A n \in Node :
    /\ clock[n].refusals > 0 <=> clock[n].maxPeerAhead > MaxOffset
    /\ clock[n].peerAdvances > 0 => clock[n].maxPeerAhead > 0

\* The strengthening that makes the four invariants above inductive.  What the
\* clock minted never passes its current time, a call in flight carries a
\* reading its physical clock really had, and an observe() a real stamp.
NotAfter(a, b) ==
  a.wall < b.wall \/ (a.wall = b.wall /\ a.counter <= b.counter)

ClockCoversMinted ==
  \A n \in Node : \A i \in DOMAIN minted[n] :
    minted[n][i].stamp.node = n /\ NotAfter(minted[n][i].stamp, clock[n])

ReadingsCovered == \A n \in Node : pt[n] <= topPt[n]

CallsCarryReadings ==
  \A n \in Node, t \in Thread :
    /\ call[n][t].op # "none" => call[n][t].physical <= topPt[n]
    /\ call[n][t].op = "observe" => call[n][t].peer \in Stamp

ClockInvariant ==
  /\ TypeOK
  /\ ClockCoversMinted
  /\ ReadingsCovered
  /\ CallsCarryReadings
  /\ StampsStrictlyIncrease
  /\ CausalOrder
  /\ FenceContainment
  /\ SkewEvidence

\* clock.rs on observation(): "The snapshot is consistent: it reads the
\* physical clock and the whole state together", so a drift it reports is a
\* lead the logical clock really had at some moment.
ObservationConsistent ==
  \A n \in Node : report[n] <= topLead[n]
=============================================================================
