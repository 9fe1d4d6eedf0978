--------------------------- MODULE MCClusterImage ---------------------------
(***************************************************************************)
(* ClusterImage and VersionDowngrade for TLC, in one run.  The two share   *)
(* no variables: while the parts of the image are at work the cluster of   *)
(* VersionDowngrade stays as it was formatted, and the other way round.    *)
(***************************************************************************)
EXTENDS ClusterImage, VersionDowngrade, TLC

\* A broker registers, requests and registers again around a lagging image.
\* Break-glass: two approvals, a spend and the expiry sweep with stale
\* requests between.  Nothing in the other parts reads the image: one request
\* at a time is enough.
MCMaxAsked   == [brokers |-> 4, glass |-> 7, features |-> 4, configs |-> 4]
MCMaxPending == [brokers |-> 2, glass |-> 2, features |-> 1, configs |-> 1]
MCMaxLag     == [brokers |-> 1, glass |-> 0, features |-> 0, configs |-> 0]

MCInit ==
  \/ /\ ImageInit
     /\ Init
     \* one cluster suffices
     /\ levels = BootstrapFeatures(CHOOSE mv \in Level : TRUE, EmptyMap)
  \/ /\ part = "versions"
     /\ Init
     /\ image = {} /\ replayed = {} /\ unapplied = {} /\ pending = {}
     /\ asked = 0 /\ committed = 0 /\ settled = {}

MCNext ==
  \/ ImageNext /\ UNCHANGED vars
  \/ part = "versions" /\ Next /\ UNCHANGED imageVars

MCSpec == MCInit /\ [][MCNext]_<<imageVars, vars>>

Symmetry == Permutations(Node) \cup Permutations(Principal)
=============================================================================
