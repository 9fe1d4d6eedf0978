------------------------------- MODULE MCWire -------------------------------
(***************************************************************************)
(* What travels over a connection, for TLC in one run: the frames of the   *)
(* wire tap, the record batches of a partition and the tagged fields of a  *)
(* message.  The parts share no state, so each behaviour here is one of    *)
(* one of them, and the variables of the others stay where they began,     *)
(* where none of their fair actions is enabled.                            *)
(***************************************************************************)
EXTENDS KafkaTap, RecordLog, TaggedRelay, TLC

VARIABLE part

\* Tags that came with the first flexible version and with the two after it,
\* in another order than that of their numbers; the last version has the
\* first of them no more.
MCTaggedVersions ==
  (0 :> [min |-> 2, max |-> 3]) @@ (1 :> [min |-> 1, max |-> 2]) @@ (2 :> [min |-> 3, max |-> 3])

allVars == <<part, vars, recordVars, tagVars>>

MCInit ==
  /\ part \in {"tap", "pipelined", "records", "tags"}
  /\ Init /\ RecordInit /\ TagInit
  \* one message suffices while another part is at work
  /\ part # "tags" => holder.knows = {}

\* Two requests with everything that can be odd about them, or three plain
\* ones of one API: enough to fill a direction while an answer is under way.
Bounded ==
  \/ part = "tap" /\ Len(sent'["req"]) <= 2
  \/ /\ part = "pipelined"
     /\ \A d \in Direction : \A i \in DOMAIN sent'[d] :
          sent'[d][i].kind = "full" /\ sent'[d][i].api = CHOOSE a \in Api : TRUE

TapStep    == Next /\ Bounded /\ UNCHANGED <<part, recordVars, tagVars>>
RecordStep == part = "records" /\ RecordNext /\ UNCHANGED <<part, vars, tagVars>>
TagStep    == part = "tags" /\ TagNext /\ UNCHANGED <<part, vars, recordVars>>

MCNext == TapStep \/ RecordStep \/ TagStep

MCSpec == MCInit /\ [][MCNext]_allVars /\ Fairness /\ RecordFairness
=============================================================================
