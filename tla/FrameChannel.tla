---------------------------- MODULE FrameChannel ----------------------------
(***************************************************************************)
(* What one direction of a relay promises: the destination reads the       *)
(* frames the source sent, in order, none altered, dropped or repeated.    *)
(***************************************************************************)
EXTENDS Naturals, Sequences

CONSTANT Frame

VARIABLES sent, got

Init == sent = <<>> /\ got = <<>>

Send == /\ \E f \in Frame : sent' = Append(sent, f)
        /\ UNCHANGED got

Deliver == /\ Len(got) < Len(sent)
           /\ got' = Append(got, sent[Len(got) + 1])
           /\ UNCHANGED sent

Next == Send \/ Deliver

Spec == Init /\ [][Next]_<<sent, got>>
=============================================================================
