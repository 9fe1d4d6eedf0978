--------------------------- MODULE MCKraftTopicLog ---------------------------
(***************************************************************************)
(* Instances of KraftTopicLog for TLC.                                     *)
(***************************************************************************)
EXTENDS KraftTopicLog

\* A partition is moved from one replica to another.
Moved == {<<1>>, <<2>>}
=============================================================================
