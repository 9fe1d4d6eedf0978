---------------------------- MODULE MCTopicImage ----------------------------
(***************************************************************************)
(* An instance of TopicImage for TLC.                                      *)
(***************************************************************************)
EXTENDS TopicImage

MCReplicaLists == {<<1>>, <<2, 1>>}
=============================================================================
