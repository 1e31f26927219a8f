------------------------------ MODULE MCSetup ------------------------------
(***************************************************************************)
(* Instances of Setup for TLC.                                             *)
(***************************************************************************)
EXTENDS MCKeySetup, Setup

MCFreshConfig ==
  [keys |-> [k \in KeyId |-> None], use |-> [u \in Purpose |-> None],
   vars |-> [v \in Variable |-> None], raw |-> [s \in RawSection |-> Plain],
   srk |-> FALSE, level |-> None]
FreshWorld == [config |-> MCFreshConfig, token |-> {}, pairs |-> 0]

\* The user has set up everything and has keys, or starts from nothing.
MCWorlds == {OwnWorld, FreshWorld}
=============================================================================
