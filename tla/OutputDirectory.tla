-------------------------- MODULE OutputDirectory --------------------------
(***************************************************************************)
(* What a user of debsign relies on in the output directory, with no       *)
(* templates, packages, pool or command in sight: a new source package is  *)
(* put only to a place that was free or has been freed for it, and what is *)
(* left there in the end is a result, whole; one place is worked on at a   *)
(* time; apart from that, places are only cleared.  A move may be a copy,  *)
(* and may be given up half-way.                                           *)
(***************************************************************************)
CONSTANTS
  Source,        \* the places: one for each source package
  Results,       \* what may be put to each of them
  Absent, Partial,
  NoPlace,
  InitialDest

VARIABLES
  dest,          \* what is at each place
  place          \* the place that is free for the result being moved

directoryVars == <<dest, place>>

Init == dest = InitialDest /\ place = NoPlace

\* What is there goes, bit by bit.
Clear(s) ==
  /\ place = NoPlace /\ dest[s] # Absent
  /\ dest' = [dest EXCEPT ![s] = Partial]
  /\ UNCHANGED place

\* The place is free, or the last bit goes.
Free(s) ==
  /\ place = NoPlace
  /\ dest' = [dest EXCEPT ![s] = Absent]
  /\ place' = s

Copy(s) ==
  /\ place = s
  /\ dest' = [dest EXCEPT ![s] = Partial]
  /\ UNCHANGED place

Deliver(s) ==
  /\ place = s
  /\ \E t \in Results[s] : dest' = [dest EXCEPT ![s] = t]
  /\ place' = NoPlace

GiveUp == place # NoPlace /\ place' = NoPlace /\ UNCHANGED dest

Next == GiveUp \/ \E s \in Source : Clear(s) \/ Free(s) \/ Copy(s) \/ Deliver(s)

Spec == Init /\ [][Next]_directoryVars
=============================================================================
