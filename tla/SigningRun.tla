----------------------------- MODULE SigningRun -----------------------------
(***************************************************************************)
(* What a caller of SigningPool.sign() relies on, with no pool, lock or    *)
(* cache in sight: every job is checked before the first one is signed, a  *)
(* run that was refused has signed nothing, success is reported only when  *)
(* every job has been signed, and a reported verdict is final.             *)
(***************************************************************************)
CONSTANT Job

VARIABLES phase, signed

runVars == <<phase, signed>>

Phase == {"checking", "signing", "ok", "failed"}

TypeOK == phase \in Phase /\ signed \subseteq Job

Init == phase = "checking" /\ signed = {}

Refuse == phase = "checking" /\ phase' = "failed" /\ UNCHANGED signed

Accept == phase = "checking" /\ phase' = "signing" /\ UNCHANGED signed

Sign(j) == phase = "signing" /\ signed' = signed \cup {j} /\ UNCHANGED phase

Succeed == /\ phase \in {"checking", "signing"}
           /\ signed = Job
           /\ phase' = "ok"
           /\ UNCHANGED signed

Fail == phase = "signing" /\ phase' = "failed" /\ UNCHANGED signed

Next == Refuse \/ Accept \/ Succeed \/ Fail \/ \E j \in Job : Sign(j)

Spec == Init /\ [][Next]_runVars
=============================================================================
