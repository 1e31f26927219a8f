------------------------------ MODULE KeyStore ------------------------------
(***************************************************************************)
(* What a user relies on where genkey and delkey are run one at a time,    *)
(* with no probes, objects of other types, tools or torn files in sight:   *)
(* which private keys there are, and which of them the configuration       *)
(* names.  A key is made where none is held, and only for the genkey at    *)
(* work; it is destroyed, and its entry then removed, only by the delkey   *)
(* that was told to, and in this order, so that no delkey leaves a key     *)
(* that the configuration has forgotten.  A command may end at any time.   *)
(***************************************************************************)
EXTENDS Naturals

CONSTANTS KeyId, Label, None, NoUri

VARIABLES
  held,     \* the private keys under each label
  named,    \* the label that the configuration has for each key
  made,     \* how many key pairs have been made
  work      \* the command at work and its key, if it is one of these two

storeVars == <<held, named, made, work>>

Init ==
  /\ made \in Nat
  /\ held \in [Label -> SUBSET Nat]
  /\ \A l \in Label : \A m, n \in held[l] : m = n /\ m \in 1 .. made
  /\ named \in [KeyId -> Label \cup {None, NoUri}]
  /\ work = {}

Begin(op, k) ==
  /\ work = {}
  /\ work' = {<<op, k>>}
  /\ UNCHANGED <<held, named, made>>

Create(k) ==
  /\ <<"genkey", k>> \in work /\ held[k] = {}
  /\ made' = made + 1
  /\ held' = [held EXCEPT ![k] = {made'}]
  /\ UNCHANGED <<named, work>>

Name(k) ==
  /\ <<"genkey", k>> \in work
  /\ named' = [named EXCEPT ![k] = k]
  /\ work' = {}
  /\ UNCHANGED <<held, made>>

Destroy(k) ==
  /\ <<"delkey", k>> \in work /\ named[k] \in Label
  /\ held' = [held EXCEPT ![named[k]] = {}]
  /\ UNCHANGED <<named, made, work>>

Forget(k) ==
  /\ <<"delkey", k>> \in work /\ named[k] \in Label /\ held[named[k]] = {}
  /\ named' = [named EXCEPT ![k] = None]
  /\ work' = {}
  /\ UNCHANGED <<held, made>>

End ==
  /\ work # {} /\ work' = {}
  /\ UNCHANGED <<held, named, made>>

Next ==
  \/ End
  \/ \E k \in KeyId :
       \/ \E op \in {"genkey", "delkey"} : Begin(op, k)
       \/ Create(k) \/ Name(k) \/ Destroy(k) \/ Forget(k)

Spec == Init /\ [][Next]_storeVars
=============================================================================
