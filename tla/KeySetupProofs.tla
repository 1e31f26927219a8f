-------------------------- MODULE KeySetupProofs ---------------------------
(***************************************************************************)
(* Proofs about KeySetup: for any keys, commands, initial token and        *)
(* configuration, any number of terminals, faults and crashes, where not   *)
(* said otherwise.                                                         *)
(***************************************************************************)
EXTENDS KeySetup, TLAPS

-----------------------------------------------------------------------------
(* The operations on a configuration.                                      *)

\* Loading keeps what a file says of keys.
LEMMA FromDictLoads ==
  ASSUME NEW c \in Config, Loads(c)
  PROVE  FromDict(c) \in Config /\ Loads(FromDict(c))
<1>1. \A r \in RawSettings : Normal(r) \in RawSettings
  BY DEF RawSettings, Normal
<1>2. FromDict(c) \in Config /\ FromDict(c).keys = c.keys
      /\ FromDict(c).use = c.use /\ FromDict(c).vars = c.vars
  BY <1>1 DEF Config, FromDict
<1> QED
  BY <1>2 DEF Loads, Registered

\* Registering a key gives a configuration that loads.
LEMMA AddLoads ==
  ASSUME NEW c \in Config, Loads(c), NEW k \in KeyId, NEW l \in Label
  PROVE  /\ AddSigningKey(c, k, l) \in Config
         /\ Loads(AddSigningKey(c, k, l))
         /\ Registered(AddSigningKey(c, k, l), k)
BY NamesAssumption DEF Config, Loads, AddSigningKey, Registered

\* So does giving a registered key its uses.
LEMMA SetLoads ==
  ASSUME NEW c \in Config, Loads(c), NEW k \in KeyId, Registered(c, k),
         NEW uses \in SUBSET Purpose
  PROVE  /\ SetKeyForSigners(c, uses, k) \in Config
         /\ Loads(SetKeyForSigners(c, uses, k))
<1> DEFINE d == SetKeyForSigners(c, uses, k)
<1>1. /\ d \in Config
      /\ d.keys = c.keys /\ d.vars = c.vars
      /\ \A u \in Purpose : d.use[u] = IF u \in uses THEN k ELSE c.use[u]
  BY DEF Config, SetKeyForSigners
<1>2. k # None /\ "uefi" \in Purpose
  BY NamesAssumption DEF Purpose
<1>3. \A u \in Purpose : d.use[u] # None => Registered(d, d.use[u])
  BY <1>1 DEF Loads, Registered
<1>4. \A v \in Variable : d.vars[v] # None =>
        d.use["uefi"] # None /\ Registered(d, d.vars[v])
  BY <1>1, <1>2 DEF Loads, Registered
<1> QED
  BY <1>1, <1>3, <1>4 DEF Loads

\* Removing a key removes every reference to it.
LEMMA RemoveLoads ==
  ASSUME NEW c \in Config, Loads(c), NEW k \in KeyId
  PROVE  /\ RemoveSigningKey(c, k) \in Config
         /\ Loads(RemoveSigningKey(c, k))
         /\ ~Registered(RemoveSigningKey(c, k), k)
<1> DEFINE d == RemoveSigningKey(c, k)
           raw == [s \in RawSection |-> IF c.use[s] = k THEN Plain ELSE c.raw[s]]
<1>0. raw \in [RawSection -> RawSettings]
  BY DEF Config, Plain, RawSettings
<1>1. /\ d \in Config
      /\ d.keys = [c.keys EXCEPT ![k] = None]
      /\ \A u \in Purpose : d.use[u] = IF c.use[u] = k THEN None ELSE c.use[u]
      /\ \A v \in Variable : d.vars[v] =
           IF k \in {c.use["uefi"], c.vars[v]} THEN None ELSE c.vars[v]
  BY <1>0 DEF Config, RemoveSigningKey
<1>2. /\ d.keys[k] = None
      /\ \A j \in KeyId : j # k => d.keys[j] = c.keys[j]
  BY <1>1 DEF Config
<1>3. "uefi" \in Purpose
  BY DEF Purpose
<1>4. \A u \in Purpose : d.use[u] # None => Registered(d, d.use[u])
  BY <1>1, <1>2 DEF Loads, Registered, Config
<1>5. \A v \in Variable : d.vars[v] # None =>
        d.use["uefi"] # None /\ Registered(d, d.vars[v])
  BY <1>1, <1>2, <1>3 DEF Loads, Registered, Config
<1> QED
  BY <1>1, <1>2, <1>4, <1>5 DEF Loads, Registered

-----------------------------------------------------------------------------
(* The inductive invariant.                                                *)

LEMMA InitIndInv == Init => IndInv
<1> SUFFICES ASSUME Init PROVE IndInv
  OBVIOUS
<1>0. file \in Config /\ Loads(file) /\ token \subseteq Object /\ pairs \in Nat
  BY InitialAssumption DEF Init
<1>1. TypeOK
  BY <1>0, CommandAssumption DEF Init, TypeOK, PcStates, Ended
<1>2. StepInv
  BY DEF Init, StepInv
<1>3. ConfigLoads
  BY <1>0 DEF Init, ConfigLoads
<1> QED
  BY <1>1, <1>2, <1>3 DEF IndInv

\* The key a command works on, where it is known.
LEMMA KeyKnown ==
  ASSUME IndInv, NEW p \in Proc,
         pc[p] \in {"genkey", "generate", "selfsign", "register", "delkey",
                    "probe", "delete", "replace", "discard", "import"}
  PROVE  Key(p) \in KeyId /\ Key(p) \in Label
BY NamesAssumption DEF IndInv, TypeOK, StepInv, CommandRecord, Key

LEMMA TypeStep == IndInv /\ [Next]_vars => TypeOK'
<1> SUFFICES ASSUME IndInv, [Next]_vars PROVE TypeOK'
  OBVIOUS
<1>0. TypeOK /\ StepInv /\ ConfigLoads
  BY DEF IndInv
<1> USE <1>0 DEF TypeOK, vars, disk, hsm, local, search, count, Goto, PcStates, Ended,
                 Tools
<1>1. ASSUME NEW p \in Proc, Invoke(p) PROVE TypeOK'
  BY <1>1, CommandAssumption DEF Invoke
<1>2. ASSUME NEW p \in Proc, Load(p) PROVE TypeOK'
  <2>1. FromDict(file) \in Config
    BY <1>2, FromDictLoads DEF Load
  <2> QED
    BY <1>2, <2>1 DEF Load, CommandRecord
<1>3. ASSUME NEW p \in Proc, Refuse(p) PROVE TypeOK'
  BY <1>3 DEF Refuse
<1>4. ASSUME NEW p \in Proc, ProbeKey(p) PROVE TypeOK'
  BY <1>4, KeyKnown DEF ProbeKey
<1>5. ASSUME NEW p \in Proc, Generate(p) PROVE TypeOK'
  <2>1. KeyPair(Key(p), pairs + 1) \subseteq Object
    <3>1. Key(p) \in Label /\ pairs + 1 \in Nat
      BY <1>5, KeyKnown DEF Generate
    <3>2. \A t \in {"private", "public"} :
            [type |-> t, label |-> Key(p), id |-> Key(p), pair |-> pairs + 1,
             issued |-> FALSE] \in Object
      BY <3>1 DEF Object, ObjectType
    <3> QED
      BY <3>2 DEF KeyPair
  <2>2. AddSigningKey(mem[p], Key(p), Key(p)) \in Config
    BY <1>5, KeyKnown, AddLoads DEF Generate, ConfigLoads
  <2> QED
    BY <1>5, <2>1, <2>2 DEF Generate
<1>6. ASSUME NEW p \in Proc, SelfSign(p) PROVE TypeOK'
  BY <1>6 DEF SelfSign, Pairs, Selected, Object
<1>7. ASSUME NEW p \in Proc, SelfSignFails(p) PROVE TypeOK'
  BY <1>7 DEF SelfSignFails
<1>8. ASSUME NEW p \in Proc, Register(p) PROVE TypeOK'
  <2>1. cmd[p].uses \in SUBSET Purpose
    BY DEF CommandRecord
  <2>2. SetKeyForSigners(AddSigningKey(mem[p], Key(p), Key(p)), cmd[p].uses,
                         Key(p)) \in Config
    BY <1>8, <2>1, KeyKnown, AddLoads, SetLoads DEF Register, ConfigLoads
  <2> QED
    BY <1>8, <2>2 DEF Register
<1>9. ASSUME NEW p \in Proc, FindKey(p) PROVE TypeOK'
  <2>1. CASE mem[p].keys[Key(p)] \in Label
    BY <1>9, <2>1 DEF FindKey
  <2>2. CASE mem[p].keys[Key(p)] \notin Label
    BY <1>9, <2>2 DEF FindKey
  <2> QED
    BY <2>1, <2>2
<1>10. ASSUME NEW p \in Proc, ProbeType(p) PROVE TypeOK'
  <2>1. uri[p] \in Label
    BY <1>10 DEF ProbeType
  <2>2. CASE Exists({NextType(p)}, uri[p])
    BY <1>10, <2>1, <2>2 DEF ProbeType
  <2>3. CASE ~Exists({NextType(p)}, uri[p])
    BY <1>10, <2>1, <2>3 DEF ProbeType
  <2> QED
    BY <2>2, <2>3
<1>11. ASSUME NEW p \in Proc, Delete(p) PROVE TypeOK'
  BY <1>11 DEF Delete
<1>12. ASSUME NEW p \in Proc, Forget(p) PROVE TypeOK'
  <2>1. RemoveSigningKey(mem[p], Key(p)) \in Config
    BY <1>12, KeyKnown, RemoveLoads DEF Forget, ConfigLoads
  <2>2. CASE found[p]
    BY <1>12, <2>1, <2>2 DEF Forget
  <2>3. CASE ~found[p]
    BY <1>12, <2>3 DEF Forget
  <2> QED
    BY <2>2, <2>3
<1>13. ASSUME NEW p \in Proc, MatchNamed(p) \/ MatchOnly(p) PROVE TypeOK'
  <2>1. cmd[p].cert \in Nat /\ cmd[p].op = "importcert"
    BY <1>13 DEF CommandRecord, MatchNamed, MatchOnly, StepInv
  <2>2. \A k \in KeyId : [cmd[p] EXCEPT !.key = k] \in CommandRecord
    BY <2>1 DEF CommandRecord
  <2>3. ASSUME NEW k \in KeyId, MatchKey(p, k), mem[p].keys[k] \in Label,
               UNCHANGED <<disk, hsm, mem, left, found, search, failing, count>>
        PROVE  TypeOK'
    BY <2>1, <2>2, <2>3 DEF MatchKey
  <2>4. CASE pc' = [pc EXCEPT ![p] = "failed"] /\ UNCHANGED <<cmd, uri, pem>>
    BY <1>13, <2>4 DEF MatchNamed, MatchOnly
  <2>5. CASE MatchNamed(p)
    BY <2>3, <2>4, <2>5 DEF MatchNamed, Certifies, Key
  <2>6. CASE MatchOnly(p)
    BY <2>3, <2>4, <2>6 DEF MatchOnly, StepInv
  <2> QED
    BY <1>13, <2>5, <2>6
<1>14. ASSUME NEW p \in Proc, ProbeCert(p) PROVE TypeOK'
  BY <1>14 DEF ProbeCert
<1>15. ASSUME NEW p \in Proc, DiscardCert(p) PROVE TypeOK'
  BY <1>15 DEF DiscardCert
<1>16. ASSUME NEW p \in Proc, ImportCert(p) PROVE TypeOK'
  <2>1. [type |-> "cert", label |-> Key(p), id |-> None, pair |-> pem[p],
         issued |-> cmd[p].op # "genkey"] \in Object
    BY <1>16, KeyKnown DEF ImportCert, Object, ObjectType
  <2> QED
    BY <1>16, <2>1 DEF ImportCert
<1>17. ASSUME NEW p \in Proc, Open(p) PROVE TypeOK'
  BY <1>17 DEF Open
<1>18. ASSUME NEW p \in Proc, Write(p) PROVE TypeOK'
  BY <1>18 DEF Write
<1>19. ASSUME NEW p \in Proc, ToolFails(p) PROVE TypeOK'
  <2>1. /\ pc' = [pc EXCEPT ![p] = "save"] \/ pc' = [pc EXCEPT ![p] = "failed"]
        /\ failing' \in [Proc -> BOOLEAN]
        /\ faults' = faults + 1
        /\ UNCHANGED <<disk, hsm, cmd, mem, uri, left, found, search, pem,
                       commands, crashes>>
    BY <1>19 DEF ToolFails
  <2> QED
    BY <2>1
<1>20. ASSUME NEW p \in Proc, Crash(p) PROVE TypeOK'
  BY <1>20 DEF Crash
<1>22. ASSUME NEW p \in Proc, Answer(p) \/ Unanswered(p) PROVE TypeOK'
  BY <1>22 DEF Answer, Unanswered, Ask
<1>21. CASE UNCHANGED vars
  BY <1>21
<1> QED
  BY <1>1, <1>2, <1>3, <1>4, <1>5, <1>6, <1>7, <1>8, <1>9, <1>10, <1>11, <1>12,
     <1>13, <1>14, <1>15, <1>16, <1>17, <1>18, <1>19, <1>20, <1>21, <1>22
  DEF Next, Step, Fault

\* Each step keeps the command, its key and its place together.
LEMMA StepStep == IndInv /\ [Next]_vars => StepInv'
<1> SUFFICES ASSUME IndInv, [Next]_vars PROVE StepInv'
  OBVIOUS
<1>0. TypeOK /\ StepInv /\ ConfigLoads
  BY DEF IndInv
<1> USE <1>0 DEF StepInv, TypeOK, vars, disk, hsm, local, search, count, Goto, Key
<1>1. ASSUME NEW p \in Proc, Invoke(p) PROVE StepInv'
  <2>1. pc' = [pc EXCEPT ![p] = "load"] /\ mem' = mem /\ hits'[p] = {}
    BY <1>1 DEF Invoke
  <2>2. \A q \in Proc : q # p =>
          cmd'[q] = cmd[q] /\ uri'[q] = uri[q] /\ hits'[q] = hits[q]
    BY <1>1 DEF Invoke
  <2> QED
    BY <2>1, <2>2
<1>2. ASSUME NEW p \in Proc, Load(p) PROVE StepInv'
  BY <1>2 DEF Load, CommandRecord
<1>3. ASSUME NEW p \in Proc, Refuse(p) PROVE StepInv'
  BY <1>3 DEF Refuse
<1>4. ASSUME NEW p \in Proc, ProbeKey(p) PROVE StepInv'
  BY <1>4 DEF ProbeKey
<1>5. ASSUME NEW p \in Proc, Generate(p) PROVE StepInv'
  BY <1>5 DEF Generate
<1>6. ASSUME NEW p \in Proc, SelfSign(p) PROVE StepInv'
  BY <1>6, KeyKnown DEF SelfSign
<1>7. ASSUME NEW p \in Proc, SelfSignFails(p) PROVE StepInv'
  BY <1>7 DEF SelfSignFails
<1>8. ASSUME NEW p \in Proc, Register(p) PROVE StepInv'
  BY <1>8 DEF Register
<1>9. ASSUME NEW p \in Proc, FindKey(p) PROVE StepInv'
  BY <1>9 DEF FindKey
<1>10. ASSUME NEW p \in Proc, ProbeType(p) PROVE StepInv'
  BY <1>10 DEF ProbeType
<1>11. ASSUME NEW p \in Proc, Delete(p) PROVE StepInv'
  BY <1>11 DEF Delete
<1>12. ASSUME NEW p \in Proc, Forget(p) PROVE StepInv'
  BY <1>12 DEF Forget
<1>13. ASSUME NEW p \in Proc, MatchNamed(p) \/ MatchOnly(p) PROVE StepInv'
  <2>1. CASE pc' = [pc EXCEPT ![p] = "failed"] /\ UNCHANGED <<cmd, uri>>
    BY <1>13, <2>1 DEF MatchNamed, MatchOnly
  <2>2. ASSUME NEW k \in KeyId, MatchKey(p, k) PROVE StepInv'
    <3>1. cmd[p] \in [op : {"genkey", "delkey", "importcert"},
                      key : KeyId \cup {None}, uses : SUBSET Purpose, cert : Nat]
      BY DEF CommandRecord
    <3>2. cmd'[p].key = k /\ cmd'[p].op = cmd[p].op
      BY <2>2, <3>1 DEF MatchKey
    <3>3. \A q \in Proc : q # p => cmd'[q] = cmd[q] /\ uri'[q] = uri[q]
      BY <2>2 DEF MatchKey
    <3>4. pc' = [pc EXCEPT ![p] = "replace"] /\ cmd[p].op = "importcert"
      BY <1>13, <2>2 DEF MatchKey, MatchNamed, MatchOnly
    <3> QED
      BY <1>13, <3>2, <3>3, <3>4 DEF MatchNamed, MatchOnly
  <2> QED
    BY <1>13, <2>1, <2>2 DEF MatchNamed, MatchOnly
<1>14. ASSUME NEW p \in Proc, ProbeCert(p) PROVE StepInv'
  BY <1>14 DEF ProbeCert
<1>15. ASSUME NEW p \in Proc, DiscardCert(p) PROVE StepInv'
  BY <1>15 DEF DiscardCert
<1>16. ASSUME NEW p \in Proc, ImportCert(p) PROVE StepInv'
  BY <1>16 DEF ImportCert
<1>17. ASSUME NEW p \in Proc, Open(p) PROVE StepInv'
  BY <1>17 DEF Open
<1>18. ASSUME NEW p \in Proc, Write(p) PROVE StepInv'
  BY <1>18 DEF Write
<1>19. ASSUME NEW p \in Proc, ToolFails(p) PROVE StepInv'
  BY <1>19 DEF ToolFails
<1>20. ASSUME NEW p \in Proc, Crash(p) PROVE StepInv'
  BY <1>20 DEF Crash
<1>22. ASSUME NEW p \in Proc, Answer(p) \/ Unanswered(p) PROVE StepInv'
  BY <1>22 DEF Answer, Unanswered, Ask, Certifies
<1>21. CASE UNCHANGED vars
  BY <1>21
<1> QED
  BY <1>1, <1>2, <1>3, <1>4, <1>5, <1>6, <1>7, <1>8, <1>9, <1>10, <1>11, <1>12,
     <1>13, <1>14, <1>15, <1>16, <1>17, <1>18, <1>19, <1>20, <1>21, <1>22
  DEF Next, Step, Fault

\* Only four actions change a copy of the configuration, and one the file.
LEMMA LoadsStep == IndInv /\ [Next]_vars => ConfigLoads'
<1> SUFFICES ASSUME IndInv, [Next]_vars PROVE ConfigLoads'
  OBVIOUS
<1>0. TypeOK /\ ConfigLoads
  BY DEF IndInv
<1> USE <1>0 DEF ConfigLoads, TypeOK
<1>1. ASSUME UNCHANGED <<text, file, mem>> PROVE ConfigLoads'
  BY <1>1
<1>2. ASSUME NEW p \in Proc, Load(p) PROVE ConfigLoads'
  BY <1>2, FromDictLoads DEF Load, disk
<1>3. ASSUME NEW p \in Proc, Generate(p) PROVE ConfigLoads'
  BY <1>3, KeyKnown, AddLoads DEF Generate, disk
<1>4. ASSUME NEW p \in Proc, Register(p) PROVE ConfigLoads'
  <2>1. cmd[p].uses \in SUBSET Purpose
    BY DEF CommandRecord
  <2>2. Loads(SetKeyForSigners(AddSigningKey(mem[p], Key(p), Key(p)),
                               cmd[p].uses, Key(p)))
    BY <1>4, <2>1, KeyKnown, AddLoads, SetLoads DEF Register
  <2> QED
    BY <1>4, <2>2 DEF Register, disk
<1>5. ASSUME NEW p \in Proc, Forget(p) PROVE ConfigLoads'
  <2>1. Loads(RemoveSigningKey(mem[p], Key(p)))
    BY <1>5, KeyKnown, RemoveLoads DEF Forget
  <2> QED
    BY <1>5, <2>1 DEF Forget, disk
<1>6. ASSUME NEW p \in Proc, Open(p) PROVE ConfigLoads'
  BY <1>6 DEF Open, local
<1>7. ASSUME NEW p \in Proc, Write(p) PROVE ConfigLoads'
  BY <1>7 DEF Write, local
<1>8. CASE \E p \in Proc :
        \/ Invoke(p) \/ Refuse(p) \/ ProbeKey(p) \/ SelfSign(p)
        \/ SelfSignFails(p) \/ FindKey(p) \/ ProbeType(p) \/ Delete(p)
        \/ MatchNamed(p) \/ Answer(p) \/ Unanswered(p) \/ MatchOnly(p)
        \/ ProbeCert(p) \/ DiscardCert(p) \/ ImportCert(p)
        \/ ToolFails(p) \/ Crash(p)
  <2>1. UNCHANGED <<text, file, mem>>
    BY <1>8 DEF Invoke, Refuse, ProbeKey, SelfSign, SelfSignFails, FindKey,
                ProbeType, Delete, MatchNamed, Answer, Unanswered, MatchOnly,
                MatchKey, ProbeCert, DiscardCert, ImportCert, ToolFails, Crash,
                disk, local
  <2> QED
    BY <1>1, <2>1
<1>9. CASE UNCHANGED vars
  BY <1>9 DEF vars, disk, local
<1> QED
  BY <1>2, <1>3, <1>4, <1>5, <1>6, <1>7, <1>8, <1>9 DEF Next, Step, Fault

\* IndInv is an invariant of the specification.
THEOREM Invariance == Spec => []IndInv
<1>1. IndInv /\ [Next]_vars => IndInv'
  BY TypeStep, StepStep, LoadsStep DEF IndInv
<1> QED
  BY InitIndInv, <1>1, PTL DEF Spec

\* Type correctness, with the typing of the keys commands work on.
THEOREM TypeCorrect == Spec => []TypeOK
<1>1. IndInv => TypeOK
  BY DEF IndInv
<1> QED
  BY Invariance, <1>1, PTL

\* However many terminals run setup commands, and wherever they are killed, a
\* configuration file that is not torn loads: no section of it names a key
\* that signing-keys lacks (Config.remove_signing_key, set_key_for_signer).
THEOREM ConfigurationLoads == Spec => []ConfigLoads
<1>1. IndInv => ConfigLoads
  BY DEF IndInv
<1> QED
  BY Invariance, <1>1, PTL

\* Only delkey takes a private key off the token, and only the one that the
\* configuration it read gives for its key (setup_importcert and the retries
\* of setup_genkey never do).
THEOREM PrivateKeysStay == Spec => PrivateKeysKept
<1> DEFINE Kept == \A o \in token \ token' : o.type = "private" =>
                     \E p \in Proc : /\ cmd[p].op = "delkey" /\ pc[p] = "delete"
                                     /\ mem[p].keys[Key(p)] = o.label
<1>1. ASSUME IndInv, Next PROVE Kept
  <2>1. ASSUME NEW p \in Proc, Delete(p) PROVE Kept
    BY <1>1, <2>1 DEF Delete, Selected, IndInv, StepInv
  <2>2. ASSUME NEW p \in Proc, DiscardCert(p) PROVE Kept
    BY <2>2 DEF DiscardCert, Selected
  <2>3. CASE token \subseteq token'
    BY <2>3
  <2>4. ASSUME NEW p \in Proc,
               Invoke(p) \/ Step(p) \/ Fault(p),
               ~Delete(p), ~DiscardCert(p)
        PROVE  token \subseteq token'
    BY <2>4 DEF Step, Invoke, Load, Refuse, ProbeKey, Generate, SelfSign,
         SelfSignFails, Register, FindKey, ProbeType, Forget, MatchNamed, Answer,
         Unanswered, MatchOnly, ProbeCert, ImportCert, Open, Write, Fault,
         ToolFails, Crash, hsm
  <2> QED
    BY <1>1, <2>1, <2>2, <2>3, <2>4 DEF Next
<1>2. IndInv /\ [Next]_vars => [Kept]_vars
  BY <1>1
<1> QED
  BY Invariance, <1>2, PTL DEF Spec, PrivateKeysKept

-----------------------------------------------------------------------------
(* Commands that do not overlap.                                           *)

\* delete_key always has a type to go on with.
LEMMA NextTypeLeft ==
  ASSUME TypeOK, NEW p \in Proc, left[p] # {}
  PROVE  NextType(p) \in left[p] /\ left[p] \subseteq ObjectType
BY DEF TypeOK, NextType, ObjectType

LEMMA AloneStep ==
  ASSUME NEW p, Proc = {p}, Listed = ObjectType
  PROVE  IndInv /\ AloneInv /\ [Next]_vars => AloneInv'
<1> SUFFICES ASSUME IndInv, AloneInv, [Next]_vars PROVE AloneInv'
  OBVIOUS
<1>0. TypeOK /\ StepInv /\ p \in Proc
  BY DEF IndInv
<1> USE <1>0 DEF AloneInv, TypeOK, StepInv, vars, disk, hsm, local, search, count, Goto,
                 Key, Selected, DelkeyDone
<1>1. CASE Invoke(p)
  BY <1>1 DEF Invoke, OneKeyPerLabel
<1>2. CASE Load(p) \/ Refuse(p) \/ Crash(p) \/ SelfSign(p) \/ SelfSignFails(p)
           \/ Register(p) \/ ProbeCert(p) \/ ToolFails(p) \/ FindKey(p)
  <2>1. UNCHANGED <<token, cmd, left>> /\ OneKeyPerLabel'
    BY <1>2 DEF Load, Refuse, Crash, SelfSign, SelfSignFails, Register,
                ProbeCert, ToolFails, FindKey, OneKeyPerLabel
  <2>2. CASE Load(p)
    BY <2>1, <2>2 DEF Load, CommandRecord
  <2>3. CASE FindKey(p)
    <3>1. \/ pc'[p] = "failed"
          \/ pc'[p] = "probe" /\ left'[p] = ObjectType
      BY <2>1, <2>3 DEF FindKey
    <3> QED
      BY <2>1, <3>1
  <2>4. CASE \/ Refuse(p) \/ Crash(p) \/ SelfSign(p) \/ SelfSignFails(p)
             \/ Register(p) \/ ProbeCert(p) \/ ToolFails(p)
    <3>1. cmd'[p].op = cmd[p].op
      BY <2>1
    <3>2. \/ pc'[p] \in {"failed", "killed", "import", "discard"}
          \/ pc'[p] = "save" /\ cmd[p].op = "genkey"
      BY <2>4 DEF Refuse, Crash, SelfSign, SelfSignFails, Register, ProbeCert,
                  ToolFails
    <3> QED
      BY <2>1, <3>1, <3>2
  <2> QED
    BY <1>2, <2>2, <2>3, <2>4
<1>3. CASE ProbeKey(p)
  <2>1. token' = token /\ cmd' = cmd /\ OneKeyPerLabel'
    BY <1>3 DEF ProbeKey, OneKeyPerLabel
  <2>2. pc'[p] = "register" \/ (pc'[p] = "generate" /\ ~Exists(ObjectType, Key(p)))
    BY <1>3 DEF ProbeKey
  <2>3. ~Exists(ObjectType, Key(p)) => ~Exists(ObjectType, Key(p))'
    BY <2>1 DEF Exists
  <2> QED
    BY <2>1, <2>2, <2>3
<1>4. CASE Generate(p)
  <2>1. ~Exists(ObjectType, Key(p)) /\ pc'[p] = "selfsign"
    BY <1>4 DEF Generate
  <2>2. \A o \in token : o.label # Key(p)
    BY <2>1 DEF Exists, Object
  <2>3. token' = token \cup KeyPair(Key(p), pairs')
    BY <1>4 DEF Generate
  <2>4. \A o \in KeyPair(Key(p), pairs') :
          /\ o.label = Key(p)
          /\ \A q \in KeyPair(Key(p), pairs') :
               o.type = "private" /\ q.type = "private" => o = q
    <3> SUFFICES ASSUME NEW o \in KeyPair(Key(p), pairs')
                 PROVE  /\ o.label = Key(p)
                        /\ o.type = "private" =>
                             o = [type |-> "private", label |-> Key(p),
                                  id |-> Key(p), pair |-> pairs',
                                  issued |-> FALSE]
      OBVIOUS
    <3>1. PICK t : o = [type |-> t, label |-> Key(p), id |-> Key(p),
                        pair |-> pairs', issued |-> FALSE]
      BY DEF KeyPair
    <3> QED
      BY <3>1
  <2>5. OneKeyPerLabel'
    BY <2>2, <2>3, <2>4 DEF OneKeyPerLabel
  <2> QED
    BY <2>1, <2>5
<1>5. CASE ProbeType(p)
  <2>1. NextType(p) \in left[p] /\ left[p] \subseteq ObjectType
    BY <1>5, NextTypeLeft DEF ProbeType
  <2>2. OneKeyPerLabel' /\ UNCHANGED <<token, cmd, uri>>
    BY <1>5 DEF ProbeType, OneKeyPerLabel
  <2>3. CASE Exists({NextType(p)}, uri[p])
    BY <1>5, <2>2, <2>3 DEF ProbeType
  <2>4. CASE ~Exists({NextType(p)}, uri[p])
    <3>1. \A o \in token : o.type = NextType(p) => o.label # uri[p]
      BY <2>1, <2>4 DEF Exists
    <3> QED
      BY <1>5, <2>1, <2>2, <2>4, <3>1 DEF ProbeType
  <2> QED
    BY <2>3, <2>4
<1>6. CASE Delete(p)
  <2>1. OneKeyPerLabel'
    BY <1>6 DEF Delete, OneKeyPerLabel
  <2> QED
    BY <1>6, <2>1 DEF Delete
<1>7. CASE Forget(p)
  <2>1. ~Registered(RemoveSigningKey(mem[p], Key(p)), Key(p))
    BY <1>7, KeyKnown, RemoveLoads DEF Forget, IndInv, ConfigLoads
  <2>2. OneKeyPerLabel'
    BY <1>7 DEF Forget, OneKeyPerLabel
  <2> QED
    BY <1>7, <2>1, <2>2 DEF Forget
<1>8. CASE MatchNamed(p) \/ MatchOnly(p) \/ Answer(p) \/ Unanswered(p)
  <2>1. pc'[p] \in {"importcert", "replace", "failed"} /\ token' = token
    BY <1>8 DEF MatchNamed, MatchOnly, MatchKey, Answer, Unanswered, Ask
  <2> QED
    BY <2>1 DEF OneKeyPerLabel
<1>9. CASE DiscardCert(p)
  BY <1>9 DEF DiscardCert, OneKeyPerLabel
<1>10. CASE ImportCert(p)
  <2>1. pc'[p] \in {"register", "done"} /\ cmd'[p].op # "delkey"
    BY <1>10 DEF ImportCert
  <2>2. OneKeyPerLabel'
    BY <1>10 DEF ImportCert, OneKeyPerLabel
  <2> QED
    BY <2>1, <2>2
<1>11. CASE Open(p)
  BY <1>11 DEF Open, OneKeyPerLabel
<1>12. CASE Write(p)
  BY <1>12 DEF Write, OneKeyPerLabel, Registered
<1>13. CASE UNCHANGED vars
  BY <1>13 DEF OneKeyPerLabel, Exists, Registered
<1> QED
  BY <1>1, <1>2, <1>3, <1>4, <1>5, <1>6, <1>7, <1>8, <1>9, <1>10, <1>11, <1>12,
     <1>13 DEF Next, Step, Fault

\* What one terminal starts with: a token that lists all that it holds, and no
\* two private keys of one label.
OneCommand(p) ==
  /\ Proc = {p} /\ Listed = ObjectType
  /\ \A w \in InitialWorld : \A o, q \in w.token :
       o.type = "private" /\ q.type = "private" /\ o.label = q.label => o = q

LEMMA AloneInvariance ==
  ASSUME NEW p, OneCommand(p)
  PROVE  Spec => []AloneInv
<1>1. Init => AloneInv
  BY DEF Init, AloneInv, OneKeyPerLabel, DelkeyDone, OneCommand
<1>2. IndInv /\ AloneInv /\ [Next]_vars => AloneInv'
  BY AloneStep DEF OneCommand
<1> QED
  BY Invariance, <1>1, <1>2, PTL DEF Spec

\* With one command at a time: genkey never adds a second private key of a
\* label, however often it is interrupted and repeated (genkey_initial looks for
\* the key before it makes one).
THEOREM OneKey ==
  ASSUME NEW p, OneCommand(p)
  PROVE  Spec => []OneKeyPerLabel
<1>1. AloneInv => OneKeyPerLabel
  BY DEF AloneInv
<1> QED
  BY AloneInvariance, <1>1, PTL

\* With one command at a time: delkey that reports success has left nothing of
\* the key on the token (delete_key's loop over the types) or in the file.
THEOREM DeletedWhole ==
  ASSUME NEW p, OneCommand(p)
  PROVE  Spec => []DelkeyDone
<1>1. AloneInv => DelkeyDone
  BY DEF AloneInv
<1> QED
  BY AloneInvariance, <1>1, PTL

-----------------------------------------------------------------------------
(* What a section says besides its key.                                    *)

\* Loading what has been loaded and saved changes nothing more.
LEMMA LoadedTwice ==
  ASSUME NEW c \in Config
  PROVE  /\ FromDict(FromDict(c)).raw = FromDict(c).raw
         /\ SameSettings(c, FromDict(c))
<1>1. \A r \in RawSettings : Normal(r) \in RawSettings /\ Normal(Normal(r)) = Normal(r)
  BY NamesAssumption DEF RawSettings, Normal
<1>2. /\ FromDict(c).raw = [s \in RawSection |-> Normal(c.raw[s])]
      /\ \A s \in RawSection : c.raw[s] \in RawSettings
      /\ FromDict(FromDict(c)).raw =
           [s \in RawSection |-> Normal(Normal(c.raw[s]))]
  BY DEF Config, FromDict
<1>3. SameSettings(c, FromDict(c))
  BY DEF Config, FromDict, SameSettings
<1> QED
  BY <1>1, <1>2, <1>3

\* Registering a key and giving it its uses touch no settings.
LEMMA AddKeeps ==
  ASSUME NEW c \in Config, NEW k \in KeyId, NEW l \in Label,
         NEW uses \in SUBSET Purpose
  PROVE  \A d \in {AddSigningKey(c, k, l), SetKeyForSigners(c, uses, k)} :
           /\ FromDict(d).raw = FromDict(c).raw
           /\ FromDict(d).srk = FromDict(c).srk
           /\ FromDict(d).level = FromDict(c).level
BY DEF Config, AddSigningKey, SetKeyForSigners, FromDict

\* Removing a key touches those of the sections it drops.
LEMMA RemoveKeeps ==
  ASSUME NEW c \in Config, NEW k \in KeyId
  PROVE  LET d == RemoveSigningKey(c, k) IN
         /\ FromDict(d).srk = FromDict(c).srk
         /\ FromDict(d).level = FromDict(c).level
         /\ \A s \in RawSection : d.use[s] # None =>
              FromDict(d).raw[s] = FromDict(c).raw[s]
<1> DEFINE d == RemoveSigningKey(c, k)
<1>1. RawSection \subseteq Purpose
  BY DEF RawSection, Purpose
<1>2. /\ d.srk = c.srk /\ d.level = c.level
      /\ \A s \in RawSection :
           /\ d.use[s] = IF c.use[s] = k THEN None ELSE c.use[s]
           /\ d.raw[s] = IF c.use[s] = k THEN Plain ELSE c.raw[s]
  BY <1>1 DEF Config, RemoveSigningKey
<1>3. \A e : /\ FromDict(e).raw = [s \in RawSection |-> Normal(e.raw[s])]
  BY DEF FromDict
<1> QED
  BY <1>2, <1>3 DEF FromDict, RemoveSigningKey, Config

\* What the file says of settings changes with a save only, by what is kept.
LEMMA SettingsStep ==
  ASSUME NEW p, Proc = {p}, IndInv, SettingsInv, Next
  PROVE  SettingsInv' /\ Keeps(file, file')
<1> DEFINE Busy == pc[p] \notin Ended \cup {"load", "save", "write"}
           Same == /\ SameSettings(file, mem[p])
                   /\ FromDict(mem[p]).raw = FromDict(file).raw
<1>0. /\ TypeOK /\ p \in Proc /\ file \in Config /\ mem[p] \in Config
      /\ Busy => Same
      /\ pc[p] \in {"save", "write"} => Keeps(file, mem[p])
      /\ pc \in [Proc -> PcStates] /\ mem \in [Proc -> Config]
  BY DEF IndInv, TypeOK, SettingsInv
<1>1. Keeps(file, file) /\ (Same => Keeps(file, mem[p]))
  BY DEF Keeps, SameSettings
<1> SUFFICES /\ Keeps(file, file')
             /\ Busy' => Same'
             /\ pc'[p] \in {"save", "write"} => Keeps(file', mem'[p])
  BY DEF SettingsInv
<1> USE DEF Goto, Key, vars, disk, hsm, local, search, count
<1>2. CASE Invoke(p)
  BY <1>0, <1>1, <1>2 DEF Invoke, Ended
<1>3. CASE Load(p)
  <2>1. file' = file /\ mem'[p] = FromDict(file) /\ pc'[p] = cmd[p].op
    BY <1>0, <1>3 DEF Load
  <2>2. cmd[p].op \in {"genkey", "delkey", "importcert"}
    BY <1>0 DEF TypeOK, CommandRecord
  <2> QED
    BY <1>0, <1>1, <2>1, <2>2, LoadedTwice DEF Ended
<1>4. CASE Generate(p) \/ Register(p)
  <2>1. file' = file /\ Busy /\ Same /\ Key(p) \in KeyId /\ Key(p) \in Label
        /\ cmd[p].uses \in SUBSET Purpose
    BY <1>0, <1>4, KeyKnown, NamesAssumption
       DEF Generate, Register, Ended, IndInv, TypeOK, CommandRecord
  <2>2. AddSigningKey(mem[p], Key(p), Key(p)) \in Config
    BY <1>0, <2>1, AddLoads DEF IndInv, ConfigLoads
  <2>3. /\ FromDict(mem'[p]).raw = FromDict(mem[p]).raw
        /\ FromDict(mem'[p]).srk = FromDict(mem[p]).srk
        /\ FromDict(mem'[p]).level = FromDict(mem[p]).level
    <3>1. CASE Generate(p)
      <4> DEFINE d == AddSigningKey(mem[p], Key(p), Key(p))
      <4>1. mem'[p] = d
        BY <1>0, <3>1 DEF Generate
      <4>2. /\ FromDict(d).raw = FromDict(mem[p]).raw
            /\ FromDict(d).srk = FromDict(mem[p]).srk
            /\ FromDict(d).level = FromDict(mem[p]).level
        BY <1>0, <2>1, AddKeeps
      <4> QED
        BY <4>1, <4>2
    <3>2. CASE Register(p)
      <4> DEFINE d == AddSigningKey(mem[p], Key(p), Key(p))
      <4>1. mem'[p] = SetKeyForSigners(d, cmd[p].uses, Key(p))
        BY <1>0, <3>2 DEF Register
      <4>2. /\ FromDict(d).raw = FromDict(mem[p]).raw
            /\ FromDict(d).srk = FromDict(mem[p]).srk
            /\ FromDict(d).level = FromDict(mem[p]).level
        BY <1>0, <2>1, AddKeeps
      <4> QED
        BY <2>1, <2>2, <4>1, <4>2, AddKeeps
    <3> QED
      BY <1>4, <3>1, <3>2
  <2> QED
    BY <1>1, <2>1, <2>3 DEF SameSettings, Keeps
<1>5. CASE Forget(p)
  <2>1. file' = file /\ Busy /\ Same /\ Key(p) \in KeyId
    BY <1>0, <1>5, KeyKnown DEF Forget, Ended, IndInv
  <2>2. CASE found[p]
    <3>1. mem'[p] = RemoveSigningKey(mem[p], Key(p)) /\ pc'[p] = "save"
      BY <1>0, <1>5, <2>2 DEF Forget
    <3> QED
      BY <1>0, <1>1, <2>1, <3>1, RemoveKeeps DEF SameSettings, Keeps
  <2>3. CASE ~found[p]
    BY <1>0, <1>1, <1>5, <2>1, <2>3 DEF Forget, Ended
  <2> QED
    BY <2>2, <2>3
<1>6. CASE Write(p)
  BY <1>0, <1>6 DEF Write, Ended
<1>7. CASE \/ Refuse(p) \/ ProbeKey(p) \/ SelfSign(p) \/ SelfSignFails(p)
           \/ FindKey(p) \/ ProbeType(p) \/ Delete(p) \/ MatchNamed(p)
           \/ Answer(p) \/ MatchOnly(p) \/ ProbeCert(p) \/ DiscardCert(p)
           \/ ImportCert(p) \/ Open(p) \/ Fault(p)
  <2>1. file' = file /\ mem' = mem
    BY <1>7 DEF Refuse, ProbeKey, SelfSign, SelfSignFails, FindKey, ProbeType,
         Delete, MatchNamed, MatchKey, Answer, MatchOnly, ProbeCert, DiscardCert,
         ImportCert, Open, Fault, ToolFails, Unanswered, Crash
  <2>2. \/ Busy /\ (Busy' \/ pc'[p] \in Ended \cup {"save"})
        \/ pc[p] = "save" /\ pc'[p] = "write"
        \/ pc'[p] \in Ended
    BY <1>0, <1>7 DEF Refuse, ProbeKey, SelfSign, SelfSignFails, FindKey, ProbeType,
         Delete, MatchNamed, MatchKey, Answer, MatchOnly, Ask, ProbeCert, DiscardCert,
         ImportCert, Open, Fault, ToolFails, Unanswered, Crash, Ended, Tools
  <2> QED
    BY <1>0, <1>1, <2>1, <2>2 DEF Ended
<1> QED
  BY <1>2, <1>3, <1>4, <1>5, <1>6, <1>7 DEF Next, Step, Fault

\* With one command at a time a save keeps the settings of every section that
\* stays, through any sequence of commands, failures and kills.
THEOREM SettingsStay ==
  ASSUME NEW p, Proc = {p}
  PROVE  Spec => SettingsKept
<1>1. Init => SettingsInv
  BY DEF Init, SettingsInv, Ended
<1>2. IndInv /\ SettingsInv /\ [Next]_vars => SettingsInv' /\ [Keeps(file, file')]_vars
  <2>1. CASE Next
    BY <2>1, SettingsStep
  <2>2. CASE UNCHANGED vars
    BY <2>2 DEF vars, disk, hsm, local, search, count, SettingsInv
  <2> QED
    BY <2>1, <2>2
<1> QED
  BY Invariance, <1>1, <1>2, PTL DEF Spec, SettingsKept

-----------------------------------------------------------------------------
(* KeySetup implements KeyStore.                                           *)

\* What the operations make of signing-keys.
LEMMA KeysOf ==
  ASSUME NEW c \in Config, NEW k \in KeyId
  PROVE  /\ FromDict(c).keys = c.keys
         /\ AddSigningKey(c, k, k) \in Config
         /\ AddSigningKey(c, k, k).keys = [c.keys EXCEPT ![k] = k]
         /\ RemoveSigningKey(c, k).keys = [c.keys EXCEPT ![k] = None]
BY NamesAssumption DEF Config, FromDict, AddSigningKey, RemoveSigningKey

LEMMA UsesOf ==
  ASSUME NEW c \in Config, NEW k \in KeyId, NEW uses \in SUBSET Purpose
  PROVE  /\ SetKeyForSigners(c, uses, k).keys = c.keys
         /\ \A u \in uses : SetKeyForSigners(c, uses, k).use[u] = k
BY DEF Config, SetKeyForSigners

\* The entry of its command's key is all that a process changes.
LEMMA KeysStep ==
  ASSUME NEW p, Proc = {p}, IndInv, KeysInv, Next
  PROVE  KeysInv'
<1> DEFINE k == Key(p)
           Same == mem[p].keys = file.keys
           Named == mem[p].keys = [file.keys EXCEPT ![k] = k]
           Forgotten == mem[p].keys = [file.keys EXCEPT ![k] = None]
<1>0. /\ TypeOK /\ StepInv /\ p \in Proc /\ file \in Config /\ mem[p] \in Config
      /\ pc \in [Proc -> PcStates] /\ mem \in [Proc -> Config]
      /\ cmd \in [Proc -> CommandRecord] /\ uri \in [Proc -> Label \cup {None, NoUri}]
      /\ cmd[p].op \in {"genkey", "delkey", "importcert"}
  BY DEF IndInv, TypeOK, CommandRecord
<1>1. /\ pc[p] \notin Ended \cup {"load"} /\ cmd[p].op = "genkey" => Same \/ Named
      /\ pc[p] \in {"delkey", "probe", "delete"} => Same
      /\ pc[p] \in {"save", "write"} /\ cmd[p].op = "delkey" =>
           file.keys[k] = uri[p] /\ uri[p] \in Label /\ Forgotten
  BY <1>0 DEF KeysInv
<1> SUFFICES
      /\ pc'[p] \notin Ended \cup {"load"} /\ cmd'[p].op = "genkey" => Same' \/ Named'
      /\ pc'[p] \in {"delkey", "probe", "delete"} => Same'
      /\ pc'[p] \in {"save", "write"} /\ cmd'[p].op = "delkey" =>
           (file.keys[k] = uri[p])' /\ uri'[p] \in Label /\ Forgotten'
  BY DEF KeysInv
<1> USE DEF Goto, Key, vars, disk, hsm, local, search, count
<1>2. CASE Load(p)
  <2>1. file' = file /\ mem'[p] = FromDict(file) /\ cmd' = cmd /\ pc'[p] = cmd[p].op
    BY <1>0, <1>2 DEF Load
  <2>2. FromDict(file).keys = file.keys
    BY <1>0 DEF Config, FromDict
  <2> QED
    BY <1>0, <2>1, <2>2
<1>3. CASE Generate(p) \/ Register(p)
  <2>1. /\ UNCHANGED <<file, cmd>> /\ k \in KeyId /\ cmd[p].uses \in SUBSET Purpose
        /\ cmd[p].op = "genkey" /\ pc[p] \in {"generate", "register"}
        /\ pc'[p] \in {"selfsign", "save"}
    BY <1>0, <1>3, KeyKnown DEF Generate, Register, CommandRecord, StepInv
  <2> DEFINE d == AddSigningKey(mem[p], k, k)
  <2>2. d \in Config /\ d.keys = [mem[p].keys EXCEPT ![k] = k]
    BY <1>0, <2>1, KeysOf
  <2>3. SetKeyForSigners(d, cmd[p].uses, k).keys = d.keys
    BY <2>1, <2>2, UsesOf
  <2>4. mem'[p].keys = [mem[p].keys EXCEPT ![k] = k]
    <3>1. CASE Generate(p)
      BY <1>0, <2>2, <3>1 DEF Generate
    <3>2. CASE Register(p)
      BY <1>0, <2>2, <2>3, <3>2 DEF Register
    <3> QED
      BY <1>3, <3>1, <3>2
  <2>5. Same \/ Named
    BY <1>1, <2>1 DEF Ended
  <2>6. file.keys \in [KeyId -> Label \cup {None, NoUri}]
    BY <1>0 DEF Config
  <2>7. Named'
    BY <2>1, <2>4, <2>5, <2>6
  <2> QED
    BY <2>1, <2>7
<1>4. CASE FindKey(p)
  BY <1>0, <1>1, <1>4 DEF FindKey, Ended, StepInv
<1>5. CASE Forget(p)
  <2>1. /\ UNCHANGED <<file, cmd, uri>> /\ k \in KeyId /\ cmd[p].op = "delkey" /\ Same
        /\ uri[p] = mem[p].keys[k] /\ uri[p] \in Label
    BY <1>0, <1>1, <1>5, KeyKnown DEF Forget, StepInv, TypeOK
  <2>2. CASE found[p]
    <3>1. mem'[p] = RemoveSigningKey(mem[p], k) /\ pc'[p] = "save"
      BY <1>0, <1>5, <2>2 DEF Forget
    <3>2. mem'[p].keys = [mem[p].keys EXCEPT ![k] = None]
      BY <1>0, <2>1, <3>1, KeysOf
    <3>3. k' = k /\ Forgotten'
      BY <2>1, <3>2
    <3> QED
      BY <2>1, <3>1, <3>3
  <2>3. CASE ~found[p]
    BY <1>0, <1>5, <2>1, <2>3 DEF Forget, Ended
  <2> QED
    BY <2>2, <2>3
<1>6. CASE Write(p)
  BY <1>0, <1>6 DEF Write, Ended
<1>7. CASE Invoke(p)
  BY <1>0, <1>7 DEF Invoke
<1>8. CASE MatchNamed(p) \/ MatchOnly(p)
  <2>1. \/ pc'[p] = "failed"
        \/ pc'[p] = "replace" /\ \E j \in KeyId : cmd' = [cmd EXCEPT ![p].key = j]
    BY <1>0, <1>8 DEF MatchNamed, MatchOnly, MatchKey
  <2>2. cmd[p].op = "importcert" /\ cmd[p] \in CommandRecord
    BY <1>0, <1>8 DEF MatchNamed, MatchOnly, StepInv
  <2>3. CASE pc'[p] = "failed"
    BY <2>3 DEF Ended
  <2>4. CASE \E j \in KeyId : cmd' = [cmd EXCEPT ![p].key = j]
    <3>1. cmd'[p].op = "importcert"
      BY <1>0, <2>2, <2>4 DEF CommandRecord
    <3> QED
      BY <2>1, <3>1
  <2> QED
    BY <2>1, <2>3, <2>4
<1>9. CASE \/ Refuse(p) \/ ProbeKey(p) \/ SelfSign(p) \/ SelfSignFails(p)
           \/ ProbeType(p) \/ Delete(p) \/ Answer(p)
           \/ ProbeCert(p) \/ DiscardCert(p)
           \/ ImportCert(p) \/ Open(p) \/ Fault(p)
  <2>1. UNCHANGED <<file, mem, cmd>>
    BY <1>9 DEF Refuse, ProbeKey, SelfSign, SelfSignFails, ProbeType,
         Delete, Answer, ProbeCert, DiscardCert,
         ImportCert, Open, Fault, ToolFails, Unanswered, Crash
  <2>2. \/ pc'[p] \in Ended
        \/ pc[p] \notin Ended \cup {"load"} /\ cmd[p].op # "delkey"
           /\ pc'[p] \notin {"delkey", "probe", "delete"}
        \/ pc[p] \in {"probe", "delete"} /\ pc'[p] \in {"probe", "delete"}
           /\ cmd[p].op = "delkey"
        \/ pc[p] = "save" /\ pc'[p] = "write" /\ uri' = uri
    BY <1>0, <1>9 DEF Refuse, ProbeKey, SelfSign, SelfSignFails, ProbeType,
         Delete, Answer, Ask, ProbeCert, DiscardCert, StepInv,
         ImportCert, Open, Fault, ToolFails, Unanswered, Crash, Ended, Tools
  <2> QED
    BY <1>0, <1>1, <2>1, <2>2 DEF Ended
<1> QED
  BY <1>2, <1>3, <1>4, <1>5, <1>6, <1>7, <1>8, <1>9 DEF Next, Step, Fault

\* A command at work is one process.
LEMMA WorkOf ==
  ASSUME NEW p, Proc = {p}
  PROVE  work = IF pc[p] \in Ended \/ cmd[p].op = "importcert"
                THEN {} ELSE {<<cmd[p].op, Key(p)>>}
BY DEF work

\* Only private objects count.
LEMMA HeldSame ==
  ASSUME \A o : o.type = "private" => (o \in token' <=> o \in token)
  PROVE  held' = held
<1>1. \A l \in Label : Selected({"private"}, l)' = Selected({"private"}, l)
  BY DEF Selected
<1>2. \A l \in Label : Pairs("private", l)' = Pairs("private", l)
  BY <1>1 DEF Pairs
<1> QED
  BY <1>2 DEF held

\* Every step, seen through the private keys and the names the file gives them.
LEMMA StoreStep ==
  ASSUME NEW p, Proc = {p}, Listed = ObjectType, IndInv, AloneInv, KeysInv, Next
  PROVE  [Store!Next]_(Store!storeVars)
<1> DEFINE k == Key(p)
           Quiet == pc[p] \in Ended \/ cmd[p].op = "importcert"
           Objects == UNCHANGED <<held, pairs>>
<1>0. /\ TypeOK /\ StepInv /\ p \in Proc /\ file \in Config /\ pairs \in Nat
      /\ pc \in [Proc -> PcStates] /\ cmd \in [Proc -> CommandRecord]
      /\ cmd[p] \in CommandRecord /\ cmd[p].op \in {"genkey", "delkey", "importcert"}
      /\ file.keys \in [KeyId -> Label \cup {None, NoUri}]
  BY DEF IndInv, TypeOK, CommandRecord, Config
<1>1. /\ work = IF Quiet THEN {} ELSE {<<cmd[p].op, k>>}
      /\ work' = IF Quiet' THEN {} ELSE {<<cmd[p].op, k>>}'
  BY WorkOf DEF work
<1>2. cmd[p].op # "importcert" => k \in KeyId /\ k \in Label
  BY <1>0, NamesAssumption DEF CommandRecord, Key
<1> USE DEF Goto, vars, disk, hsm, local, search, count, Store!Next, Store!storeVars
<1>3. ASSUME UNCHANGED <<held, pairs, file, work>> PROVE [Store!Next]_(Store!storeVars)
  BY <1>3
<1>4. ASSUME UNCHANGED <<held, pairs, file>>, pc'[p] \in Ended
      PROVE  [Store!Next]_(Store!storeVars)
  <2>1. work' = {}
    BY <1>1, <1>4
  <2>2. CASE work = {}
    BY <1>3, <1>4, <2>1, <2>2
  <2>3. CASE work # {}
    BY <1>4, <2>1, <2>3 DEF Store!End
  <2> QED
    BY <2>2, <2>3
<1>5. CASE Invoke(p)
  <2>1. Objects /\ UNCHANGED file /\ work = {} /\ pc'[p] = "load"
        /\ cmd'[p] \in CommandRecord
    BY <1>0, <1>1, <1>5, HeldSame, CommandAssumption DEF Invoke
  <2>2. CASE cmd'[p].op = "importcert"
    BY <1>1, <1>3, <2>1, <2>2
  <2>3. CASE cmd'[p].op # "importcert"
    <3>1. k' \in KeyId /\ cmd'[p].op \in {"genkey", "delkey"}
      BY <2>1, <2>3 DEF CommandRecord, Key
    <3>2. work' = {<<cmd'[p].op, k'>>}
      BY <1>1, <2>1, <2>3 DEF Ended, Key
    <3>3. Store!Begin(cmd'[p].op, k')
      BY <2>1, <3>2 DEF Store!Begin
    <3> QED
      BY <3>1, <3>3
  <2> QED
    BY <2>2, <2>3
<1>6. CASE Generate(p)
  <2>1. /\ UNCHANGED <<file, cmd>> /\ pc'[p] \notin Ended /\ pc[p] \notin Ended
        /\ cmd[p].op = "genkey" /\ ~Exists(ObjectType, k)
        /\ pairs' = pairs + 1 /\ token' = token \cup KeyPair(k, pairs')
    BY <1>0, <1>6 DEF Generate, StepInv, Ended, AloneInv
  <2>2. k \in KeyId /\ k \in Label /\ <<"genkey", k>> \in work /\ work' = work
    BY <1>1, <1>2, <2>1 DEF Key
  <2>3. \A o \in token : o.label # k
    BY <1>0, <2>1 DEF Exists, TypeOK, Object
  <2>4. \A o \in KeyPair(k, pairs') : o.label = k /\ o.pair = pairs'
    BY DEF KeyPair
  <2>5. \E o \in KeyPair(k, pairs') : o.type = "private"
    <3>1. [type |-> "private", label |-> k, id |-> k, pair |-> pairs',
           issued |-> FALSE] \in KeyPair(k, pairs')
      BY DEF KeyPair
    <3> QED
      BY <3>1
  <2>6. \A l \in Label : Pairs("private", l)' =
          IF l = k THEN {pairs'} ELSE Pairs("private", l)
    <3> SUFFICES ASSUME NEW l \in Label
                 PROVE  Pairs("private", l)' =
                          IF l = k THEN {pairs'} ELSE Pairs("private", l)
      OBVIOUS
    <3>1. CASE l # k
      <4>1. Selected({"private"}, l)' = Selected({"private"}, l)
        BY <2>1, <2>4, <3>1 DEF Selected
      <4> QED
        BY <3>1, <4>1 DEF Pairs
    <3>2. CASE l = k
      <4> DEFINE sel == {o \in token' : o.type \in {"private"} /\ o.label = l}
      <4>1. sel # {} /\ \A o \in sel : o.pair = pairs'
        BY <2>1, <2>3, <2>4, <2>5, <3>2
      <4>2. Pairs("private", l)' = {o.pair : o \in sel}
        BY DEF Pairs, Selected
      <4> HIDE DEF sel
      <4> QED
        BY <3>2, <4>1, <4>2
    <3> QED
      BY <3>1, <3>2
  <2>7. held[k] = {} /\ held' = [held EXCEPT ![k] = {pairs'}]
    <3>1. held[k] = {}
      BY <2>2, <2>3 DEF held, Pairs, Selected
    <3> QED
      BY <2>6, <3>1 DEF held
  <2>8. Store!Create(k)
    BY <2>1, <2>2, <2>7 DEF Store!Create
  <2> QED
    BY <2>2, <2>8
<1>7. CASE Delete(p)
  <2>1. /\ UNCHANGED <<file, cmd, pairs>> /\ pc'[p] \notin Ended /\ pc[p] \notin Ended
        /\ cmd[p].op = "delkey" /\ uri[p] = file.keys[k] /\ uri[p] \in Label
        /\ token' = token \ Selected({NextType(p)}, uri[p])
    BY <1>0, <1>7 DEF Delete, StepInv, Ended, KeysInv, TypeOK
  <2>2. k \in KeyId /\ <<"delkey", k>> \in work /\ work' = work
    BY <1>1, <1>2, <2>1 DEF Key
  <2>3. CASE NextType(p) # "private"
    BY <1>3, <2>1, <2>2, <2>3, HeldSame DEF Selected
  <2>4. CASE NextType(p) = "private"
    <3>1. ASSUME NEW l \in Label
          PROVE  Selected({"private"}, l)' =
                   IF l = uri[p] THEN {} ELSE Selected({"private"}, l)
      BY <2>1, <2>4 DEF Selected
    <3>2. \A l \in Label : Pairs("private", l)' =
            IF l = uri[p] THEN {} ELSE Pairs("private", l)
      BY <3>1 DEF Pairs
    <3>3. held' = [held EXCEPT ![file.keys[k]] = {}]
      BY <2>1, <3>2 DEF held
    <3>4. Store!Destroy(k)
      BY <2>1, <2>2, <3>3 DEF Store!Destroy
    <3> QED
      BY <2>2, <3>4
  <2> QED
    BY <2>3, <2>4
<1>8. CASE Write(p)
  <2>1. /\ file' = mem[p] /\ pc'[p] \in Ended /\ pc[p] = "write"
        /\ UNCHANGED <<token, pairs, cmd>> /\ cmd[p].op # "importcert"
    BY <1>0, <1>8 DEF Write, StepInv, Ended
  <2>2. Objects /\ work' = {} /\ work = {<<cmd[p].op, k>>} /\ k \in KeyId
    BY <1>1, <1>2, <2>1, HeldSame DEF Ended
  <2>3. CASE cmd[p].op = "genkey"
    <3>1. file'.keys \in {file.keys, [file.keys EXCEPT ![k] = k]}
      BY <1>0, <2>1, <2>3 DEF KeysInv, Ended
    <3>2. CASE file'.keys = file.keys
      BY <2>2, <3>2 DEF Store!End
    <3>3. CASE file'.keys = [file.keys EXCEPT ![k] = k]
      BY <2>2, <2>3, <3>3 DEF Store!Name
    <3> QED
      BY <3>1, <3>2, <3>3
  <2>4. CASE cmd[p].op = "delkey"
    <3>1. /\ file'.keys = [file.keys EXCEPT ![k] = None]
          /\ file.keys[k] = uri[p] /\ uri[p] \in Label
          /\ Selected(ObjectType, uri[p]) = {}
      BY <1>0, <2>1, <2>4 DEF KeysInv, AloneInv
    <3>2. held[file.keys[k]] = {}
      BY <3>1 DEF held, Pairs, Selected, ObjectType
    <3>3. Store!Forget(k)
      BY <2>2, <2>4, <3>1, <3>2 DEF Store!Forget
    <3> QED
      BY <2>2, <3>3
  <2> QED
    BY <1>0, <2>1, <2>3, <2>4
<1>9. CASE MatchNamed(p) \/ MatchOnly(p)
  <2>1. Objects /\ UNCHANGED file /\ cmd[p].op = "importcert"
        /\ (pc'[p] = "failed" \/ \E j \in KeyId : cmd' = [cmd EXCEPT ![p].key = j])
    BY <1>0, <1>9, HeldSame DEF MatchNamed, MatchOnly, MatchKey, StepInv
  <2>2. CASE pc'[p] = "failed"
    BY <1>4, <2>1, <2>2 DEF Ended
  <2>3. CASE \E j \in KeyId : cmd' = [cmd EXCEPT ![p].key = j]
    <3>1. cmd'[p].op = "importcert"
      BY <1>0, <2>1, <2>3 DEF CommandRecord
    <3> QED
      BY <1>1, <1>3, <2>1, <3>1
  <2> QED
    BY <2>1, <2>2, <2>3
<1>10. CASE DiscardCert(p) \/ ImportCert(p)
  <2>1. /\ UNCHANGED <<file, cmd, pairs>> /\ pc[p] \notin Ended
        /\ \A o : o.type = "private" => (o \in token' <=> o \in token)
    BY <1>0, <1>10 DEF DiscardCert, ImportCert, Selected, Ended
  <2>2. Objects
    BY <2>1, HeldSame
  <2>3. CASE pc'[p] \in Ended
    BY <1>4, <2>1, <2>2, <2>3
  <2>4. CASE pc'[p] \notin Ended
    BY <1>1, <1>3, <2>1, <2>2, <2>4 DEF Key
  <2> QED
    BY <2>3, <2>4
<1>11. CASE \/ Load(p) \/ Refuse(p) \/ ProbeKey(p) \/ SelfSign(p) \/ SelfSignFails(p)
            \/ Register(p) \/ FindKey(p) \/ ProbeType(p) \/ Forget(p) \/ Answer(p)
            \/ ProbeCert(p) \/ Open(p) \/ Fault(p)
  <2>1. UNCHANGED <<file, token, pairs, cmd>> /\ pc[p] \notin Ended
    BY <1>0, <1>11 DEF Load, Refuse, ProbeKey, SelfSign, SelfSignFails, Register,
         FindKey, ProbeType, Forget, Answer, Ask, ProbeCert, Open, Fault, ToolFails,
         Unanswered, Crash, Ended, Tools
  <2>2. Objects
    BY <2>1, HeldSame
  <2>3. CASE pc'[p] \in Ended
    BY <1>4, <2>1, <2>2, <2>3
  <2>4. CASE pc'[p] \notin Ended
    BY <1>1, <1>3, <2>1, <2>2, <2>4 DEF Key
  <2> QED
    BY <2>3, <2>4
<1> QED
  BY <1>5, <1>6, <1>7, <1>8, <1>9, <1>10, <1>11 DEF Next, Step, Fault

\* With one command at a time, and however often it fails or is killed: genkey
\* and delkey do to the private keys and to signing-keys what KeyStore allows, and
\* importcert does nothing to either.
THEOREM StoreImplements ==
  ASSUME NEW p, OneCommand(p)
  PROVE  Spec => ImplementsKeyStore
<1>1. Init => KeysInv
  BY DEF Init, KeysInv, Ended
<1>2. IndInv /\ KeysInv /\ [Next]_vars => KeysInv'
  <2> SUFFICES ASSUME IndInv, KeysInv, [Next]_vars PROVE KeysInv'
    OBVIOUS
  <2>1. CASE Next
    BY <2>1, KeysStep DEF OneCommand
  <2>2. CASE UNCHANGED vars
    BY <2>2 DEF vars, disk, hsm, local, search, count, KeysInv, Key
  <2> QED
    BY <2>1, <2>2
<1>3. Init => Store!Init
  <2> SUFFICES ASSUME Init PROVE Store!Init
    OBVIOUS
  <2>1. PICK w \in InitialWorld : file = w.config /\ token = w.token /\ pairs = w.pairs
    BY DEF Init
  <2>2. /\ file \in Config /\ pairs \in Nat /\ token \subseteq Object
        /\ \A o \in token : o.pair \in 1 .. pairs
        /\ \A o, q \in token :
             o.type = "private" /\ q.type = "private" /\ o.label = q.label => o = q
    BY <2>1, InitialAssumption DEF OneCommand
  <2>3. held \in [Label -> SUBSET Nat]
        /\ \A l \in Label : \A m, n \in held[l] : m = n /\ m \in 1 .. pairs
    <3>1. ASSUME NEW l \in Label
          PROVE  /\ Pairs("private", l) \subseteq Nat
                 /\ \A m, n \in Pairs("private", l) : m = n /\ m \in 1 .. pairs
      BY <2>2 DEF Pairs, Selected, Object
    <3> QED
      BY <3>1 DEF held
  <2>4. work = {}
    BY DEF Init, work, Ended
  <2> QED
    BY <2>2, <2>3, <2>4 DEF Store!Init, Config
<1>4. IndInv /\ AloneInv /\ KeysInv /\ [Next]_vars => [Store!Next]_(Store!storeVars)
  <2> SUFFICES ASSUME IndInv, AloneInv, KeysInv, [Next]_vars
               PROVE  [Store!Next]_(Store!storeVars)
    OBVIOUS
  <2>1. CASE Next
    BY <2>1, StoreStep DEF OneCommand
  <2>2. CASE UNCHANGED vars
    <3>1. UNCHANGED <<token, file, pairs, pc, cmd>>
      BY <2>2 DEF vars, disk, hsm
    <3>2. held' = held /\ work' = work
      BY <3>1, HeldSame DEF work, Key
    <3> QED
      BY <3>1, <3>2 DEF Store!storeVars
  <2> QED
    BY <2>1, <2>2
<1> QED
  BY Invariance, AloneInvariance, <1>1, <1>2, <1>3, <1>4, PTL
     DEF Spec, ImplementsKeyStore, Store!Spec

-----------------------------------------------------------------------------
(* Keys that have their IDs as labels.                                     *)

\* Objects are named by their labels and keys have their own, through all steps.
LEMMA NamesStep == IndInv /\ NamesInv /\ [Next]_vars => NamesInv'
<1> SUFFICES ASSUME IndInv, NamesInv, [Next]_vars PROVE NamesInv'
  OBVIOUS
<1>0. TypeOK /\ ConfigLoads
  BY DEF IndInv
<1> USE <1>0 DEF NamesInv, TypeOK
<1>1. ASSUME token' \subseteq token, UNCHANGED <<file, mem>> PROVE NamesInv'
  BY <1>1
<1>2. ASSUME NEW p \in Proc, Load(p) PROVE NamesInv'
  <2>1. FromDict(file).keys = file.keys
    BY DEF FromDict, Config
  <2> QED
    BY <1>2, <2>1 DEF Load, disk, hsm, OwnLabels
<1>3. ASSUME NEW p \in Proc, Generate(p) PROVE NamesInv'
  <2>1. AddSigningKey(mem[p], Key(p), Key(p)).keys
          = [mem[p].keys EXCEPT ![Key(p)] = Key(p)]
    BY <1>3, KeyKnown, KeysOf DEF Generate
  <2>2. OwnLabels(AddSigningKey(mem[p], Key(p), Key(p)))
    BY <1>3, <2>1, KeyKnown DEF Generate, OwnLabels, Config
  <2> QED
    BY <1>3, <2>2 DEF Generate, KeyPair, disk
<1>4. ASSUME NEW p \in Proc, Register(p) PROVE NamesInv'
  <2> DEFINE c == AddSigningKey(mem[p], Key(p), Key(p))
  <2>1. Key(p) \in KeyId /\ cmd[p].uses \in SUBSET Purpose
    BY <1>4, KeyKnown DEF Register, CommandRecord
  <2>2. c \in Config /\ c.keys = [mem[p].keys EXCEPT ![Key(p)] = Key(p)]
    BY <2>1, KeysOf
  <2>3. SetKeyForSigners(c, cmd[p].uses, Key(p)).keys = c.keys
    BY <2>1, <2>2, UsesOf
  <2>4. mem' = [mem EXCEPT ![p] = SetKeyForSigners(c, cmd[p].uses, Key(p))]
    BY <1>4 DEF Register
  <2>5. OwnLabels(SetKeyForSigners(c, cmd[p].uses, Key(p)))
    BY <2>1, <2>2, <2>3 DEF OwnLabels, Config
  <2> QED
    BY <1>4, <2>4, <2>5 DEF Register, disk, hsm
<1>5. ASSUME NEW p \in Proc, Forget(p) PROVE NamesInv'
  <2>1. RemoveSigningKey(mem[p], Key(p)).keys = [mem[p].keys EXCEPT ![Key(p)] = None]
    BY <1>5, KeyKnown, KeysOf DEF Forget
  <2>2. OwnLabels(RemoveSigningKey(mem[p], Key(p)))
    BY <2>1 DEF OwnLabels, Config
  <2> QED
    BY <1>5, <2>2 DEF Forget, disk, hsm
<1>6. ASSUME NEW p \in Proc, ImportCert(p) PROVE NamesInv'
  BY <1>6 DEF ImportCert, disk, local
<1>7. ASSUME NEW p \in Proc, Write(p) PROVE NamesInv'
  BY <1>7 DEF Write, hsm, local
<1>8. CASE \E p \in Proc :
        \/ Invoke(p) \/ Refuse(p) \/ ProbeKey(p) \/ SelfSign(p)
        \/ SelfSignFails(p) \/ FindKey(p) \/ ProbeType(p) \/ Delete(p)
        \/ MatchNamed(p) \/ Answer(p) \/ MatchOnly(p) \/ ProbeCert(p)
        \/ DiscardCert(p) \/ Open(p) \/ Fault(p)
  <2>1. token' \subseteq token /\ UNCHANGED <<file, mem>>
    BY <1>8 DEF Invoke, Refuse, ProbeKey, SelfSign, SelfSignFails, FindKey,
                ProbeType, Delete, MatchNamed, Answer, Unanswered, MatchOnly,
                MatchKey, ProbeCert, DiscardCert, Open, Fault, ToolFails, Crash,
                disk, hsm, local
  <2> QED
    BY <1>1, <2>1
<1>9. CASE UNCHANGED vars
  BY <1>9 DEF vars, disk, hsm, local
<1> QED
  BY <1>2, <1>3, <1>4, <1>5, <1>6, <1>7, <1>8, <1>9 DEF Next, Step

\* A URI found in a configuration that names keys so is the key's own label.
LEMMA OwnLabel ==
  ASSUME NEW c \in Config, OwnLabels(c), NEW k \in KeyId, c.keys[k] \in Label
  PROVE  c.keys[k] = k
BY NamesAssumption DEF OwnLabels

\* importcert: the key stays matched until its certificate is imported.
LEMMA MatchStep ==
  ASSUME NEW p, Proc = {p}, Listed = ObjectType
  PROVE  IndInv /\ NamesInv /\ MatchInv /\ [Next]_vars => MatchInv'
<1> SUFFICES ASSUME IndInv, NamesInv, MatchInv, [Next]_vars PROVE MatchInv'
  OBVIOUS
<1>0. TypeOK /\ StepInv /\ p \in Proc
  BY DEF IndInv
<1> USE <1>0 DEF MatchInv, TypeOK, Goto
<1>1. ASSUME pc'[p] \notin {"importcert", "replace", "discard"},
             pc'[p] = "import" => cmd'[p].op # "importcert"
      PROVE  MatchInv'
  BY <1>1
<1>2. CASE Load(p)
  <2>1. hits'[p] = {}
    BY <1>2 DEF Load, StepInv, search
  <2>2. pc'[p] \in {"genkey", "delkey", "importcert"}
    BY <1>2 DEF Load, CommandRecord
  <2> QED
    BY <2>1, <2>2
<1>3. CASE Answer(p) \/ Unanswered(p)
  <2>1. UNCHANGED <<token, cmd, mem, pc>> /\ pc[p] = "importcert"
    BY <1>3 DEF Answer, Unanswered, Ask, hsm
  <2>2. \A k \in KeyId : Certifies(p, k)' <=> Certifies(p, k)
    BY <2>1 DEF Certifies, Pairs, Selected
  <2>3. \A k \in hits'[p] : k \in hits[p] \/ Certifies(p, k)
    BY <1>3 DEF Answer, Unanswered, Ask
  <2>4. hits'[p] \subseteq KeyId
    BY <1>3 DEF Answer, Unanswered, Ask
  <2> QED
    BY <2>1, <2>2, <2>3, <2>4
<1>4. CASE MatchNamed(p) \/ MatchOnly(p)
  <2>1. ASSUME NEW k \in KeyId, MatchKey(p, k), Certifies(p, k) PROVE MatchInv'
    <3>1. mem[p].keys[k] = k
      BY <2>1, OwnLabel DEF NamesInv, Certifies
    <3>2. cmd[p] \in [op : {"genkey", "delkey", "importcert"},
                      key : KeyId \cup {None}, uses : SUBSET Purpose, cert : Nat]
      BY DEF CommandRecord
    <3>3. cmd'[p].key = k /\ cmd'[p].cert = cmd[p].cert
      BY <2>1, <3>2 DEF MatchKey
    <3>4. uri'[p] = k /\ pem'[p] = cmd[p].cert /\ pc'[p] = "replace"
      BY <2>1, <3>1 DEF MatchKey
    <3>5. cmd[p].cert \in Pairs("public", k) /\ token' = token
      BY <1>4, <2>1, <3>1 DEF Certifies, MatchNamed, MatchOnly, hsm
    <3>6. cmd[p].cert \in Pairs("public", k)'
      BY <3>5 DEF Pairs, Selected
    <3> QED
      BY <3>3, <3>4, <3>6 DEF Key
  <2>2. CASE pc'[p] = "failed"
    BY <1>1, <2>2
  <2> QED
    BY <1>4, <2>1, <2>2 DEF MatchNamed, MatchOnly
<1>5. CASE ProbeCert(p)
  <2>1. UNCHANGED <<token, cmd, uri, pem>> /\ pc[p] = "replace"
    BY <1>5 DEF ProbeCert, hsm, local
  <2>2. cmd[p].cert \in Pairs("public", Key(p))'
    BY <2>1 DEF Pairs, Selected, Key
  <2>3. CASE Exists({"cert"}, uri[p])
    BY <1>5, <2>1, <2>2, <2>3 DEF ProbeCert, Key
  <2>4. CASE ~Exists({"cert"}, uri[p])
    <3>1. Selected({"cert"}, uri[p]) = {}
      BY <2>4 DEF Exists, Selected, ObjectType
    <3> QED
      BY <1>5, <2>1, <2>2, <3>1 DEF ProbeCert, Key, Selected
  <2> QED
    BY <2>3, <2>4
<1>6. CASE DiscardCert(p)
  <2>1. UNCHANGED <<cmd, uri, pem>> /\ pc[p] = "discard" /\ pc'[p] = "import"
        /\ token' = token \ Selected({"cert"}, uri[p])
    BY <1>6 DEF DiscardCert, local
  <2>2. cmd[p].cert \in Pairs("public", Key(p))'
    BY <2>1 DEF Pairs, Selected, Key
  <2> QED
    BY <2>1, <2>2 DEF Selected, Key
<1>7. CASE \/ Invoke(p) \/ Refuse(p) \/ ProbeKey(p) \/ Generate(p) \/ SelfSign(p)
           \/ SelfSignFails(p) \/ Register(p) \/ FindKey(p) \/ ProbeType(p)
           \/ Delete(p) \/ Forget(p) \/ ImportCert(p) \/ Open(p) \/ Write(p)
           \/ ToolFails(p) \/ Crash(p)
  <2>1. pc'[p] \notin {"importcert", "replace", "discard"}
    BY <1>7 DEF Invoke, Refuse, ProbeKey, Generate, SelfSign, SelfSignFails,
         Register, FindKey, ProbeType, Delete, Forget, ImportCert, Open, Write,
         ToolFails, Crash
  <2>2. pc'[p] = "import" => SelfSign(p)
    BY <1>7 DEF Invoke, Refuse, ProbeKey, Generate, SelfSign, SelfSignFails,
         Register, FindKey, ProbeType, Delete, Forget, ImportCert, Open, Write,
         ToolFails, Crash
  <2>3. SelfSign(p) => cmd'[p].op = "genkey"
    BY DEF SelfSign, StepInv
  <2> QED
    BY <1>1, <2>1, <2>2, <2>3
<1>8. CASE UNCHANGED vars
  BY <1>8 DEF vars, disk, hsm, local, search, Certifies, Pairs, Selected, Key
<1> QED
  BY <1>2, <1>3, <1>4, <1>5, <1>6, <1>7, <1>8 DEF Next, Step, Fault

\* What a step that leaves the token alone leaves alone.
LEMMA TokenSame ==
  ASSUME token' = token
  PROVE  /\ \A t, l : Pairs(t, l)' = Pairs(t, l)
         /\ \A k : (KeyWhole(k)' <=> KeyWhole(k)) /\ (SamePairs(k)' <=> SamePairs(k))
         /\ \A k : HasCertifiedKey(k)' <=> HasCertifiedKey(k)
BY DEF Pairs, Selected, KeyWhole, SamePairs, HasCertifiedKey

\* A step that only adds or removes objects of one label leaves other keys alone.
LEMMA OthersSame ==
  ASSUME NEW k, \A o \in token \ token' : o.label = k,
         \A o \in token' \ token : o.label = k, NEW j, j # k
  PROVE  /\ \A t : Pairs(t, j)' = Pairs(t, j)
         /\ KeyWhole(j)' <=> KeyWhole(j)
<1>1. \A types : Selected(types, j)' = Selected(types, j)
  BY DEF Selected
<1>2. \A t : Pairs(t, j)' = Pairs(t, j)
  BY <1>1 DEF Pairs
<1>3. HasCertifiedKey(j)' <=> HasCertifiedKey(j)
  BY <1>2 DEF HasCertifiedKey
<1> QED
  BY <1>1, <1>2, <1>3 DEF KeyWhole, SamePairs

\* While nothing has been cut short, keys are whole but for the one at work on.
LEMMA UncutStep ==
  ASSUME NEW p, Proc = {p}, Listed = ObjectType
  PROVE  /\ IndInv /\ AloneInv /\ NamesInv /\ MatchInv /\ UncutInv
         /\ faults' = 0 /\ crashes' = 0 /\ [Next]_vars
         => UncutInv'
<1> SUFFICES ASSUME IndInv, AloneInv, NamesInv, MatchInv, UncutInv,
                    faults' = 0, crashes' = 0, [Next]_vars
             PROVE  UncutInv'
  OBVIOUS
<1>0. TypeOK /\ StepInv /\ p \in Proc
  BY DEF IndInv
<1> DEFINE Whole == \A k \in KeyId : KeyWhole(k) \/ (Key(p) = k /\ InWork(p))
           Steps == /\ pc[p] = "delete" => found[p]
                    /\ pc[p] \in {"selfsign", "import"} =>
                         SamePairs(Key(p)) /\ Pairs("private", Key(p)) # {}
                    /\ pc[p] = "import" => pem[p] \in Pairs("private", Key(p))
                    /\ pc[p] = "register" \/ Saves(p) => HasCertifiedKey(Key(p))
                    /\ Saves(p) => /\ mem[p].keys[Key(p)] = Key(p)
                                   /\ \A u \in cmd[p].uses : mem[p].use[u] = Key(p)
           Has(k) == Pairs("private", k) # {} \/ Deletes(p, k)
           FileHas == \A k \in KeyId : file.keys[k] = k => Has(k)
           MemHas == \A k \in KeyId :
                       pc[p] \notin Ended \cup {"load"} /\ mem[p].keys[k] = k => Has(k)
<1>a. Whole /\ Steps /\ FileHas /\ MemHas
  BY DEF UncutInv, HasKey
<1>b. ASSUME Whole', Steps', FileHas', MemHas' PROVE UncutInv'
  BY <1>b DEF UncutInv, HasKey
<1> HIDE DEF Whole, Steps, FileHas, MemHas
<1> USE <1>0 DEF TypeOK, Goto
\* A step that changes neither store, nor the command.
<1>c. ASSUME UNCHANGED <<token, cmd, file, mem>>,
             pc[p] \notin Ended \cup {"load"},
             InWork(p) => InWork(p)',
             \A k : Deletes(p, k) => Deletes(p, k)'
      PROVE  Whole' /\ FileHas' /\ MemHas'
  <2>1. Key(p)' = Key(p)
    BY <1>c DEF Key
  <2>2. Whole'
    BY <1>a, <1>c, <2>1, TokenSame DEF Whole
  <2>3. \A k \in KeyId : Has(k) => Has(k)'
    BY <1>c, TokenSame
  <2> QED
    BY <1>a, <1>c, <2>2, <2>3 DEF FileHas, MemHas
<1>d. ASSUME pc[p] \notin {"probe", "delete", "selfsign", "import"}
      PROVE  \A k \in KeyId : KeyWhole(k)
  BY <1>a, <1>d DEF Whole, InWork
<1>e. ASSUME pc[p] \notin {"probe", "delete", "save", "write"}
      PROVE  \A k \in KeyId : file.keys[k] = k => Pairs("private", k) # {}
  BY <1>a, <1>e DEF FileHas, Deletes
<1>1. CASE Invoke(p)
  <2>1. UNCHANGED <<token, file>> /\ pc[p] \in Ended /\ pc'[p] = "load"
    BY <1>1 DEF Invoke, hsm, disk
  <2>2. Whole'
    BY <1>d, <2>1, TokenSame DEF Whole, Ended
  <2>3. FileHas'
    BY <1>e, <2>1, TokenSame DEF FileHas, Ended
  <2>4. Steps' /\ MemHas'
    BY <2>1 DEF Steps, MemHas, Saves
  <2> QED
    BY <1>b, <2>2, <2>3, <2>4
<1>2. CASE Load(p)
  <2>1. UNCHANGED <<token, file>> /\ pc[p] = "load"
        /\ pc'[p] \in {"genkey", "delkey", "importcert"}
        /\ mem'[p].keys = file.keys
    BY <1>2 DEF Load, hsm, disk, CommandRecord, FromDict, Config
  <2>2. Whole'
    BY <1>d, <2>1, TokenSame DEF Whole
  <2>3. FileHas' /\ MemHas'
    BY <1>e, <2>1, TokenSame DEF FileHas, MemHas
  <2>4. Steps'
    BY <2>1 DEF Steps, Saves
  <2> QED
    BY <1>b, <2>2, <2>3, <2>4
<1>3. CASE Refuse(p)
  <2>1. UNCHANGED <<token, file>> /\ pc[p] = "load" /\ pc'[p] = "failed"
    BY <1>3 DEF Refuse, hsm, disk
  <2>2. Whole'
    BY <1>d, <2>1, TokenSame DEF Whole
  <2>3. FileHas'
    BY <1>e, <2>1, TokenSame DEF FileHas
  <2>4. Steps' /\ MemHas'
    BY <2>1 DEF Steps, MemHas, Saves, Ended
  <2> QED
    BY <1>b, <2>2, <2>3, <2>4
<1>4. CASE ProbeKey(p)
  <2>1. UNCHANGED <<token, cmd, file, mem>> /\ pc[p] = "genkey"
        /\ pc'[p] \in {"register", "generate"}
    BY <1>4 DEF ProbeKey, hsm, disk
  <2>2. Whole' /\ FileHas' /\ MemHas'
    BY <1>c, <2>1 DEF InWork, Deletes, Ended
  <2>3. ASSUME pc'[p] = "register" PROVE HasCertifiedKey(Key(p))
    <3>1. Exists(ObjectType, Key(p)) /\ Key(p) \in KeyId /\ Key(p) # None
      BY <1>4, <2>3, KeyKnown, NamesAssumption DEF ProbeKey
    <3>2. Selected(ObjectType, Key(p)) # {}
      BY <3>1 DEF Exists, Selected, NamesInv
    <3> QED
      BY <1>d, <2>1, <3>1, <3>2 DEF KeyWhole
  <2>4. Steps'
    BY <2>1, <2>3, TokenSame DEF Steps, Saves, Key
  <2> QED
    BY <1>b, <2>2, <2>4
<1>5. CASE Generate(p)
  <2>0. PICK k \in KeyId : k = Key(p)
    BY <1>5, KeyKnown DEF Generate
  <2>1. k = Key(p) /\ UNCHANGED <<cmd, file>> /\ pc[p] = "generate"
        /\ pc'[p] = "selfsign" /\ token' = token \cup KeyPair(k, pairs')
    BY <1>5, <2>0 DEF Generate, disk
  <2>2. \A o \in token : o.type \in ObjectType /\ o.label # k
    BY <1>5, <2>1 DEF Generate, AloneInv, Exists, Object
  <2>3. \A o \in KeyPair(k, pairs') : o.label = k /\ o.pair = pairs'
    BY DEF KeyPair
  <2>4. \A j \in KeyId : j # k =>
          (KeyWhole(j)' <=> KeyWhole(j)) /\ Pairs("private", j)' = Pairs("private", j)
    BY <2>1, <2>3, OthersSame
  <2>5. \A t \in {"private", "public"} : Pairs(t, k)' = {pairs'}
    <3> TAKE t \in {"private", "public"}
    <3> DEFINE o == [type |-> t, label |-> k, id |-> k, pair |-> pairs',
                     issued |-> FALSE]
    <3>1. o \in token' /\ o \in KeyPair(k, pairs')
      BY <2>1 DEF KeyPair
    <3>2. \A q \in Selected({t}, k)' : q.pair = pairs'
      BY <2>1, <2>2, <2>3 DEF Selected
    <3>3. o \in Selected({t}, k)' /\ o.pair = pairs'
      BY <3>1 DEF Selected
    <3> QED
      BY <3>2, <3>3 DEF Pairs
  <2>6. Key(p)' = k
    BY <2>1 DEF Key
  <2>7. Whole'
    BY <1>d, <2>1, <2>4, <2>6 DEF Whole, InWork
  <2>8. Steps'
    BY <2>1, <2>5, <2>6 DEF Steps, Saves, SamePairs
  <2>9. FileHas'
    BY <1>e, <2>1, <2>4, <2>5 DEF FileHas
  <2>10. mem'[p].keys = [mem[p].keys EXCEPT ![k] = k]
    <3>1. mem' = [mem EXCEPT ![p] = AddSigningKey(mem[p], k, k)]
      BY <1>5, <2>0 DEF Generate
    <3>2. mem[p] \in Config
      OBVIOUS
    <3>3. AddSigningKey(mem[p], k, k).keys = [mem[p].keys EXCEPT ![k] = k]
      BY <2>0, <3>2, KeysOf
    <3> QED
      BY <3>1, <3>3
  <2>11. \A j \in KeyId : j # k /\ mem'[p].keys[j] = j => Pairs("private", j) # {}
    BY <1>a, <2>1, <2>10 DEF MemHas, Deletes, Ended
  <2>12. MemHas'
    BY <2>4, <2>5, <2>11 DEF MemHas
  <2> QED
    BY <1>b, <2>7, <2>8, <2>9, <2>12
<1>6. CASE SelfSign(p) \/ SelfSignFails(p)
  <2>1. UNCHANGED <<token, cmd, file, mem>> /\ pc[p] = "selfsign"
        /\ pc'[p] = "import" /\ pem'[p] \in Pairs("private", Key(p))
    BY <1>a, <1>6 DEF SelfSign, SelfSignFails, Steps, hsm, disk
  <2>2. Whole' /\ FileHas' /\ MemHas'
    BY <1>c, <2>1 DEF InWork, Deletes, Ended
  <2>3. Steps'
    BY <1>a, <2>1, TokenSame DEF Steps, Saves, Key
  <2> QED
    BY <1>b, <2>2, <2>3
<1>7. CASE FindKey(p)
  <2>1. UNCHANGED <<token, cmd, file, mem>> /\ pc[p] = "delkey"
        /\ pc'[p] \in {"probe", "failed"}
    BY <1>7 DEF FindKey, hsm, disk
  <2>2. Whole' /\ FileHas' /\ MemHas'
    BY <1>c, <2>1 DEF InWork, Deletes, Ended
  <2>3. Steps'
    BY <2>1 DEF Steps, Saves
  <2> QED
    BY <1>b, <2>2, <2>3
<1>8. CASE ProbeType(p)
  <2>1. UNCHANGED <<token, cmd, file, mem>> /\ pc[p] = "probe"
        /\ \/ pc'[p] = "probe" /\ found'[p] = found[p]
           \/ pc'[p] = "delete" /\ found'[p] = TRUE
    BY <1>8 DEF ProbeType, hsm, disk
  <2>2. Whole' /\ FileHas' /\ MemHas'
    BY <1>c, <2>1 DEF InWork, Deletes, Ended, Key
  <2>3. Steps'
    BY <2>1 DEF Steps, Saves
  <2> QED
    BY <1>b, <2>2, <2>3
<1>9. CASE Delete(p)
  <2>0. PICK k \in KeyId : k = Key(p)
    BY <1>9, KeyKnown DEF Delete
  <2>1. /\ k = Key(p) /\ UNCHANGED <<cmd, file, mem, found>>
        /\ pc[p] = "delete" /\ pc'[p] = "probe" /\ cmd[p].op = "delkey"
        /\ uri[p] = mem[p].keys[k] /\ uri[p] \in Label
        /\ token' = token \ Selected({NextType(p)}, uri[p])
    BY <1>9, <2>0 DEF Delete, disk, StepInv
  <2>2. uri[p] = k
    BY <2>1, OwnLabel DEF NamesInv
  <2>3. \A o \in token \ token' : o.label = k
    BY <2>1, <2>2 DEF Selected
  <2>4. \A j \in KeyId : j # k =>
          (KeyWhole(j)' <=> KeyWhole(j)) /\ Pairs("private", j)' = Pairs("private", j)
    BY <2>1, <2>3, OthersSame
  <2>5. Key(p)' = k /\ Deletes(p, k)'
    BY <1>a, <2>1 DEF Key, Deletes, Steps
  <2>6. Whole'
    BY <1>a, <2>1, <2>4, <2>5 DEF Whole, InWork
  <2>7. \A j \in KeyId : Has(j) => Has(j)'
    BY <2>1, <2>4, <2>5 DEF Deletes
  <2>8. FileHas' /\ MemHas' /\ Steps'
    BY <1>a, <2>1, <2>7 DEF FileHas, MemHas, Steps, Saves, Ended
  <2> QED
    BY <1>b, <2>6, <2>8
<1>10. CASE Forget(p)
  <2>0. PICK k \in KeyId : k = Key(p)
    BY <1>10, KeyKnown DEF Forget
  <2>1. /\ k = Key(p) /\ UNCHANGED <<token, cmd, file, found>>
        /\ pc[p] = "probe" /\ left[p] = {} /\ cmd[p].op = "delkey"
        /\ uri[p] = mem[p].keys[k] /\ uri[p] \in Label
    BY <1>10, <2>0 DEF Forget, disk, hsm, StepInv
  <2>2. uri[p] = k
    BY <2>1, OwnLabel DEF NamesInv
  <2>3. Selected(ObjectType, k) = {}
    BY <2>1, <2>2 DEF AloneInv
  <2>4. KeyWhole(k)
    BY <2>3 DEF KeyWhole, SamePairs, Pairs, Selected, ObjectType
  <2>5. Whole'
    BY <1>a, <2>1, <2>4, TokenSame DEF Whole
  <2>6. CASE found[p]
    <3>1. pc'[p] = "save" /\ mem'[p].keys = [mem[p].keys EXCEPT ![k] = None]
      <4>1. /\ pc'[p] = "save"
            /\ mem' = [mem EXCEPT ![p] = RemoveSigningKey(mem[p], k)]
        BY <1>10, <2>0, <2>6 DEF Forget
      <4>2. mem[p] \in Config
        OBVIOUS
      <4>3. RemoveSigningKey(mem[p], k).keys = [mem[p].keys EXCEPT ![k] = None]
        BY <2>0, <4>2, KeysOf
      <4> QED
        BY <4>1, <4>3
    <3>2. \A j \in KeyId : Deletes(p, j) => Deletes(p, j)'
      BY <2>1, <2>6, <3>1 DEF Deletes, Key
    <3>3. FileHas'
      BY <1>a, <2>1, <3>2, TokenSame DEF FileHas
    <3>4. \A j \in KeyId : mem'[p].keys[j] = j => mem[p].keys[j] = j
      BY <3>1, NamesAssumption DEF Config
    <3>5. MemHas'
      BY <1>a, <2>1, <3>2, <3>4, TokenSame DEF MemHas, Ended
    <3>6. Steps'
      BY <2>1, <3>1 DEF Steps, Saves
    <3> QED
      BY <1>b, <2>5, <3>3, <3>5, <3>6
  <2>7. CASE ~found[p]
    <3>1. pc'[p] = "failed" /\ \A j : ~Deletes(p, j)
      BY <1>10, <2>7 DEF Forget, Deletes
    <3>2. FileHas'
      BY <1>a, <2>1, <3>1, TokenSame DEF FileHas
    <3>3. MemHas' /\ Steps'
      BY <3>1 DEF MemHas, Steps, Saves, Ended
    <3> QED
      BY <1>b, <2>5, <3>2, <3>3
  <2> QED
    BY <2>6, <2>7
<1>11. CASE MatchNamed(p) \/ MatchOnly(p) \/ Answer(p)
  <2>1. UNCHANGED <<token, file, mem>> /\ pc[p] = "importcert"
        /\ pc'[p] \in {"importcert", "replace", "failed"}
    BY <1>11 DEF MatchNamed, MatchOnly, MatchKey, Answer, Ask, hsm, disk
  <2>2. Whole'
    BY <1>d, <2>1, TokenSame DEF Whole
  <2>3. \A k \in KeyId : Has(k) => Has(k)'
    BY <2>1, TokenSame DEF Deletes
  <2>4. FileHas' /\ MemHas'
    BY <1>a, <2>1, <2>3 DEF FileHas, MemHas, Ended
  <2>5. Steps'
    BY <2>1 DEF Steps, Saves
  <2> QED
    BY <1>b, <2>2, <2>4, <2>5
<1>12. CASE ProbeCert(p)
  <2>1. UNCHANGED <<token, cmd, file, mem, pem>> /\ pc[p] = "replace"
        /\ pc'[p] \in {"discard", "failed", "import"}
    BY <1>12 DEF ProbeCert, hsm, disk, local
  <2>2. Whole' /\ FileHas' /\ MemHas'
    BY <1>c, <2>1 DEF InWork, Deletes, Ended
  <2>3. Key(p) \in KeyId /\ SamePairs(Key(p)) /\ pem[p] \in Pairs("private", Key(p))
    BY <1>d, <2>1, KeyKnown DEF KeyWhole, MatchInv, SamePairs
  <2>4. Steps'
    BY <2>1, <2>3, TokenSame DEF Steps, Saves, Key
  <2> QED
    BY <1>b, <2>2, <2>4
<1>13. CASE DiscardCert(p)
  <2>0. PICK k \in KeyId : k = Key(p)
    BY <1>13, KeyKnown DEF DiscardCert
  <2>1. /\ k = Key(p) /\ UNCHANGED <<cmd, file, mem, pem>>
        /\ pc[p] = "discard" /\ pc'[p] = "import" /\ uri[p] = k
        /\ token' = token \ Selected({"cert"}, k)
    BY <1>13, <2>0 DEF DiscardCert, disk, local, MatchInv
  <2>2. \A o \in token \ token' : o.label = k /\ o.type = "cert"
    BY <2>1 DEF Selected
  <2>3. \A j \in KeyId : j # k =>
          (KeyWhole(j)' <=> KeyWhole(j)) /\ Pairs("private", j)' = Pairs("private", j)
    BY <2>1, <2>2, OthersSame
  <2>4. \A t \in {"private", "public"} : Pairs(t, k)' = Pairs(t, k)
    BY <2>1 DEF Pairs, Selected
  <2>5. SamePairs(k) /\ pem[p] \in Pairs("private", k)
    BY <1>d, <2>1 DEF KeyWhole, MatchInv, SamePairs
  <2>6. Key(p)' = k
    BY <2>1 DEF Key
  <2>7. Whole'
    BY <1>d, <2>1, <2>3, <2>6 DEF Whole, InWork
  <2>8. \A j \in KeyId : Has(j) => Has(j)'
    BY <2>1, <2>3, <2>4 DEF Deletes
  <2>9. FileHas' /\ MemHas'
    BY <1>a, <2>1, <2>8 DEF FileHas, MemHas, Ended
  <2>10. Steps'
    BY <2>1, <2>4, <2>5, <2>6 DEF Steps, Saves, SamePairs
  <2> QED
    BY <1>b, <2>7, <2>9, <2>10
<1>14. CASE ImportCert(p)
  <2>0. PICK k \in KeyId : k = Key(p)
    BY <1>14, KeyKnown DEF ImportCert
  <2> DEFINE o == [type |-> "cert", label |-> k, id |-> None,
                   pair |-> pem[p], issued |-> cmd[p].op # "genkey"]
  <2>1. /\ k = Key(p) /\ UNCHANGED <<cmd, file, mem, pem>>
        /\ pc[p] = "import" /\ pc'[p] \in {"register", "done"}
        /\ token' = token \cup {o}
    BY <1>14, <2>0 DEF ImportCert, disk, local
  <2>2. \A q \in token' \ token : q.label = k /\ q.type = "cert"
    BY <2>1
  <2>3. \A j \in KeyId : j # k =>
          (KeyWhole(j)' <=> KeyWhole(j)) /\ Pairs("private", j)' = Pairs("private", j)
    BY <2>1, <2>2, OthersSame
  <2>4. \A t \in {"private", "public"} : Pairs(t, k)' = Pairs(t, k)
    BY <2>1 DEF Pairs, Selected
  <2>5. SamePairs(k) /\ pem[p] \in Pairs("private", k)
    BY <1>a, <2>1 DEF Steps
  <2>6. o \in Selected({"cert"}, k)' /\ o.pair = pem[p]
    BY <2>1 DEF Selected
  <2>7. HasCertifiedKey(k)' /\ SamePairs(k)'
    <3>1. pem[p] \in Pairs("cert", k)'
      BY <2>6 DEF Pairs
    <3>2. pem[p] \in Pairs("private", k)' /\ pem[p] \in Pairs("public", k)'
      BY <2>4, <2>5 DEF SamePairs
    <3> QED
      BY <2>4, <2>5, <3>1, <3>2 DEF HasCertifiedKey, SamePairs
  <2>8. Key(p)' = k
    BY <2>1 DEF Key
  <2>9. Whole'
    BY <1>a, <2>1, <2>3, <2>7 DEF Whole, KeyWhole
  <2>10. \A j \in KeyId : Has(j) => Has(j)'
    BY <2>1, <2>3, <2>4 DEF Deletes
  <2>11. FileHas' /\ MemHas'
    BY <1>a, <2>1, <2>10 DEF FileHas, MemHas, Ended
  <2>12. Steps'
    BY <2>1, <2>7, <2>8 DEF Steps, Saves
  <2> QED
    BY <1>b, <2>9, <2>11, <2>12
<1>15. CASE Register(p)
  <2>0. PICK k \in KeyId : k = Key(p)
    BY <1>15, KeyKnown DEF Register
  <2> DEFINE c == AddSigningKey(mem[p], k, k)
  <2>1. /\ k = Key(p) /\ UNCHANGED <<token, cmd, file>>
        /\ pc[p] = "register" /\ pc'[p] = "save"
        /\ mem' = [mem EXCEPT ![p] = SetKeyForSigners(c, cmd[p].uses, k)]
    BY <1>15, <2>0 DEF Register, disk, hsm
  <2>2. c \in Config /\ c.keys = [mem[p].keys EXCEPT ![k] = k]
    <3>1. mem[p] \in Config
      OBVIOUS
    <3> QED
      BY <3>1, KeysOf
  <2>3. cmd[p].uses \in SUBSET Purpose
    BY DEF CommandRecord
  <2>4. /\ SetKeyForSigners(c, cmd[p].uses, k).keys = c.keys
        /\ \A u \in cmd[p].uses : SetKeyForSigners(c, cmd[p].uses, k).use[u] = k
    BY <2>2, <2>3, UsesOf
  <2>5. /\ mem'[p].keys = [mem[p].keys EXCEPT ![k] = k]
        /\ \A u \in cmd[p].uses : mem'[p].use[u] = k
    BY <2>1, <2>2, <2>4
  <2>6. HasCertifiedKey(k) /\ Pairs("private", k) # {}
    BY <1>a, <2>1 DEF Steps, HasCertifiedKey
  <2>7. Whole' /\ FileHas'
    BY <1>d, <1>e, <2>1, TokenSame DEF Whole, FileHas
  <2>8. \A j \in KeyId : mem'[p].keys[j] = j => Pairs("private", j) # {}
    BY <1>a, <2>1, <2>5, <2>6 DEF MemHas, Deletes, Ended, Config
  <2>9. MemHas'
    BY <2>1, <2>8, TokenSame DEF MemHas
  <2>10. mem'[p].keys[k] = k
    BY <2>5 DEF Config
  <2>11. Steps'
    BY <2>1, <2>5, <2>6, <2>10, TokenSame DEF Steps, Key
  <2> QED
    BY <1>b, <2>7, <2>9, <2>11
<1>16. CASE Open(p)
  <2>1. UNCHANGED <<token, cmd, file, mem, found, failing>> /\ pc[p] = "save"
        /\ pc'[p] = "write"
    BY <1>16 DEF Open, hsm, local
  <2>2. Whole' /\ FileHas' /\ MemHas'
    BY <1>c, <2>1 DEF InWork, Deletes, Ended, Key
  <2>3. Steps'
    BY <1>a, <2>1, TokenSame DEF Steps, Saves, Key
  <2> QED
    BY <1>b, <2>2, <2>3
<1>17. CASE Write(p)
  <2>1. UNCHANGED <<token, cmd, mem>> /\ pc[p] = "write"
        /\ pc'[p] \in {"failed", "done"} /\ file' = mem[p]
    BY <1>17 DEF Write, hsm, local
  <2>2. Whole'
    BY <1>d, <2>1, TokenSame DEF Whole
  <2>3. \A j \in KeyId : mem[p].keys[j] = j => ~Deletes(p, j)
    BY <2>1, NamesAssumption DEF AloneInv, Deletes, Registered, Key
  <2>4. \A j \in KeyId : mem[p].keys[j] = j => Pairs("private", j) # {}
    BY <1>a, <2>1, <2>3 DEF MemHas, Ended
  <2>5. FileHas'
    BY <2>1, <2>4, TokenSame DEF FileHas
  <2>6. MemHas' /\ Steps'
    BY <2>1 DEF MemHas, Steps, Saves, Ended
  <2> QED
    BY <1>b, <2>2, <2>5, <2>6
<1>18. CASE Fault(p)
  BY <1>18 DEF Fault, ToolFails, Unanswered, Crash
<1>19. CASE UNCHANGED vars
  <2>1. UNCHANGED <<token, cmd, file, mem, pc, found, failing, pem>>
    BY <1>19 DEF vars, disk, hsm, local
  <2>2. \A j \in KeyId : Has(j)' <=> Has(j)
    BY <2>1, TokenSame DEF Deletes, Key
  <2>3. Whole' /\ FileHas' /\ MemHas'
    BY <1>a, <2>1, <2>2, TokenSame DEF Whole, FileHas, MemHas, InWork, Key
  <2>4. Steps'
    BY <1>a, <2>1, TokenSame DEF Steps, Saves, Key
  <2> QED
    BY <1>b, <2>3, <2>4
<1> QED
  BY <1>1, <1>2, <1>3, <1>4, <1>5, <1>6, <1>7, <1>8, <1>9, <1>10, <1>11, <1>12,
     <1>13, <1>14, <1>15, <1>16, <1>17, <1>18, <1>19 DEF Next, Step

LEMMA OwnInit == Init /\ OwnStart => OwnInv
<1> SUFFICES ASSUME Init, OwnStart PROVE OwnInv
  OBVIOUS
<1>1. NamesInv /\ MatchInv /\ ImportDone /\ GenkeyDone
  BY DEF Init, OwnStart, NamesInv, MatchInv, ImportDone, GenkeyDone
<1>2. UncutInv
  BY DEF Init, OwnStart, UncutInv, HasKey, Saves, Ended
<1> QED
  BY <1>1, <1>2 DEF OwnInv

LEMMA OnlyOne ==
  ASSUME NEW S, NEW o, S = {o}, NEW n, o.pair = n, o.issued = TRUE
  PROVE  {<<q.pair, q.issued>> : q \in S} = {<<n, TRUE>>}
<1>1. \A q \in S : <<q.pair, q.issued>> = <<n, TRUE>>
  OBVIOUS
<1> QED
  BY <1>1

\* Success is reported by two steps, which leave what they were to do done.
LEMMA DoneStep ==
  ASSUME NEW p, Proc = {p}, Listed = ObjectType
  PROVE  IndInv /\ OwnInv /\ [Next]_vars => ImportDone' /\ GenkeyDone'
<1> SUFFICES ASSUME IndInv, OwnInv, [Next]_vars PROVE ImportDone' /\ GenkeyDone'
  OBVIOUS
<1>0. TypeOK /\ StepInv /\ p \in Proc /\ NamesInv /\ MatchInv
      /\ ImportDone /\ GenkeyDone
  BY DEF IndInv, OwnInv
<1> USE <1>0 DEF TypeOK, Goto
<1>1. CASE pc'[p] # "done"
  BY <1>1 DEF ImportDone, GenkeyDone
<1>2. CASE Write(p)
  <2>1. UNCHANGED <<token, cmd, failing, faults, crashes>> /\ file' = mem[p]
        /\ pc[p] = "write" /\ (pc'[p] = "done" => ~failing[p])
    BY <1>2 DEF Write, hsm, local, count
  <2>2. cmd[p].op # "importcert"
    BY <2>1 DEF StepInv
  <2>3. ASSUME pc'[p] = "done", cmd[p].op = "genkey", faults = 0, crashes = 0
        PROVE  /\ HasCertifiedKey(Key(p)) /\ mem[p].keys[Key(p)] = Key(p)
               /\ \A u \in cmd[p].uses : mem[p].use[u] = Key(p)
    BY <2>1, <2>3 DEF OwnInv, UncutInv, Saves
  <2>4. \A k : HasCertifiedKey(k)' <=> HasCertifiedKey(k)
    BY <2>1, TokenSame
  <2> QED
    BY <2>1, <2>2, <2>3, <2>4 DEF ImportDone, GenkeyDone, Key
<1>3. CASE ImportCert(p) /\ pc'[p] = "done"
  <2>0. PICK k \in KeyId : k = Key(p)
    BY <1>3, KeyKnown DEF ImportCert
  <2> DEFINE o == [type |-> "cert", label |-> k, id |-> None,
                   pair |-> pem[p], issued |-> cmd[p].op # "genkey"]
  <2>1. /\ UNCHANGED <<cmd, uri>> /\ pc[p] = "import"
        /\ token' = token \cup {o} /\ cmd[p].op = "importcert"
    BY <1>3, <2>0 DEF ImportCert, local, StepInv, CommandRecord
  <2>2. /\ uri[p] = k /\ pem[p] = cmd[p].cert
        /\ cmd[p].cert \in Pairs("public", k) /\ Selected({"cert"}, k) = {}
    BY <2>0, <2>1 DEF MatchInv
  <2>3. Selected({"cert"}, k)' = {o}
    BY <2>1, <2>2 DEF Selected
  <2>4. o.pair = cmd[p].cert /\ o.issued = TRUE
    BY <2>1, <2>2
  <2>5. cmd[p].cert \in Pairs("public", k)'
    BY <2>1, <2>2 DEF Pairs, Selected
  <2>6. {<<q.pair, q.issued>> : q \in Selected({"cert"}, k)'}
          = {<<cmd[p].cert, TRUE>>}
    <3> DEFINE S == Selected({"cert"}, k)'
    <3>1. S = {o} /\ o.pair = cmd[p].cert /\ o.issued = TRUE
      BY <2>3, <2>4
    <3> HIDE DEF S, o
    <3>2. {<<q.pair, q.issued>> : q \in S} = {<<cmd[p].cert, TRUE>>}
      BY <3>1, OnlyOne
    <3> QED
      BY <3>2 DEF S
  <2>7. ImportDone'
    BY <2>1, <2>2, <2>5, <2>6 DEF ImportDone
  <2> QED
    BY <2>1, <2>7 DEF GenkeyDone
<1>4. CASE UNCHANGED vars
  <2>1. UNCHANGED <<token, file, pc, cmd, uri, faults, crashes>>
    BY <1>4 DEF vars, disk, hsm, local, count
  <2>2. /\ \A l : Selected({"cert"}, l)' = Selected({"cert"}, l)
        /\ \A t, l : Pairs(t, l)' = Pairs(t, l)
        /\ \A k : HasCertifiedKey(k)' <=> HasCertifiedKey(k)
    BY <2>1, TokenSame DEF Selected
  <2>3. ImportDone'
    BY <2>1, <2>2 DEF ImportDone
  <2>4. GenkeyDone'
    BY <2>1, <2>2 DEF GenkeyDone, Key
  <2> QED
    BY <2>3, <2>4
<1>5. CASE Next /\ ~Write(p) /\ ~ImportCert(p)
  <2>1. CASE \/ Invoke(p) \/ Load(p) \/ Refuse(p) \/ ProbeKey(p) \/ Generate(p)
             \/ SelfSign(p) \/ SelfSignFails(p) \/ Register(p) \/ FindKey(p)
             \/ ProbeType(p) \/ Delete(p) \/ Forget(p)
    <3>1. pc'[p] # "done"
      BY <2>1 DEF Invoke, Load, Refuse, ProbeKey, Generate, SelfSign,
           SelfSignFails, Register, FindKey, ProbeType, Delete, Forget,
           CommandRecord
    <3> QED
      BY <1>1, <3>1
  <2>2. CASE \/ MatchNamed(p) \/ Answer(p) \/ MatchOnly(p) \/ ProbeCert(p)
             \/ DiscardCert(p) \/ Open(p) \/ Fault(p)
    <3>1. pc'[p] # "done"
      BY <2>2 DEF MatchNamed, Answer, Unanswered, Ask, MatchOnly, MatchKey,
           ProbeCert, DiscardCert, Open, Fault, ToolFails, Crash
    <3> QED
      BY <1>1, <3>1
  <2> QED
    BY <1>5, <2>1, <2>2 DEF Next, Step
<1> QED
  BY <1>1, <1>2, <1>3, <1>4, <1>5

LEMMA OwnStep ==
  ASSUME NEW p, Proc = {p}, Listed = ObjectType
  PROVE  IndInv /\ AloneInv /\ OwnInv /\ [Next]_vars => OwnInv'
<1> SUFFICES ASSUME IndInv, AloneInv, OwnInv, [Next]_vars PROVE OwnInv'
  OBVIOUS
<1>1. NamesInv' /\ MatchInv' /\ ImportDone' /\ GenkeyDone'
  BY NamesStep, MatchStep, DoneStep DEF OwnInv
<1>2. faults' \in {faults, faults + 1} /\ crashes' \in {crashes, crashes + 1}
  BY DEF Next, Step, Fault, Invoke, Load, Refuse, ProbeKey, Generate, SelfSign,
         SelfSignFails, Register, FindKey, ProbeType, Delete, Forget, MatchNamed,
         Answer, Unanswered, MatchOnly, ProbeCert, DiscardCert, ImportCert, Open,
         Write, ToolFails, Crash, vars, count
<1>3. faults \in Nat /\ crashes \in Nat
  BY DEF IndInv, TypeOK
<1>4. faults' = 0 /\ crashes' = 0 => UncutInv'
  BY <1>2, <1>3, UncutStep DEF OwnInv
<1> QED
  BY <1>1, <1>4 DEF OwnInv

LEMMA OwnInvariance ==
  ASSUME NEW p, OneCommand(p)
  PROVE  Spec /\ OwnStart => []OwnInv
<1>1. IndInv /\ AloneInv /\ OwnInv /\ [Next]_vars => OwnInv'
  BY OwnStep DEF OneCommand
<1> QED
  BY Invariance, AloneInvariance, OwnInit, <1>1, PTL DEF Spec

\* With one command at a time, on keys that have their IDs as labels and are
\* whole at first: genkey that reports success has made the key and a certificate
\* for it and registered it for every use, where nothing before was cut short.
THEOREM KeysGenerated ==
  ASSUME NEW p, OneCommand(p)
  PROVE  Spec /\ OwnStart => []GenkeyDone
<1>1. OwnInv => GenkeyDone
  BY DEF OwnInv
<1> QED
  BY OwnInvariance, <1>1, PTL

\* Under the same conditions, and however often anything was cut short before:
\* after importcert has reported success, the key's URI selects the new
\* certificate and no other, and a public key that it certifies.
THEOREM CertificatesImported ==
  ASSUME NEW p, OneCommand(p)
  PROVE  Spec /\ OwnStart => []ImportDone
<1>1. OwnInv => ImportDone
  BY DEF OwnInv
<1> QED
  BY OwnInvariance, <1>1, PTL

\* Under the same conditions, and while no command was cut short: the
\* configuration names no key that the token lacks.
THEOREM RegisteredKeysExist ==
  ASSUME NEW p, OneCommand(p)
  PROVE  Spec /\ OwnStart => []KeysOnToken
<1>1. ASSUME IndInv, OwnInv PROVE KeysOnToken
  <2>1. ASSUME \A q \in Proc : pc[q] \in Ended, faults = 0, crashes = 0,
               NEW k \in KeyId, file.keys[k] \in Label
        PROVE  Pairs("private", file.keys[k]) # {}
    <3>1. file.keys[k] = k
      BY <1>1, <2>1, OwnLabel DEF OwnInv, NamesInv, IndInv, TypeOK
    <3>2. HasKey(k) /\ \A q \in Proc : ~Deletes(q, k)
      BY <1>1, <2>1, <3>1 DEF OwnInv, UncutInv, Deletes, Ended
    <3> QED
      BY <3>1, <3>2 DEF HasKey
  <2> QED
    BY <2>1 DEF KeysOnToken
<1> QED
  BY Invariance, OwnInvariance, <1>1, PTL
=============================================================================
