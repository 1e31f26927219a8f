---------------------------- MODULE SetupProofs ----------------------------
(***************************************************************************)
(* Proofs about Setup: for any keys, commands, initial token and           *)
(* configuration, faults and crashes; first for any number of terminals,   *)
(* then for one.                                                           *)
(***************************************************************************)
EXTENDS Setup, KeySetupProofs

-----------------------------------------------------------------------------
(* Any number of terminals.                                                *)

\* A step of a key command is a step of KeySetup.
LEMMA CommandIsNext ==
  ASSUME NEW p \in Proc,
         InvokeKeyCommand(p) \/ KeyCommandStep(p) \/ KeyCommandFault(p)
  PROVE  [Next]_vars
BY DEF InvokeKeyCommand, KeyCommandStep, KeyCommandFault, Next

\* What setup softhsm does to the variables of KeySetup.
LEMMA SetupStepDisk ==
  ASSUME NEW p \in Proc, SetupStart(p) \/ SetupStep(p) \/ SetupStops(p)
  PROVE  /\ UNCHANGED <<hsm, pc, cmd, local, count>>
         /\ \/ UNCHANGED disk
            \/ OpenFile(p) /\ text' \in {text, "whole"} /\ file' = file
            \/ FillFile(p) /\ text' \in {"whole", "mixed"} /\ file' = FreshConfig
<1> USE DEF vars
<1>1. CASE OpenFile(p)
  BY <1>1 DEF OpenFile
<1>2. CASE FillFile(p)
  BY <1>2 DEF FillFile
<1>3. CASE SetupStart(p) \/ CheckFile(p) \/ ShowSlots(p) \/ InitToken(p)
           \/ SetupStops(p)
  BY <1>3 DEF SetupStart, CheckFile, ShowSlots, InitToken, SetupStops
<1> QED
  BY <1>1, <1>2, <1>3 DEF SetupStep

\* The invariant of KeySetup is one of Setup.
LEMMA KeyStep ==
  IndInv /\ Loads(file) /\ [SetupNext]_allVars => IndInv' /\ Loads(file)'
<1> SUFFICES ASSUME IndInv, Loads(file), [SetupNext]_allVars
             PROVE  IndInv' /\ Loads(file)'
  OBVIOUS
<1>1. ASSUME [Next]_vars PROVE IndInv' /\ Loads(file)'
  <2>1. IndInv'
    BY <1>1, TypeStep, StepStep, LoadsStep DEF IndInv
  <2>2. file' = file \/ \E p \in Proc : file' = mem[p]
    BY <1>1 DEF Next, Step, Fault, Invoke, Load, Refuse, ProbeKey, Generate,
         SelfSign, SelfSignFails, Register, FindKey, ProbeType, Delete, Forget,
         MatchNamed, Answer, Unanswered, MatchOnly, ProbeCert, DiscardCert,
         ImportCert, Open, Write, ToolFails, Crash, vars, disk
  <2> QED
    BY <2>1, <2>2 DEF IndInv, ConfigLoads, Loads, Registered
<1>2. ASSUME NEW p \in Proc, SetupStart(p) \/ SetupStep(p) \/ SetupStops(p)
      PROVE  IndInv' /\ Loads(file)'
  <2>1. /\ UNCHANGED <<token, pairs, pc, cmd, mem, uri, left, found, asked, hits,
                       pem, failing, commands, faults, crashes>>
        /\ text' \in {text, "whole", "mixed"} /\ file' \in {file, FreshConfig}
    BY <1>2, SetupStepDisk DEF hsm, local, search, count, disk
  <2>2. Loads(file') /\ file' \in Config
    BY <2>1, SetupAssumption DEF IndInv, TypeOK
  <2>3. TypeOK'
    BY <2>1, <2>2 DEF IndInv, TypeOK, CommandRecord
  <2>4. StepInv'
    BY <2>1 DEF IndInv, StepInv, Key
  <2>5. ConfigLoads'
    BY <2>1, <2>2 DEF IndInv, ConfigLoads
  <2> QED
    BY <2>2, <2>3, <2>4, <2>5 DEF IndInv
<1>3. CASE UNCHANGED allVars
  BY <1>1, <1>3 DEF allVars
<1> QED
  BY <1>1, <1>2, <1>3, CommandIsNext DEF SetupNext

LEMMA SetupTypeStep ==
  SetupTypeOK /\ TypeOK' /\ [SetupNext]_allVars => SetupTypeOK'
<1> SUFFICES ASSUME SetupTypeOK, TypeOK', [SetupNext]_allVars PROVE SetupTypeOK'
  OBVIOUS
<1> USE DEF SetupTypeOK, SetupStates, Resting, File, Place
<1>1. ASSUME NEW p \in Proc, SetupStart(p) PROVE SetupTypeOK'
  BY <1>1 DEF SetupStart
<1>8. ASSUME NEW p \in Proc, SetupStops(p) PROVE SetupTypeOK'
  <2>1. slots' \in {slots, slots + 1}
    BY <1>8 DEF SetupStops
  <2> QED
    BY <1>8, <2>1 DEF SetupStops
<1>2. ASSUME NEW p \in Proc, CheckFile(p) PROVE SetupTypeOK'
  BY <1>2 DEF CheckFile, After
<1>3. ASSUME NEW p \in Proc, OpenFile(p) PROVE SetupTypeOK'
  BY <1>3 DEF OpenFile
<1>4. ASSUME NEW p \in Proc, FillFile(p) PROVE SetupTypeOK'
  BY <1>4 DEF FillFile, After
<1>5. ASSUME NEW p \in Proc, ShowSlots(p) \/ InitToken(p) PROVE SetupTypeOK'
  <2>1. env' \in [Proc -> BOOLEAN]
    BY <1>5 DEF ShowSlots, InitToken, Enable
  <2>2. CASE ShowSlots(p)
    BY <2>1, <2>2 DEF ShowSlots
  <2>3. CASE InitToken(p)
    BY <2>1, <2>3 DEF InitToken
  <2> QED
    BY <1>5, <2>2, <2>3
<1>6. ASSUME NEW p \in Proc,
             InvokeKeyCommand(p) \/ KeyCommandStep(p) \/ KeyCommandFault(p)
      PROVE  SetupTypeOK'
  <2>1. UNCHANGED <<slots, at, on, setups, stops>>
    BY <1>6 DEF InvokeKeyCommand, KeyCommandStep, KeyCommandFault, setupVars
  <2>2. env' = env \/ env' = [env EXCEPT ![p] = made["conf"] # "absent"]
    BY <1>6 DEF InvokeKeyCommand, KeyCommandStep, KeyCommandFault, setupVars
  <2>3. made' = made \/ made' = [made EXCEPT !["config"] = "written"]
    BY <1>6 DEF InvokeKeyCommand, KeyCommandStep, KeyCommandFault, setupVars
  <2>4. env' \in [Proc -> BOOLEAN]
    BY <2>2
  <2> QED
    BY <2>1, <2>3, <2>4
<1>7. CASE UNCHANGED allVars
  BY <1>7 DEF allVars, setupVars
<1> QED
  BY <1>1, <1>2, <1>3, <1>4, <1>5, <1>6, <1>7, <1>8 DEF SetupNext, SetupStep

\* What a run of setup softhsm, or a command, has gone past stays there.
LEMMA PastStep ==
  /\ SetupTypeOK /\ PastInv /\ Loads(file)' /\ [SetupNext]_allVars => PastInv'
<1> SUFFICES ASSUME SetupTypeOK, PastInv, Loads(file)', [SetupNext]_allVars
             PROVE  PastInv'
  OBVIOUS
<1> USE DEF SetupTypeOK, PastInv, OrderInv, Resting, File, Working
<1>0. ASSUME NEW p \in Proc, SetupStart(p) \/ SetupStep(p) \/ SetupStops(p)
      PROVE  pc' = pc
  BY <1>0, SetupStepDisk
<1>1. ASSUME NEW p \in Proc, SetupStart(p) PROVE PastInv'
  BY <1>0, <1>1 DEF SetupStart, Place
<1>2. ASSUME NEW p \in Proc, CheckFile(p) PROVE PastInv'
  <2>1. UNCHANGED <<made, slots, pc>>
    BY <1>0, <1>2 DEF CheckFile, SetupStep
  <2>2. \A q \in Proc : q # p => at'[q] = at[q] /\ on'[q] = on[q]
    BY <1>2 DEF CheckFile, Place, After
  <2>3. \/ at'[p] = "open" /\ on'[p] = on[p]
        \/ on[p] = "conf" /\ at'[p] = "check" /\ on'[p] = "pin"
           /\ made["conf"] # "absent"
        \/ on[p] = "pin" /\ at'[p] = "show" /\ on'[p] = "config"
           /\ made["pin"] # "absent"
        \/ on[p] = "config" /\ at'[p] = "done" /\ on'[p] = "config"
           /\ made["config"] # "absent"
    BY <1>2 DEF CheckFile, Place, After
  <2>4. at[p] = "check"
    BY <1>2 DEF CheckFile
  <2> QED
    BY <2>1, <2>2, <2>3, <2>4
<1>3. ASSUME NEW p \in Proc, OpenFile(p) PROVE PastInv'
  <2>1. /\ UNCHANGED <<slots, pc>> /\ at[p] = "open"
        /\ made' = [made EXCEPT ![on[p]] = "empty"]
        /\ at' = [at EXCEPT ![p] = "fill"] /\ on' = [on EXCEPT ![p] = on[p]]
    BY <1>3 DEF OpenFile, Place
  <2>2. \A f \in File : made[f] # "absent" \/ f = on[p] <=> made'[f] # "absent"
    BY <2>1
  <2> QED
    BY <2>1, <2>2
<1>4. ASSUME NEW p \in Proc, FillFile(p) PROVE PastInv'
  <2>1. /\ UNCHANGED <<slots, pc>> /\ at[p] = "fill"
        /\ made' = [made EXCEPT ![on[p]] = "written"]
    BY <1>4 DEF FillFile
  <2>2. \A f \in File : made[f] # "absent" <=> made'[f] # "absent"
    BY <2>1
  <2>3. \A q \in Proc : q # p => at'[q] = at[q] /\ on'[q] = on[q]
    BY <1>4 DEF FillFile, Place, After
  <2>4. \/ on[p] = "conf" /\ at'[p] = "check" /\ on'[p] = "pin"
        \/ on[p] = "pin" /\ at'[p] = "show" /\ on'[p] = "config"
        \/ on[p] = "config" /\ at'[p] = "done" /\ on'[p] = "config"
    BY <1>4 DEF FillFile, Place, After
  <2> QED
    BY <2>1, <2>2, <2>3, <2>4
<1>5. ASSUME NEW p \in Proc, ShowSlots(p) PROVE PastInv'
  BY <1>0, <1>5 DEF ShowSlots, Place, SetupStep
<1>6. ASSUME NEW p \in Proc, InitToken(p) PROVE PastInv'
  BY <1>0, <1>6 DEF InitToken, Place, SetupStep
<1>7. ASSUME NEW p \in Proc, SetupStops(p) PROVE PastInv'
  <2>1. /\ UNCHANGED <<made, pc>> /\ at' = [at EXCEPT ![p] = "failed"]
        /\ on' = [on EXCEPT ![p] = on[p]]
        /\ slots' = slots \/ (slots' = slots + 1 /\ at[p] = "init")
    BY <1>0, <1>7 DEF SetupStops, Place
  <2>2. OrderInv' /\ slots' >= slots
    BY <2>1
  <2> QED
    BY <2>1, <2>2
<1>8. ASSUME NEW p \in Proc, InvokeKeyCommand(p) PROVE PastInv'
  BY <1>8 DEF InvokeKeyCommand, Invoke, Goto
<1>9. ASSUME NEW p \in Proc, KeyCommandFault(p) PROVE PastInv'
  <2>1. \A q \in Proc : Working(q)' => Working(q)
    BY <1>9 DEF KeyCommandFault, Fault, ToolFails, Unanswered, Crash, Goto, Ask,
                Tools, Ended, TypeOK
  <2> QED
    BY <1>9, <2>1 DEF KeyCommandFault, setupVars
<1>10. ASSUME NEW p \in Proc, KeyCommandStep(p) PROVE PastInv'
  <2>1. UNCHANGED <<slots, at, on>>
    BY <1>10 DEF KeyCommandStep
  <2>2. Working(p) \/ pc[p] = "load"
    BY <1>10 DEF KeyCommandStep, Step, Load, Refuse, ProbeKey, Generate, SelfSign,
         SelfSignFails, Register, FindKey, ProbeType, Delete, Forget, MatchNamed,
         Answer, MatchOnly, Ask, ProbeCert, DiscardCert, ImportCert, Open, Write, Ended
  <2>3. \A q \in Proc : q # p => pc'[q] = pc[q]
    BY <1>10 DEF KeyCommandStep, Step, Load, Refuse, ProbeKey, Generate, SelfSign,
         SelfSignFails, Register, FindKey, ProbeType, Delete, Forget, MatchNamed,
         Answer, MatchOnly, MatchKey, Ask, ProbeCert, DiscardCert, ImportCert,
         Open, Write, Goto, TypeOK
  <2>4. made' = made \/ (pc[p] = "save" /\ made' = [made EXCEPT !["config"] = "written"])
    BY <1>10 DEF KeyCommandStep
  <2>5. pc[p] = "load" /\ Working(p)' => slots > 0
    BY <1>10 DEF KeyCommandStep, Ended
  <2>6. Working(p)' => slots > 0
    BY <2>2, <2>5
  <2>7. pc[p] = "save" => slots > 0
    BY DEF Ended
  <2>8. \A f \in File : made[f] # "absent" => made'[f] # "absent"
    BY <2>4
  <2>9. OrderInv'
    BY <2>1, <2>4, <2>7
  <2> QED
    BY <2>1, <2>3, <2>6, <2>8, <2>9
<1>11. CASE UNCHANGED allVars
  BY <1>11 DEF allVars, setupVars, vars
<1> QED
  BY <1>1, <1>2, <1>3, <1>4, <1>5, <1>6, <1>7, <1>8, <1>9, <1>10, <1>11
  DEF SetupNext, SetupStep

THEOREM SetupInvariance == SetupSpec => [](IndInv /\ SetupTypeOK /\ PastInv)
<1> DEFINE I == IndInv /\ SetupTypeOK /\ PastInv
<1>1. SetupInit => I
  <2> SUFFICES ASSUME SetupInit PROVE I
    OBVIOUS
  <2>1. IndInv /\ Loads(file)
    BY InitIndInv, InitialAssumption DEF SetupInit, Init
  <2>2. SetupTypeOK
    BY <2>1 DEF SetupInit, SetupTypeOK, IndInv, SetupStates, Resting, File
  <2>3. PastInv
    BY <2>1 DEF SetupInit, Init, PastInv, OrderInv, Resting, Working, Ended, File
  <2> QED
    BY <2>1, <2>2, <2>3
<1>2. I /\ [SetupNext]_allVars => I'
  <2> SUFFICES ASSUME I, [SetupNext]_allVars PROVE I'
    OBVIOUS
  <2>1. IndInv' /\ Loads(file)'
    BY KeyStep DEF PastInv
  <2>2. SetupTypeOK'
    BY <2>1, SetupTypeStep DEF IndInv
  <2>3. PastInv'
    BY <2>1, PastStep
  <2> QED
    BY <2>1, <2>2, <2>3
<1> QED
  BY <1>1, <1>2, PTL DEF SetupSpec

\* Type correctness.
THEOREM SetupTypeCorrect == SetupSpec => []SetupTypeOK
<1>1. IndInv /\ SetupTypeOK /\ PastInv => SetupTypeOK
  OBVIOUS
<1> QED
  BY SetupInvariance, <1>1, PTL

\* Neither setup softhsm nor a key command, in however many terminals and
\* stopped wherever, leaves a whole config.yaml that does not load.
THEOREM SetupConfigLoads == SetupSpec => []ConfigLoads
<1>1. IndInv /\ SetupTypeOK /\ PastInv => ConfigLoads
  BY DEF IndInv
<1> QED
  BY SetupInvariance, <1>1, PTL

\* In however many terminals the set-up runs: the files are made in order, a
\* set-up that says it is done has left none out, and a command that has read
\* its configuration finds a token.
THEOREM SetupInOrder ==
  SetupSpec => [](/\ OrderInv
                  /\ \A p \in Proc :
                       /\ Working(p) => slots > 0
                       /\ at[p] = "done" => \A f \in File : made[f] # "absent")
<1>1. IndInv /\ SetupTypeOK /\ PastInv =>
        /\ OrderInv
        /\ \A p \in Proc :
             /\ Working(p) => slots > 0
             /\ at[p] = "done" => \A f \in File : made[f] # "absent"
  BY DEF PastInv
<1> QED
  BY SetupInvariance, <1>1, PTL

-----------------------------------------------------------------------------
(* One terminal.                                                           *)

LEMMA AloneSetupStep ==
  ASSUME NEW p, Proc = {p}
  PROVE  /\ SetupTypeOK /\ PastInv /\ AloneSetupInv /\ [SetupNext]_allVars
         => AloneSetupInv'
<1> SUFFICES ASSUME SetupTypeOK, PastInv, AloneSetupInv, [SetupNext]_allVars
             PROVE  AloneSetupInv'
  OBVIOUS
<1>0. p \in Proc /\ TypeOK
  BY DEF SetupTypeOK
<1> USE <1>0 DEF SetupTypeOK, AloneSetupInv, Resting, File
<1>a. ASSUME SetupStart(p) \/ SetupStep(p) \/ SetupStops(p)
      PROVE  UNCHANGED <<pc, hsm, cmd, local, count>>
  BY <1>a, SetupStepDisk
<1>b. ASSUME at[p] \notin Resting PROVE pc[p] \in Ended
  BY <1>b
<1>1. CASE SetupStart(p)
  BY <1>1, <1>a DEF SetupStart, Place, Rests, Working, vars, disk
<1>2. CASE CheckFile(p)
  <2>1. UNCHANGED <<made, slots, pc, disk, stops, env>>
    BY <1>2, <1>a DEF CheckFile, SetupStep, vars
  <2>2. /\ at[p] = "check"
        /\ \/ at'[p] = "open" /\ on'[p] = on[p] /\ made[on[p]] = "absent"
           \/ at'[p] \in {"check", "show", "done"}
    BY <1>2 DEF CheckFile, Place, After
  <2>3. pc[p] \in Ended
    BY <1>b, <2>2
  <2> QED
    BY <2>1, <2>2, <2>3 DEF Working, disk, Ended
<1>3. CASE OpenFile(p)
  <2>1. /\ at[p] = "open" /\ at'[p] = "fill" /\ on'[p] = on[p]
        /\ made' = [made EXCEPT ![on[p]] = "empty"]
        /\ UNCHANGED <<slots, pc, stops, env, file>>
        /\ text' = IF on[p] = "config" THEN "whole" ELSE text
    BY <1>3, <1>a DEF OpenFile, Place
  <2>2. pc[p] \in Ended /\ made[on[p]] = "absent"
    BY <1>b, <2>1
  <2>3. made'["config"] # "written" => file' = FreshConfig /\ text' = "whole"
    BY <2>1, <2>2
  <2> QED
    BY <2>1, <2>2, <2>3 DEF Working, Ended
<1>4. CASE FillFile(p)
  <2>1. /\ at[p] = "fill" /\ at'[p] \in {"check", "show", "done"}
        /\ made' = [made EXCEPT ![on[p]] = "written"]
        /\ UNCHANGED <<slots, pc, stops, env>>
        /\ on[p] # "config" => UNCHANGED <<text, file>>
    BY <1>4, <1>a DEF FillFile, Place, After, disk
  <2>2. pc[p] \in Ended
    BY <1>b, <2>1
  <2> QED
    BY <2>1, <2>2 DEF Working, Ended
<1>5. CASE ShowSlots(p)
  <2>1. /\ at[p] = "show" /\ UNCHANGED <<made, slots, pc, disk, stops>>
        /\ at'[p] = "check" \/ (at'[p] = "init" /\ slots = 0)
    BY <1>5, <1>a DEF ShowSlots, Place, vars
  <2>2. pc[p] \in Ended
    BY <1>b, <2>1
  <2> QED
    BY <2>1, <2>2 DEF Working, Ended, disk
<1>6. CASE InitToken(p)
  <2>1. /\ at[p] = "init" /\ UNCHANGED <<made, pc, disk, stops, env>>
        /\ at'[p] = "check" /\ slots' = slots + 1
    BY <1>6, <1>a DEF InitToken, Place, vars
  <2>2. pc[p] \in Ended /\ slots = 0
    BY <1>b, <2>1
  <2> QED
    BY <2>1, <2>2 DEF Working, Ended, disk
<1>7. CASE SetupStops(p)
  <2>1. /\ at[p] \notin Resting /\ at'[p] = "failed" /\ stops' = stops + 1
        /\ UNCHANGED <<made, pc, disk, env>>
        /\ slots' = slots \/ (slots' = slots + 1 /\ at[p] = "init")
    BY <1>7, <1>a DEF SetupStops, Place, vars
  <2>2. pc[p] \in Ended
    BY <1>b, <2>1
  <2> QED
    BY <2>1, <2>2 DEF Working, Ended, disk
<1>8. CASE InvokeKeyCommand(p)
  <2>1. /\ pc'[p] = "load" /\ at[p] \in Resting /\ pc[p] \in Ended
        /\ UNCHANGED <<made, slots, at, on, stops, disk>>
        /\ env'[p] = (made["conf"] # "absent")
    BY <1>8 DEF InvokeKeyCommand, Rests, Invoke, Goto, TypeOK
  <2>2. ~Working(p) /\ ~Working(p)'
    BY <2>1 DEF Working
  <2>3. at'[p] = at[p] /\ on'[p] = on[p] /\ at[p] \notin {"open", "fill", "init"}
    BY <2>1
  <2>4. made'["config"] # "written" => file' = FreshConfig /\ text' = "whole"
    BY <2>1 DEF disk
  <2>5. slots' \in {0, 1} /\ at'[p] \in Resting
    BY <2>1
  <2>6. stops' = 0 => \A f \in File : made'[f] # "empty"
    BY <2>1, <2>3
  <2> QED
    BY <2>1, <2>2, <2>3, <2>4, <2>5, <2>6
<1>9. CASE KeyCommandFault(p)
  <2>1. /\ UNCHANGED <<made, slots, at, on, stops, env, disk>>
        /\ pc'[p] \in Ended \/ (Working(p) /\ pc'[p] # "load")
        /\ pc[p] \notin Ended
    BY <1>9 DEF KeyCommandFault, setupVars, Fault, ToolFails, Unanswered, Crash,
                Goto, Ask, Tools, Ended, Working, TypeOK
  <2>2. at[p] \in Resting
    BY <2>1
  <2> QED
    BY <2>1, <2>2 DEF Working, disk
<1>10. CASE KeyCommandStep(p)
  <2>1. UNCHANGED <<slots, at, on, stops, env>>
    BY <1>10 DEF KeyCommandStep
  <2>2. pc[p] \notin Ended /\ pc'[p] # "load"
    BY <1>10 DEF KeyCommandStep, Step, Load, Refuse, ProbeKey, Generate, SelfSign,
         SelfSignFails, Register, FindKey, ProbeType, Delete, Forget, MatchNamed,
         Answer, MatchOnly, MatchKey, Ask, ProbeCert, DiscardCert, ImportCert,
         Open, Write, Ended, Goto, CommandRecord, TypeOK
  <2>3. at[p] \in Resting
    BY <2>2
  <2>4. CASE pc[p] = "load"
    <3>2. made' = made
      BY <1>10, <2>4 DEF KeyCommandStep
    <3>3. UNCHANGED disk
      BY <1>10, <2>4 DEF KeyCommandStep, Step, Load, Refuse, ProbeKey, Generate,
         SelfSign, SelfSignFails, Register, FindKey, ProbeType, Delete, Forget,
         MatchNamed, Answer, MatchOnly, Ask, ProbeCert, DiscardCert, ImportCert,
         Open, Write
    <3>4. pc'[p] = "failed" \/ made["config"] = "written"
      BY <1>10, <2>4 DEF KeyCommandStep
    <3>5. made["config"] = "written" => env[p]
      BY <2>4 DEF PastInv, OrderInv
    <3> QED
      BY <2>1, <2>2, <2>3, <3>2, <3>3, <3>4, <3>5 DEF Working, Ended, disk
  <2>5. CASE pc[p] # "load"
    <3>1. env[p] /\ made["config"] = "written"
      BY <2>2, <2>5 DEF Working
    <3>2. made' = made
      BY <1>10, <3>1 DEF KeyCommandStep
    <3> QED
      BY <2>1, <2>2, <2>3, <3>1, <3>2
  <2> QED
    BY <2>4, <2>5
<1>11. CASE UNCHANGED allVars
  BY <1>11 DEF allVars, setupVars, vars, disk, Working
<1> QED
  BY <1>1, <1>2, <1>3, <1>4, <1>5, <1>6, <1>7, <1>8, <1>9, <1>10, <1>11
  DEF SetupNext, SetupStep

LEMMA AloneSetup ==
  ASSUME NEW p, Proc = {p}
  PROVE  SetupSpec => []AloneSetupInv
<1>1. SetupInit => AloneSetupInv
  BY DEF SetupInit, Init, AloneSetupInv, Ended, Resting, File, Working
<1>2. IndInv /\ SetupTypeOK /\ PastInv /\ AloneSetupInv /\ [SetupNext]_allVars
        => AloneSetupInv'
  BY AloneSetupStep
<1> QED
  BY SetupInvariance, <1>1, <1>2, PTL DEF SetupSpec

\* One set-up at a time, stopped and repeated at will: it makes no second token
\* (`--show-slots' is asked before `--init-token').
THEOREM OneToken ==
  ASSUME NEW p, Proc = {p}
  PROVE  SetupSpec => []OneLocalToken
<1>1. AloneSetupInv => OneLocalToken
  BY DEF AloneSetupInv, OneLocalToken
<1> QED
  BY AloneSetup, <1>1, PTL

\* It says `done' only of a set-up that has all files and the token, and whose
\* files have been filled where no run was stopped.
THEOREM SetupIsDone ==
  ASSUME NEW p, Proc = {p}
  PROVE  SetupSpec => []SetupDone
<1>1. ASSUME SetupTypeOK, PastInv, AloneSetupInv PROVE SetupDone
  <2>1. ASSUME NEW q \in Proc, at[q] = "done"
        PROVE  /\ slots = 1 /\ \A f \in File : made[f] # "absent"
               /\ stops = 0 => \A f \in File : made[f] # "empty"
    BY <1>1, <2>1 DEF PastInv, AloneSetupInv
  <2> QED
    BY <1>1, <2>1 DEF SetupDone, SetupTypeOK
<1> QED
  BY SetupInvariance, AloneSetup, <1>1, PTL

\* A key command that has read the configuration has the environment, the token
\* and the PIN file that it needs, although it looked for SOFTHSM2_CONF first.
THEOREM ToolsAreReady ==
  ASSUME NEW p, Proc = {p}
  PROVE  SetupSpec => []ToolsReady
<1>1. ASSUME SetupTypeOK, PastInv, AloneSetupInv PROVE ToolsReady
  <2>1. ASSUME NEW q \in Proc, pc[q] \notin Ended \cup {"load"}
        PROVE  /\ env[q] /\ slots > 0 /\ at[q] \in Resting
               /\ made["conf"] # "absent" /\ made["pin"] # "absent"
    BY <1>1, <2>1 DEF PastInv, AloneSetupInv, OrderInv, Working
  <2>2. ASSUME NEW q \in Proc, pc[q] \notin Ended \cup {"load"}, stops = 0
        PROVE  made["pin"] # "empty"
    BY <1>1, <2>1, <2>2 DEF AloneSetupInv, File, Resting
  <2> QED
    BY <1>1, <2>1, <2>2 DEF ToolsReady, SetupTypeOK, File
<1> QED
  BY SetupInvariance, AloneSetup, <1>1, PTL

\* `already exists, leaving it untouched': no file that has been filled is made
\* anew, and a configuration changes only where a key command saves it.
THEOREM FilesKept ==
  ASSUME NEW p, Proc = {p}
  PROVE  SetupSpec => FilesUntouched
<1>1. ASSUME SetupTypeOK, PastInv, AloneSetupInv, SetupNext PROVE LeavesFiles
  <2>0. p \in Proc
    OBVIOUS
  <2> USE <1>1, <2>0 DEF SetupTypeOK, File, LeavesFiles
  <2>1. CASE OpenFile(p)
    BY <2>1 DEF OpenFile, AloneSetupInv
  <2>2. CASE FillFile(p)
    BY <2>2 DEF FillFile, AloneSetupInv, disk
  <2>3. CASE SetupStart(p) \/ CheckFile(p) \/ ShowSlots(p) \/ InitToken(p)
             \/ SetupStops(p)
    BY <2>3 DEF SetupStart, CheckFile, ShowSlots, InitToken, SetupStops, vars, disk
  <2>4. CASE InvokeKeyCommand(p) \/ KeyCommandStep(p) \/ KeyCommandFault(p)
    <3>1. made' = made \/ made' = [made EXCEPT !["config"] = "written"]
      BY <2>4 DEF InvokeKeyCommand, KeyCommandStep, KeyCommandFault, setupVars
    <3>2. file' = file \/ pc[p] = "write"
      BY <2>4 DEF InvokeKeyCommand, KeyCommandStep, KeyCommandFault, Step, Fault,
           Invoke, Load, Refuse, ProbeKey, Generate, SelfSign, SelfSignFails,
           Register, FindKey, ProbeType, Delete, Forget, MatchNamed, Answer,
           Unanswered, MatchOnly, ProbeCert, DiscardCert, ImportCert, Open, Write,
           ToolFails, Crash, disk
    <3> QED
      BY <3>1, <3>2
  <2> QED
    BY <2>1, <2>2, <2>3, <2>4 DEF SetupNext, SetupStep
<1>2. IndInv /\ SetupTypeOK /\ PastInv /\ AloneSetupInv /\ [SetupNext]_allVars
        => [LeavesFiles]_allVars
  BY <1>1
<1> QED
  BY SetupInvariance, AloneSetup, <1>2, PTL DEF SetupSpec, FilesUntouched

\* With setup softhsm beside them, the key commands take the steps of KeySetup
\* and no others: it makes config.yaml before they read it and never after.
THEOREM SetupImplements ==
  ASSUME NEW p, Proc = {p}
  PROVE  SetupSpec => ImplementsKeySetup
<1>1. SetupInit => Init
  BY DEF SetupInit
<1>2. ASSUME SetupTypeOK, AloneSetupInv, [SetupNext]_allVars PROVE [Next]_vars
  <2>0. p \in Proc
    OBVIOUS
  <2> USE <1>2, <2>0
  <2>1. CASE SetupStart(p) \/ SetupStep(p) \/ SetupStops(p)
    <3>1. UNCHANGED <<hsm, pc, cmd, local, count>>
      BY <2>1, SetupStepDisk
    <3>2. OpenFile(p) => UNCHANGED disk
      BY DEF OpenFile, AloneSetupInv, disk
    <3>3. FillFile(p) => UNCHANGED disk
      BY DEF FillFile, AloneSetupInv, disk
    <3> QED
      BY <2>1, <3>1, <3>2, <3>3, SetupStepDisk DEF vars
  <2>2. CASE UNCHANGED allVars
    BY <2>2 DEF allVars
  <2> QED
    BY <2>1, <2>2, CommandIsNext DEF SetupNext
<1>3. IndInv /\ SetupTypeOK /\ PastInv /\ AloneSetupInv /\ [SetupNext]_allVars
        => [Next]_vars
  BY <1>2
<1> QED
  BY SetupInvariance, AloneSetup, <1>1, <1>3, PTL
  DEF SetupSpec, Spec, ImplementsKeySetup

\* So what is proved of the key commands of one terminal (OneKey, DeletedWhole,
\* SettingsStay, KeysGenerated, CertificatesImported, RegisteredKeysExist,
\* StoreImplements) stays true of them beside setup softhsm.
THEOREM SetupKeepsKeys ==
  ASSUME NEW p, OneCommand(p)
  PROVE  /\ SetupSpec => /\ [](OneKeyPerLabel /\ DelkeyDone) /\ SettingsKept
                         /\ ImplementsKeyStore
         /\ SetupSpec /\ OwnStart => [](GenkeyDone /\ ImportDone /\ KeysOnToken)
<1>1. Spec => [](OneKeyPerLabel /\ DelkeyDone) /\ SettingsKept /\ ImplementsKeyStore
  <2>1. Spec => []OneKeyPerLabel
    BY OneKey
  <2>2. Spec => []DelkeyDone
    BY DeletedWhole
  <2>3. Spec => SettingsKept
    BY SettingsStay DEF OneCommand
  <2>4. Spec => ImplementsKeyStore
    BY StoreImplements
  <2> QED
    BY <2>1, <2>2, <2>3, <2>4, PTL
<1>2. Spec /\ OwnStart => [](GenkeyDone /\ ImportDone /\ KeysOnToken)
  <2>1. Spec /\ OwnStart => []GenkeyDone
    BY KeysGenerated
  <2>2. Spec /\ OwnStart => []ImportDone
    BY CertificatesImported
  <2>3. Spec /\ OwnStart => []KeysOnToken
    BY RegisteredKeysExist
  <2> QED
    BY <2>1, <2>2, <2>3, PTL
<1>3. SetupSpec => Spec
  BY SetupImplements DEF ImplementsKeySetup, OneCommand
<1> QED
  BY <1>1, <1>2, <1>3, PTL
=============================================================================
