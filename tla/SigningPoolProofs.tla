------------------------- MODULE SigningPoolProofs -------------------------
(***************************************************************************)
(* Proofs about SigningPool, for any number of jobs, of workers and of     *)
(* killed workers, any programs and any preflight verdicts.  IndInv is     *)
(* proved inductive one conjunct at a time.                                *)
(***************************************************************************)
EXTENDS SigningPool, TLAPS

-----------------------------------------------------------------------------
(* The data.                                                               *)

\* A step's name is a job and a place in its program.
LEMMA StepNames ==
  ASSUME NEW op
  PROVE  /\ \A j \in Jobs : \A s \in 1 .. Len(Prog[j]) :
              Prog[j][s].op = op => <<j, s>> \in StepsWith(op)
         /\ \A f \in StepsWith(op) :
              /\ f = <<f[1], f[2]>> /\ f[1] \in Jobs
              /\ f[2] \in 1 .. Len(Prog[f[1]])
              /\ Prog[f[1]][f[2]].op = op
BY DEF StepsWith

\* Programs are finite, so the steps of a job are numbered from one.
LEMMA ProgLen == \A j \in Jobs : Len(Prog[j]) \in Nat
BY ProgAssumption

\* Where AtStep holds of a worker, its step is one of the named steps.
LEMMA AtStepNames ==
  ASSUME NEW w \in Workers, NEW op, job[w] \in Jobs, AtStep(w, op)
  PROVE  Now(w) \in StepsWith(op)
BY StepNames DEF AtStep, Now

\* No step is named like the absence of a file.
LEMMA NoFileIsNone == NoFile \notin Fetches
BY StepNames, ProgLen DEF NoFile, Fetches, Jobs

\* Every job is in exactly one chunk, and map() cuts at least one chunk when
\* there is a job and a worker.
LEMMA ChunkRange ==
  ASSUME NJobs >= 1, Parallel >= 1
  PROVE  /\ NChunks \in Nat
         /\ \A j \in Jobs : ChunkOf(j) \in Chunks
<1> DEFINE d == TasksPerWorker * Parallel
<1>1. d \in Nat /\ d >= 1
  BY CountsAssumption
<1>2. ASSUME NEW a \in Nat, NEW b \in Nat, b >= 1
      PROVE  /\ a \div b \in Nat
             /\ b * (a \div b) <= a
             /\ a < b * (a \div b) + b
  BY <1>2
<1>3. ChunkSize \in Nat /\ ChunkSize >= 1
  BY <1>1, CountsAssumption DEF ChunkSize
<1>4. ASSUME NEW a \in Nat, NEW b \in Nat, a <= b
      PROVE  a \div ChunkSize <= b \div ChunkSize
  BY <1>2, <1>3, <1>4
<1>5. NChunks = (NJobs - 1) \div ChunkSize + 1
  BY CountsAssumption DEF NChunks, ChunkOf
<1> QED
  BY <1>2, <1>3, <1>4, <1>5, CountsAssumption DEF ChunkOf, Chunks, Jobs

LEMMA NChunksType == NChunks \in Nat
<1>1. CASE NJobs >= 1 /\ Parallel >= 1
  BY <1>1, ChunkRange
<1>2. CASE ~(NJobs >= 1 /\ Parallel >= 1)
  BY <1>2, CountsAssumption DEF NChunks
<1> QED
  BY <1>1, <1>2

\* Where a fetch step stands, its key is one the cache knows, and where a write
\* step stands, its path is one of the outputs.
LEMMA KeysAndPaths ==
  /\ \A f \in Fetches : KeyOf(f) \in Keys
  /\ \A f \in Writes : PathOf(f) \in OutPaths
BY DEF Keys, OutPaths

-----------------------------------------------------------------------------
(* The initial states.                                                     *)

\* What is in the cache at first is what an earlier call exported.
LEMMA WarmCache ==
  Init => /\ DOMAIN cache = Keys /\ cache = [k \in Keys |-> cache[k]]
          /\ \A k \in Keys : cache[k] # NoFile => cache[k] \in Warm /\ KeyOf(cache[k]) = k
          /\ \A f \in Warm : cache[KeyOf(f)] = f
<1> SUFFICES ASSUME Init
             PROVE  /\ DOMAIN cache = Keys /\ cache = [k \in Keys |-> cache[k]]
                    /\ \A k \in Keys : cache[k] # NoFile =>
                         cache[k] \in Warm /\ KeyOf(cache[k]) = k
                    /\ \A f \in Warm : cache[KeyOf(f)] = f
  OBVIOUS
<1>1. cache = [k \in Keys |-> IF \E f \in Warm : KeyOf(f) = k
                             THEN CHOOSE f \in Warm : KeyOf(f) = k ELSE NoFile]
  BY DEF Init
<1>2. \A k \in Keys :
        cache[k] = IF \E f \in Warm : KeyOf(f) = k
                   THEN CHOOSE f \in Warm : KeyOf(f) = k ELSE NoFile
  BY <1>1
<1>3. ASSUME NEW k \in Keys, \E f \in Warm : KeyOf(f) = k
      PROVE  cache[k] \in Warm /\ KeyOf(cache[k]) = k
  BY <1>2, <1>3
<1>4. \A f \in Warm : KeyOf(f) \in Keys
  BY WarmAssumption, KeysAndPaths
<1>5. ASSUME NEW f \in Warm PROVE cache[KeyOf(f)] = f
  <2>1. cache[KeyOf(f)] \in Warm /\ KeyOf(cache[KeyOf(f)]) = KeyOf(f)
    BY <1>3, <1>4
  <2> QED
    BY <2>1, WarmAssumption
<1> QED
  BY <1>1, <1>2, <1>3, <1>5

LEMMA InitIndInv == Init => IndInv
<1> SUFFICES ASSUME Init PROVE IndInv
  OBVIOUS
<1> USE DEF Init
<1>1. TypeOK
  <2>1. cache \in [Keys -> Fetches \cup {NoFile}]
    BY WarmCache, WarmAssumption
  <2>2. files \in [Fetches -> {"absent", "empty", "exported"}]
    OBVIOUS
  <2> QED
    BY <2>1, <2>2, NChunksType, CountsAssumption
    DEF TypeOK, MainStates, PcStates, Nobody, Free
<1>2. MainInv
  BY DEF MainInv, NothingBeforePreflight, Final, MainStates
<1>3. WorkerInv
  BY DEF WorkerInv, Locked, Running, Free, Workers
<1>4. CacheInv
  <2>1. \A f \in Fetches : files[f] = "exported" <=> f \in Warm
    OBVIOUS
  <2>2. \A f \in Fetches : got[f] = NoFile
    OBVIOUS
  <2>3. \A w \in Workers : pc[w] = "idle"
    OBVIOUS
  <2> QED
    BY ONLY <2>1, <2>2, <2>3, WarmCache, WarmAssumption, Init
    DEF CacheInv, OneExportPerObject
<1>5. GotInv
  BY DEF GotInv, Running, Locked
<1>6. ChunkInv
  BY DEF ChunkInv, Busy, Running, Locked, SuccessMeansAllSigned
<1>7. OutInv
  BY DEF OutInv, Running, Locked
<1>8. ChunksAccounted
  BY DEF ChunksAccounted
<1> QED
  BY <1>1, <1>2, <1>3, <1>4, <1>5, <1>6, <1>7, <1>8 DEF IndInv

-----------------------------------------------------------------------------
(* Types.                                                                  *)

\* Truncating outputs keeps them typed.
LEMMA TruncateType ==
  ASSUME TypeOK, NEW S \in SUBSET Workers, MayTruncate(S)
  PROVE  out' \in [OutPaths -> 0 .. NJobs]
BY CountsAssumption DEF TypeOK, MayTruncate, Nobody

LEMMA TypeStep == IndInv /\ [Next]_vars => TypeOK'
<1> SUFFICES ASSUME IndInv, [Next]_vars PROVE TypeOK'
  OBVIOUS
<1>0. TypeOK /\ WorkerInv /\ ChunkInv
  BY DEF IndInv
<1> USE NChunksType, CountsAssumption
    DEF TypeOK, vars, mainVars, queueVars, workerVars, cacheVars
<1>1. CASE Check
  BY <1>0, <1>1, VerdictAssumption DEF Check, MainStates, Jobs
<1>2. CASE Start
  BY <1>0, <1>2 DEF Start, MainStates
<1>3. CASE Collect
  BY <1>0, <1>3 DEF Collect, Terminate, MainStates, PcStates
<1>4. CASE Interrupt
  BY <1>0, <1>4, TruncateType DEF Interrupt, Terminate, MainStates, PcStates
<1>5. CASE Cleanup
  BY <1>0, <1>5 DEF Cleanup
<1>6. ASSUME NEW w \in Workers, Take(w) PROVE TypeOK'
  BY <1>0, <1>6 DEF Take, Chunks, ChunkJobs, PcStates, Busy
<1>7. ASSUME NEW w \in Workers, NextJob(w) PROVE TypeOK'
  BY <1>0, <1>7 DEF NextJob, PcStates, Busy, Jobs
<1>8. ASSUME NEW w \in Workers, ReportOk(w) PROVE TypeOK'
  BY <1>0, <1>8 DEF ReportOk, PcStates, Chunks
<1>9. ASSUME NEW w \in Workers, JobDone(w) PROVE TypeOK'
  BY <1>0, <1>9 DEF JobDone, PcStates, Busy, WorkerInv, Running
<1>10. ASSUME NEW w \in Workers, UseTool(w) PROVE TypeOK'
  BY <1>0, <1>10 DEF UseTool
<1>11. ASSUME NEW w \in Workers, WriteOut(w) PROVE TypeOK'
  <2>1. job[w] \in 0 .. NJobs /\ step[w] + 1 \in Nat
    BY <1>0
  <2>2. out' \in [OutPaths -> 0 .. NJobs]
    BY <1>0, <1>11, <2>1 DEF WriteOut
  <2>3. step' \in [Workers -> Nat]
    BY <1>0, <1>11, <2>1 DEF WriteOut
  <2> QED
    BY <1>0, <1>11, <2>2, <2>3 DEF WriteOut
<1>12. ASSUME NEW w \in Workers, StepFails(w) PROVE TypeOK'
  BY <1>0, <1>12, TruncateType DEF StepFails, Raise, PcStates
<1>13. ASSUME NEW w \in Workers, Acquire(w) PROVE TypeOK'
  BY <1>0, <1>13 DEF Acquire, PcStates, Busy, Locked
<1>14. ASSUME NEW w \in Workers, Hit(w) PROVE TypeOK'
  <2>1. Now(w) \in Fetches /\ KeyOf(Now(w)) \in Keys
    BY <1>0, <1>14, KeysAndPaths DEF Hit, WorkerInv, Locked
  <2> QED
    BY <1>0, <1>14, <2>1 DEF Hit, PcStates, Busy
<1>15. ASSUME NEW w \in Workers, Miss(w) PROVE TypeOK'
  BY <1>0, <1>15 DEF Miss, PcStates, Busy, Locked
<1>16. ASSUME NEW w \in Workers, Export(w) PROVE TypeOK'
  BY <1>0, <1>16 DEF Export, PcStates, Busy, Locked
<1>17. ASSUME NEW w \in Workers, Store(w) PROVE TypeOK'
  <2>1. Now(w) \in Fetches /\ KeyOf(Now(w)) \in Keys
    BY <1>0, <1>17, KeysAndPaths DEF Store, WorkerInv, Locked
  <2> QED
    BY <1>0, <1>17, <2>1 DEF Store, PcStates, Busy, Locked
<1>18. ASSUME NEW w \in Workers, ExportFails(w) PROVE TypeOK'
  BY <1>0, <1>18 DEF ExportFails, Raise, PcStates
<1>19. ASSUME NEW w \in Workers, WorkerDies(w) PROVE TypeOK'
  BY <1>0, <1>19, TruncateType DEF WorkerDies, PcStates
<1>20. CASE UNCHANGED vars
  BY <1>0, <1>20
<1> QED
  BY <1>1, <1>2, <1>3, <1>4, <1>5, <1>6, <1>7, <1>8, <1>9, <1>10, <1>11,
     <1>12, <1>13, <1>14, <1>15, <1>16, <1>17, <1>18, <1>19, <1>20
  DEF Next, Main, Worker, Proceed, Ended

-----------------------------------------------------------------------------
(* The main process.                                                       *)

\* Whatever a worker does, it does while map() waits.
LEMMA WorkersOnlyInMap ==
  ASSUME MainInv, NEW w \in Workers, Worker(w) \/ WorkerDies(w)
  PROVE  main = "mapping" /\ UNCHANGED mainVars
<1>1. CASE Take(w)
  BY <1>1 DEF Take
<1>2. CASE NextJob(w) \/ ReportOk(w) \/ JobDone(w)
  BY <1>2 DEF NextJob, ReportOk, JobDone, MainInv
<1>3. CASE UseTool(w) \/ WriteOut(w) \/ StepFails(w)
  BY <1>3 DEF UseTool, WriteOut, StepFails, AtStep, MainInv
<1>4. CASE Acquire(w) \/ Hit(w) \/ Miss(w) \/ Export(w) \/ Store(w)
  BY <1>4 DEF Acquire, Hit, Miss, Export, Store, AtStep, MainInv
<1>5. CASE ExportFails(w) \/ WorkerDies(w)
  BY <1>5 DEF ExportFails, WorkerDies, Busy, Locked, MainInv
<1> QED
  BY <1>1, <1>2, <1>3, <1>4, <1>5 DEF Worker, Proceed

LEMMA MainStep == IndInv /\ [Next]_vars => MainInv'
<1> SUFFICES ASSUME IndInv, [Next]_vars PROVE MainInv'
  OBVIOUS
<1>0. TypeOK /\ MainInv
  BY DEF IndInv
<1> USE CountsAssumption DEF mainVars, queueVars, workerVars, cacheVars
<1>1. CASE Check
  BY <1>0, <1>1 DEF Check, MainInv, NothingBeforePreflight, TypeOK, Final,
    MainStates
<1>2. CASE Start
  BY <1>0, <1>2 DEF Start, MainInv, NothingBeforePreflight, Final, MainStates
<1>3. CASE Collect
  BY <1>0, <1>3 DEF Collect, Terminate, MainInv, NothingBeforePreflight, Final,
    MainStates
<1>4. CASE Interrupt
  BY <1>0, <1>4 DEF Interrupt, Terminate, MainInv, NothingBeforePreflight,
    Final, MainStates
<1>5. CASE Cleanup
  BY <1>0, <1>5 DEF Cleanup, MainInv, NothingBeforePreflight, Final, MainStates
<1>6. ASSUME NEW w \in Workers, Worker(w) \/ WorkerDies(w) PROVE MainInv'
  <2>1. /\ main' = "mapping" /\ checked' = NJobs /\ poolDir'
        /\ NJobs >= 1 /\ Parallel >= 1
    BY <1>0, <1>6, WorkersOnlyInMap DEF MainInv
  <2> QED
    BY <2>1 DEF MainInv, NothingBeforePreflight
<1>7. CASE UNCHANGED vars
  BY <1>0, <1>7 DEF vars, MainInv, NothingBeforePreflight
<1> QED
  BY <1>1, <1>2, <1>3, <1>4, <1>5, <1>6, <1>7 DEF Next, Main, Ended

-----------------------------------------------------------------------------
(* The workers and the lock.                                               *)

LEMMA WorkerStep == IndInv /\ [Next]_vars => WorkerInv'
<1> SUFFICES ASSUME IndInv, [Next]_vars PROVE WorkerInv'
  OBVIOUS
<1>0. TypeOK /\ MainInv /\ WorkerInv
  BY DEF IndInv
<1>p. \A w \in Workers : w # Free /\ w # Orphaned
  BY CountsAssumption DEF Workers, Free, Orphaned
<1> USE DEF TypeOK, mainVars, queueVars, workerVars, cacheVars, WorkerInv,
        Running, Locked, Now
<1>1. CASE Check \/ Start \/ Cleanup \/ UNCHANGED vars
  BY <1>0, <1>1 DEF Check, Start, Cleanup, vars
<1>2. CASE Collect \/ Interrupt
  BY <1>0, <1>2, <1>p DEF Collect, Interrupt, Terminate
<1>3. ASSUME NEW w \in Workers, Take(w) PROVE WorkerInv'
  BY <1>0, <1>3 DEF Take
<1>4. ASSUME NEW w \in Workers, NextJob(w) PROVE WorkerInv'
  BY <1>0, <1>4 DEF NextJob
<1>5. ASSUME NEW w \in Workers, ReportOk(w) \/ JobDone(w) PROVE WorkerInv'
  BY <1>0, <1>5 DEF ReportOk, JobDone
<1>6. ASSUME NEW w \in Workers, UseTool(w) \/ WriteOut(w) PROVE WorkerInv'
  BY <1>0, <1>6 DEF UseTool, WriteOut, AtStep
<1>7. ASSUME NEW w \in Workers, StepFails(w) PROVE WorkerInv'
  BY <1>0, <1>7 DEF StepFails, Raise, AtStep
<1>8. ASSUME NEW w \in Workers, Acquire(w) PROVE WorkerInv'
  <2>1. Now(w) \in Fetches
    BY <1>0, <1>8, AtStepNames DEF Acquire, AtStep, Fetches
  <2> QED
    BY <1>0, <1>8, <1>p, <2>1 DEF Acquire, AtStep
<1>9. ASSUME NEW w \in Workers, Hit(w) PROVE WorkerInv'
  BY <1>0, <1>9, <1>p DEF Hit
<1>10. ASSUME NEW w \in Workers, Miss(w) \/ Export(w) \/ Store(w)
       PROVE  WorkerInv'
  BY <1>0, <1>10 DEF Miss, Export, Store
<1>11. ASSUME NEW w \in Workers, ExportFails(w) PROVE WorkerInv'
  BY <1>0, <1>11, <1>p DEF ExportFails, Raise
<1>12. ASSUME NEW w \in Workers, WorkerDies(w) PROVE WorkerInv'
  BY <1>0, <1>12, <1>p DEF WorkerDies, Busy
<1> QED
  BY <1>1, <1>2, <1>3, <1>4, <1>5, <1>6, <1>7, <1>8, <1>9, <1>10, <1>11, <1>12
  DEF Next, Main, Worker, Proceed, Ended

-----------------------------------------------------------------------------
(* The certificate cache.                                                  *)

\* The worker in the cache is alone there.
LEMMA AloneInCache ==
  ASSUME WorkerInv, NEW w \in Workers, pc[w] \in Locked
  PROVE  /\ \A v \in Workers : pc[v] \in Locked => v = w
         /\ lock # Free /\ lock # Orphaned
         /\ Now(w) \in Fetches /\ KeyOf(Now(w)) \in Keys
BY KeysAndPaths, CountsAssumption DEF WorkerInv, Workers, Free, Orphaned

\* Steps outside the cache: nobody enters or leaves it, no file changes.
LEMMA CacheUntouched ==
  ASSUME CacheInv, UNCHANGED cacheVars,
         \A w \in Workers : \/ UNCHANGED <<pc[w], job[w], step[w]>>
                            \/ /\ pc[w] \notin {"export", "store"}
                               /\ pc[w]' \notin {"export", "store"}
  PROVE  CacheInv'
BY DEF CacheInv, cacheVars, OneExportPerObject, Now

LEMMA CacheStep == IndInv /\ [Next]_vars => CacheInv'
<1> SUFFICES ASSUME IndInv, [Next]_vars PROVE CacheInv'
  OBVIOUS
<1>0. TypeOK /\ MainInv /\ WorkerInv /\ CacheInv
  BY DEF IndInv
<1> USE DEF mainVars, queueVars, workerVars
<1>1. CASE Check \/ Start \/ Cleanup \/ UNCHANGED vars
  BY <1>0, <1>1, CacheUntouched DEF Check, Start, Cleanup, vars
<1>2. CASE Collect \/ Interrupt
  <2>1. /\ UNCHANGED <<cache, files, got>>
        /\ \A w \in Workers : pc'[w] = "gone"
        /\ lock' = IF lock = Free THEN Free ELSE Orphaned
    BY <1>0, <1>2 DEF Collect, Interrupt, Terminate, TypeOK
  <2>2. ASSUME NEW w \in Workers, pc[w] = "store" PROVE lock' = Orphaned
    BY <1>0, <2>1, <2>2, AloneInCache DEF Locked
  <2>3. lock = Orphaned => lock' = Orphaned
    BY <2>1 DEF Free, Orphaned
  <2> QED
    BY <1>0, <2>1, <2>2, <2>3 DEF CacheInv, OneExportPerObject
<1>3. ASSUME NEW w \in Workers,
             \/ Take(w) \/ NextJob(w) \/ ReportOk(w) \/ JobDone(w)
      PROVE  CacheInv'
  BY <1>0, <1>3, CacheUntouched DEF Take, NextJob, ReportOk, JobDone, TypeOK
<1>4. ASSUME NEW w \in Workers, UseTool(w) \/ WriteOut(w) \/ StepFails(w)
      PROVE  CacheInv'
  BY <1>0, <1>4, CacheUntouched
  DEF UseTool, WriteOut, StepFails, Raise, AtStep, TypeOK
<1>5. ASSUME NEW w \in Workers, Acquire(w) PROVE CacheInv'
  <2>1. lock # Orphaned /\ UNCHANGED <<cache, files, got, job, step>>
    BY <1>5 DEF Acquire, Free, Orphaned
  <2>2. /\ pc[w] = "step" /\ pc'[w] = "lookup"
        /\ \A v \in Workers : v # w => pc'[v] = pc[v]
    BY <1>0, <1>5 DEF Acquire, AtStep, TypeOK
  <2> QED
    BY <1>0, <2>1, <2>2 DEF CacheInv, OneExportPerObject, Now
<1>6. ASSUME NEW w \in Workers, Hit(w) PROVE CacheInv'
  <2>1. pc[w] \in Locked
    BY <1>6 DEF Hit, Locked
  <2>2. /\ lock # Orphaned /\ Now(w) \in Fetches /\ KeyOf(Now(w)) \in Keys
        /\ \A v \in Workers : pc[v] \notin {"export", "store"}
    BY <1>0, <1>6, <2>1, AloneInCache DEF Hit, Locked
  <2>3. \A v \in Workers : pc'[v] \notin {"export", "store"}
    BY <1>0, <1>6, <2>2 DEF Hit, TypeOK
  <2>4. /\ UNCHANGED <<cache, files>>
        /\ cache[KeyOf(Now(w))] # NoFile
        /\ got' = [got EXCEPT ![Now(w)] = cache[KeyOf(Now(w))]]
    BY <1>6 DEF Hit
  <2>5. \A f \in Fetches : got'[f] # NoFile =>
          files'[got'[f]] = "exported" /\ KeyOf(got'[f]) = KeyOf(f)
    BY <1>0, <2>2, <2>4 DEF CacheInv, TypeOK
  <2> QED
    BY <1>0, <2>2, <2>3, <2>4, <2>5 DEF CacheInv, OneExportPerObject
<1>7. ASSUME NEW w \in Workers, Miss(w) PROVE CacheInv'
  <2>1. pc[w] \in Locked
    BY <1>7 DEF Miss, Locked
  <2>2. /\ lock # Orphaned /\ Now(w) \in Fetches /\ KeyOf(Now(w)) \in Keys
        /\ \A v \in Workers : pc[v] \notin {"export", "store"}
    BY <1>0, <1>7, <2>1, AloneInCache DEF Miss, Locked
  <2>3. /\ UNCHANGED <<cache, got, job, step>>
        /\ cache[KeyOf(Now(w))] = NoFile
        /\ files' = [files EXCEPT ![Now(w)] = "empty"]
        /\ pc' = [pc EXCEPT ![w] = "export"]
    BY <1>7 DEF Miss
  <2>4. files[Now(w)] # "exported"
    BY <1>0, <2>2, <2>3, NoFileIsNone DEF CacheInv
  <2>5. \A f \in Fetches : files'[f] = "exported" <=> files[f] = "exported"
    BY <1>0, <2>2, <2>3, <2>4 DEF TypeOK
  <2>6. \A v \in Workers : /\ pc'[v] # "store"
                           /\ pc'[v] = "export" => v = w
    BY <1>0, <2>2, <2>3 DEF TypeOK
  <2>7. \A f \in Fetches : files'[f] = "exported" => cache'[KeyOf(f)] = f
    BY <1>0, <2>2, <2>3, <2>5 DEF CacheInv
  <2>8. \A v \in Workers : pc'[v] \in {"export", "store"} =>
          cache'[KeyOf(Now(v)')] = NoFile
    BY <2>3, <2>6 DEF Now
  <2>9. \A k \in Keys : cache'[k] # NoFile =>
          files'[cache'[k]] = "exported" /\ KeyOf(cache'[k]) = k
    BY <1>0, <2>3, <2>5 DEF CacheInv, TypeOK
  <2>10. \A f \in Fetches : got'[f] # NoFile =>
           files'[got'[f]] = "exported" /\ KeyOf(got'[f]) = KeyOf(f)
    BY <1>0, <2>3, <2>5 DEF CacheInv, TypeOK
  <2> QED
    BY <1>0, <2>5, <2>6, <2>7, <2>8, <2>9, <2>10
    DEF CacheInv, OneExportPerObject
<1>8. ASSUME NEW w \in Workers, Export(w) PROVE CacheInv'
  <2>1. pc[w] \in Locked
    BY <1>8 DEF Export, Locked
  <2>2. /\ lock # Orphaned /\ Now(w) \in Fetches /\ KeyOf(Now(w)) \in Keys
        /\ \A v \in Workers : v # w => pc[v] \notin {"export", "store"}
    BY <1>0, <1>8, <2>1, AloneInCache DEF Export, Locked
  <2>3. /\ UNCHANGED <<lock, cache, got, job, step>>
        /\ cache[KeyOf(Now(w))] = NoFile
        /\ files' = [files EXCEPT ![Now(w)] = "exported"]
        /\ pc[w] = "export" /\ pc' = [pc EXCEPT ![w] = "store"]
    BY <1>0, <1>8 DEF Export, CacheInv
  <2>4. \A f \in Fetches : files[f] = "exported" => KeyOf(f) # KeyOf(Now(w))
    BY <1>0, <2>2, <2>3, NoFileIsNone DEF CacheInv
  <2>5. \A f \in Fetches : files'[f] = "exported" <=>
                             files[f] = "exported" \/ f = Now(w)
    BY <1>0, <2>2, <2>3 DEF TypeOK
  <2>6. /\ pc'[w] = "store" /\ Now(w)' = Now(w)
        /\ \A v \in Workers : v # w => pc'[v] \notin {"export", "store"}
    BY <1>0, <2>2, <2>3 DEF TypeOK, Now
  <2> QED
    BY <1>0, <2>2, <2>3, <2>4, <2>5, <2>6
    DEF CacheInv, OneExportPerObject, TypeOK
<1>9. ASSUME NEW w \in Workers, Store(w) PROVE CacheInv'
  <2>1. pc[w] \in Locked
    BY <1>9 DEF Store, Locked
  <2>2. /\ lock # Orphaned /\ Now(w) \in Fetches /\ KeyOf(Now(w)) \in Keys
        /\ \A v \in Workers : v # w => pc[v] \notin {"export", "store"}
    BY <1>0, <1>9, <2>1, AloneInCache DEF Store, Locked
  <2>3. /\ UNCHANGED <<lock, files, got, job, step>>
        /\ cache[KeyOf(Now(w))] = NoFile /\ files[Now(w)] = "exported"
        /\ cache' = [cache EXCEPT ![KeyOf(Now(w))] = Now(w)]
        /\ pc[w] = "store" /\ pc' = [pc EXCEPT ![w] = "lookup"]
    BY <1>0, <1>9 DEF Store, CacheInv
  <2>4. \A v \in Workers : pc'[v] \notin {"export", "store"}
    BY <1>0, <2>2, <2>3 DEF TypeOK
  <2>5. \A k \in Keys : cache'[k] # NoFile =>
          files'[cache'[k]] = "exported" /\ KeyOf(cache'[k]) = k
    BY <1>0, <2>2, <2>3 DEF CacheInv, TypeOK
  <2>6. \A f \in Fetches : files'[f] = "exported" => cache'[KeyOf(f)] = f
    BY <1>0, <2>2, <2>3, NoFileIsNone, KeysAndPaths DEF CacheInv, TypeOK
  <2> QED
    BY <1>0, <2>3, <2>4, <2>5, <2>6 DEF CacheInv, OneExportPerObject
<1>10. ASSUME NEW w \in Workers, ExportFails(w) PROVE CacheInv'
  <2>1. pc[w] \in Locked /\ pc[w] # "store"
    BY <1>10 DEF ExportFails, Locked
  <2>2. /\ lock # Orphaned
        /\ \A v \in Workers : pc[v] # "store" /\ (pc[v] = "export" => v = w)
    BY <1>0, <1>10, <2>1, AloneInCache DEF Locked
  <2>3. /\ UNCHANGED <<cache, files, got>>
        /\ \A v \in Workers : pc'[v] \notin {"export", "store"}
    BY <1>0, <1>10, <2>2 DEF ExportFails, Raise, TypeOK
  <2> QED
    BY <1>0, <2>2, <2>3 DEF CacheInv, OneExportPerObject
<1>11. ASSUME NEW w \in Workers, WorkerDies(w) PROVE CacheInv'
  <2>1. /\ UNCHANGED <<cache, files, got, job, step>>
        /\ pc' = [pc EXCEPT ![w] = "idle"]
        /\ lock' = IF lock = w THEN Orphaned ELSE lock
    BY <1>11 DEF WorkerDies
  <2>2. pc[w] = "store" => lock = w
    BY <1>0 DEF WorkerInv, Locked
  <2>3. lock = Orphaned => lock' = Orphaned
    BY <2>1
  <2> QED
    BY <1>0, <2>1, <2>2, <2>3 DEF CacheInv, OneExportPerObject, Now, TypeOK
<1> QED
  BY <1>1, <1>2, <1>3, <1>4, <1>5, <1>6, <1>7, <1>8, <1>9, <1>10, <1>11
  DEF Next, Main, Worker, Proceed, Ended

-----------------------------------------------------------------------------
(* What a job has fetched.                                                 *)

LEMMA GotStep == IndInv /\ [Next]_vars => GotInv'
<1> SUFFICES ASSUME IndInv, [Next]_vars PROVE GotInv'
  OBVIOUS
<1>0. TypeOK /\ MainInv /\ WorkerInv /\ GotInv
  BY DEF IndInv
<1> USE DEF TypeOK, GotInv, Running, Locked, mainVars, queueVars, workerVars,
        cacheVars
<1>t. \A w \in Workers : step[w] \in Nat
  BY <1>0
<1>f. \A f \in Fetches : f = <<f[1], f[2]>> /\ f[2] \in Nat /\ f[2] >= 1
  BY StepNames, ProgLen DEF Fetches
<1>1. CASE Check \/ Start \/ Cleanup \/ UNCHANGED vars
  BY <1>0, <1>1 DEF Check, Start, Cleanup, vars
<1>2. CASE Collect \/ Interrupt
  BY <1>0, <1>2 DEF Collect, Interrupt, Terminate
<1>3. ASSUME NEW w \in Workers, Take(w) \/ ReportOk(w) \/ JobDone(w)
      PROVE  GotInv'
  <2>1. /\ UNCHANGED <<job, step, got>>
        /\ \A v \in Workers : pc'[v] \in Running => pc[v] \in Running
    BY <1>0, <1>3 DEF Take, ReportOk, JobDone
  <2> QED
    BY <1>0, <2>1
<1>4. ASSUME NEW w \in Workers, NextJob(w) PROVE GotInv'
  BY <1>0, <1>4, <1>f DEF NextJob
<1>5. ASSUME NEW w \in Workers, UseTool(w) \/ WriteOut(w) PROVE GotInv'
  <2>1. PICK op \in {"tool", "write"} : AtStep(w, op)
    BY <1>5 DEF UseTool, WriteOut
  <2>2. \A f \in Fetches : f[1] = job[w] => f[2] # step[w]
    BY <2>1, StepNames DEF AtStep, Fetches
  <2>3. /\ UNCHANGED <<pc, job, got>> /\ pc[w] \in Running
        /\ step' = [step EXCEPT ![w] = @ + 1]
    BY <1>5, <2>1 DEF UseTool, WriteOut, AtStep
  <2>4. \A f \in Fetches : f[1] = job[w] /\ f[2] < step[w] + 1 =>
          f[2] < step[w]
    BY <1>t, <1>f, <2>2
  <2>5. /\ step'[w] = step[w] + 1
        /\ \A v \in Workers : v # w => step'[v] = step[v]
    BY <1>0, <2>3
  <2> QED
    BY <1>0, <2>3, <2>4, <2>5
<1>6. ASSUME NEW w \in Workers,
             StepFails(w) \/ ExportFails(w) \/ WorkerDies(w)
      PROVE  GotInv'
  BY <1>0, <1>6 DEF StepFails, ExportFails, Raise, WorkerDies
<1>7. ASSUME NEW w \in Workers,
             Acquire(w) \/ Miss(w) \/ Export(w) \/ Store(w)
      PROVE  GotInv'
  BY <1>0, <1>7 DEF Acquire, AtStep, Miss, Export, Store
<1>8. ASSUME NEW w \in Workers, Hit(w) PROVE GotInv'
  <2>1. /\ Now(w) \in Fetches /\ cache[KeyOf(Now(w))] # NoFile
        /\ pc[w] = "lookup"
    BY <1>0, <1>8 DEF Hit, WorkerInv
  <2>2. /\ got' = [got EXCEPT ![Now(w)] = cache[KeyOf(Now(w))]]
        /\ step' = [step EXCEPT ![w] = @ + 1] /\ UNCHANGED job
        /\ pc' = [pc EXCEPT ![w] = "step"]
    BY <1>8 DEF Hit
  <2>3. \A f \in Fetches : got[f] # NoFile => got'[f] # NoFile
    BY <1>0, <2>1, <2>2
  <2>4. got'[Now(w)] # NoFile
    BY <1>0, <2>1, <2>2
  <2>5. \A f \in Fetches : f[1] = job[w] /\ f[2] < step[w] + 1 =>
          f = Now(w) \/ f[2] < step[w]
    BY <1>t, <1>f DEF Now
  <2> QED
    BY <1>0, <2>1, <2>2, <2>3, <2>4, <2>5
<1> QED
  BY <1>1, <1>2, <1>3, <1>4, <1>5, <1>6, <1>7, <1>8
  DEF Next, Main, Worker, Proceed, Ended

-----------------------------------------------------------------------------
(* Chunks and signed jobs.                                                 *)

LEMMA ChunkStep == IndInv /\ [Next]_vars => ChunkInv'
<1> SUFFICES ASSUME IndInv, [Next]_vars PROVE ChunkInv'
  OBVIOUS
<1>0. TypeOK /\ MainInv /\ WorkerInv /\ ChunkInv
  BY DEF IndInv
<1> USE NChunksType
    DEF TypeOK, ChunkInv, Busy, Running, Locked, SuccessMeansAllSigned,
        mainVars, queueVars, workerVars, cacheVars
<1>1. CASE Check \/ Cleanup \/ UNCHANGED vars
  BY <1>0, <1>1 DEF Check, Cleanup, vars
<1>2. CASE Start
  <2>1. NJobs = 0 => signed = Jobs
    BY <1>0 DEF Jobs
  <2> QED
    BY <1>0, <1>2, <2>1, CountsAssumption DEF Start
<1>3. CASE Collect
  <2>1. ASSUME \A c \in Chunks : reported[c] = "ok" PROVE signed = Jobs
    <3>1. \A j \in Jobs : ChunkOf(j) \in Chunks
      BY <1>0, <1>3, ChunkRange DEF Collect, MainInv
    <3>2. \A j \in Jobs : j \in ChunkJobs(ChunkOf(j))
      BY DEF ChunkJobs
    <3>3. \A c \in Chunks : ChunkJobs(c) \subseteq signed
      BY <1>0, <2>1
    <3>4. Jobs \subseteq signed
      BY <3>1, <3>2, <3>3
    <3> QED
      BY <1>0, <3>4
  <2> QED
    BY <1>0, <1>3, <2>1 DEF Collect, Terminate
<1>4. CASE Interrupt
  BY <1>0, <1>4 DEF Interrupt, Terminate
<1>5. ASSUME NEW w \in Workers, Take(w) PROVE ChunkInv'
  <2>1. /\ todo \in Chunks /\ todo' = todo + 1 /\ main' = "mapping"
        /\ chunk' = [chunk EXCEPT ![w] = todo]
        /\ left' = [left EXCEPT ![w] = ChunkJobs(todo)]
        /\ pc' = [pc EXCEPT ![w] = "next"] /\ pc[w] = "idle"
        /\ UNCHANGED <<reported, job, signed>>
    BY <1>5 DEF Take
  <2>2. todo \in Nat /\ \A v \in Workers : chunk[v] \in Nat
    BY <1>0, <2>1 DEF Chunks
  <2>3. reported[todo] = "none" /\ ChunkJobs(todo) \cap signed = {}
    BY <1>0, <2>1, <2>2 DEF ChunkJobs
  <2>4. \A v \in Workers : v # w =>
          /\ pc'[v] = pc[v] /\ chunk'[v] = chunk[v] /\ left'[v] = left[v]
          /\ pc[v] \in Busy => chunk[v] < todo /\ chunk[v] < todo'
    BY <1>0, <2>1, <2>2
  <2>5. pc'[w] = "next" /\ chunk'[w] = todo /\ left'[w] = ChunkJobs(todo)
    BY <1>0, <2>1
  <2>6. \A j \in Jobs : ChunkOf(j) < todo => ChunkOf(j) < todo'
    <3>1. NJobs >= 1 /\ Parallel >= 1
      BY <1>0, <1>5 DEF Take, MainInv
    <3>2. \A j \in Jobs : ChunkOf(j) \in Nat
      BY <3>1, ChunkRange DEF Chunks
    <3> QED
      BY <2>1, <2>2, <3>2
  <2>7. \A c \in Chunks : c < todo => c < todo'
    BY <2>1, <2>2 DEF Chunks
  <2> QED
    BY <1>0, <2>1, <2>2, <2>3, <2>4, <2>5, <2>6, <2>7
<1>6. ASSUME NEW w \in Workers, NextJob(w) PROVE ChunkInv'
  <2>1. PICK j \in left[w] :
          /\ job' = [job EXCEPT ![w] = j]
          /\ left' = [left EXCEPT ![w] = @ \ {j}]
    BY <1>6 DEF NextJob
  <2>2. /\ pc[w] = "next" /\ pc' = [pc EXCEPT ![w] = "step"]
        /\ UNCHANGED <<main, reported, chunk, todo, signed>>
    BY <1>6 DEF NextJob
  <2>3. j \in ChunkJobs(chunk[w]) /\ j \notin signed
    BY <1>0, <2>2
  <2>4. \A v \in Workers : v # w =>
          pc'[v] = pc[v] /\ job'[v] = job[v] /\ left'[v] = left[v]
    BY <1>0, <2>1, <2>2
  <2>5. pc'[w] = "step" /\ job'[w] = j /\ left'[w] = left[w] \ {j}
    BY <1>0, <2>1, <2>2
  <2> QED
    BY <1>0, <2>2, <2>3, <2>4, <2>5
<1>7. ASSUME NEW w \in Workers, ReportOk(w) PROVE ChunkInv'
  <2>1. /\ pc[w] = "next" /\ left[w] = {}
        /\ reported' = [reported EXCEPT ![chunk[w]] = "ok"]
        /\ pc' = [pc EXCEPT ![w] = "idle"]
        /\ UNCHANGED <<main, chunk, todo, signed, left, job>>
    BY <1>7 DEF ReportOk
  <2>2. ChunkJobs(chunk[w]) \subseteq signed
    BY <1>0, <2>1
  <2> QED
    BY <1>0, <2>1, <2>2
<1>8. ASSUME NEW w \in Workers, JobDone(w) PROVE ChunkInv'
  <2>1. /\ pc[w] = "step" /\ signed' = signed \cup {job[w]}
        /\ pc' = [pc EXCEPT ![w] = "next"]
        /\ UNCHANGED <<main, reported, chunk, todo, left, job>>
    BY <1>8 DEF JobDone
  <2>2. /\ job[w] \in ChunkJobs(chunk[w]) /\ ChunkOf(job[w]) = chunk[w]
        /\ chunk[w] < todo
    BY <1>0, <2>1 DEF ChunkJobs
  <2>3. ASSUME NEW v \in Workers, v # w, pc[v] \in Busy
        PROVE  job[w] \notin ChunkJobs(chunk[v])
    BY <1>0, <2>1, <2>2, <2>3 DEF ChunkJobs
  <2>4. main' = "mapping"
    BY <1>0, <1>8, WorkersOnlyInMap DEF Worker, Proceed, mainVars
  <2> QED
    BY <1>0, <2>1, <2>2, <2>3, <2>4
<1>9. ASSUME NEW w \in Workers,
             StepFails(w) \/ ExportFails(w) PROVE ChunkInv'
  <2>1. /\ reported' = [reported EXCEPT ![chunk[w]] = "error"]
        /\ pc' = [pc EXCEPT ![w] = "idle"] /\ left' = [left EXCEPT ![w] = {}]
        /\ UNCHANGED <<main, todo, chunk, job, signed>>
    BY <1>9 DEF StepFails, ExportFails, Raise
  <2>2. pc[w] \in Busy
    BY <1>9 DEF StepFails, ExportFails, AtStep
  <2> QED
    BY <1>0, <2>1, <2>2
<1>10. ASSUME NEW w \in Workers, WorkerDies(w) PROVE ChunkInv'
  BY <1>0, <1>10 DEF WorkerDies
<1>11. ASSUME NEW w \in Workers,
              \/ UseTool(w) \/ WriteOut(w) \/ Acquire(w) \/ Hit(w)
              \/ Miss(w) \/ Export(w) \/ Store(w)
       PROVE  ChunkInv'
  <2>1. /\ UNCHANGED <<main, reported, chunk, todo, left, job, signed>>
        /\ \A v \in Workers : /\ pc'[v] \in Busy <=> pc[v] \in Busy
                              /\ pc'[v] \in Running <=> pc[v] \in Running
    BY <1>0, <1>11
    DEF UseTool, WriteOut, Acquire, Hit, Miss, Export, Store, AtStep
  <2> QED
    BY <1>0, <2>1
<1> QED
  BY <1>1, <1>2, <1>3, <1>4, <1>5, <1>6, <1>7, <1>8, <1>9, <1>10, <1>11
  DEF Next, Main, Worker, Proceed, Ended

-----------------------------------------------------------------------------
(* Output files.                                                           *)

\* Truncation reaches only the path that a worker of S is writing.
LEMMA TruncateFrame ==
  ASSUME TypeOK, WorkerInv, DistinctOutputs,
         NEW S \in SUBSET Workers, MayTruncate(S),
         NEW f \in Writes,
         \A w \in S : AtStep(w, "write") => f # Now(w)
  PROVE  out'[PathOf(f)] = out[PathOf(f)]
<1>1. \A w \in S : AtStep(w, "write") => Now(w) \in Writes
  BY AtStepNames DEF AtStep, WorkerInv, Running, Writes
<1>2. \A w \in S : AtStep(w, "write") => PathOf(f) # PathOf(Now(w))
  BY <1>1 DEF DistinctOutputs
<1> QED
  BY <1>2, KeysAndPaths DEF MayTruncate

\* The write step a running job stands at is not one of a signed job, nor one
\* that a running job has behind it.
LEMMA CurrentWrite ==
  ASSUME TypeOK, WorkerInv, ChunkInv, NEW w \in Workers, pc[w] \in Running,
         NEW f \in Writes, f[1] \in signed \/
           \E v \in Workers : /\ pc[v] \in Running
                              /\ f[1] = job[v] /\ f[2] < step[v]
  PROVE  f # Now(w)
<1>1. CASE f[1] \in signed
  BY <1>1 DEF ChunkInv, Now
<1>2. ASSUME NEW v \in Workers, pc[v] \in Running, f[1] = job[v],
             f[2] < step[v], f = Now(w)
      PROVE  FALSE
  <2>1. job[v] = job[w] /\ step[w] < step[v]
    BY <1>2 DEF Now
  <2>2. v # w
    BY <2>1 DEF TypeOK
  <2>3. chunk[v] = chunk[w]
    BY <1>2, <2>1 DEF ChunkInv, ChunkJobs
  <2> QED
    BY <1>2, <2>2, <2>3 DEF ChunkInv, Busy, Running
<1> QED
  BY <1>1, <1>2

LEMMA OutStep == IndInv /\ [Next]_vars => OutInv'
<1> SUFFICES ASSUME IndInv, [Next]_vars, DistinctOutputs PROVE OutInv'
  BY DEF OutInv, DistinctOutputs
<1>0. TypeOK /\ MainInv /\ WorkerInv /\ ChunkInv /\ OutInv
  BY DEF IndInv
<1>t. \A w \in Workers : step[w] \in Nat
  BY <1>0 DEF TypeOK
<1>f. \A f \in Writes : f = <<f[1], f[2]>> /\ f[2] \in Nat /\ f[2] >= 1
  BY StepNames, ProgLen DEF Writes
\* What is to be kept: the outputs of signed jobs and of the steps that a
\* running job has behind it.
<1> DEFINE Kept(f) == \/ f[1] \in signed
                      \/ \E v \in Workers :
                           /\ pc[v] \in Running
                           /\ f[1] = job[v] /\ f[2] < step[v]
<1>k. \A f \in Writes : Kept(f) => out[PathOf(f)] = f[1]
  BY <1>0 DEF OutInv
<1>s. SUFFICES \A f \in Writes : Kept(f)' => out'[PathOf(f)] = f[1]
  BY DEF OutInv
<1> USE DEF mainVars, queueVars, workerVars, cacheVars
<1>1. CASE Check \/ Start \/ Cleanup \/ UNCHANGED vars
  BY <1>1, <1>k DEF Check, Start, Cleanup, vars
<1>2. CASE Collect
  BY <1>2, <1>k DEF Collect, Terminate, Running, Locked
<1>3. CASE Interrupt
  <2>1. \A f \in Writes : Kept(f)' => f[1] \in signed
    BY <1>3 DEF Interrupt, Terminate, Running, Locked
  <2>2. \A f \in Writes, w \in Workers :
          f[1] \in signed /\ AtStep(w, "write") => f # Now(w)
    BY <1>0, CurrentWrite DEF AtStep, Running
  <2> QED
    BY <1>0, <1>3, <1>k, <2>1, <2>2, TruncateFrame DEF Interrupt
<1>4. ASSUME NEW w \in Workers, StepFails(w) \/ WorkerDies(w)
      PROVE  \A f \in Writes : Kept(f)' => out'[PathOf(f)] = f[1]
  <2>1. \A f \in Writes : Kept(f)' => Kept(f)
    BY <1>0, <1>4 DEF StepFails, Raise, WorkerDies, TypeOK, Running, Locked
  <2>2. \A f \in Writes : Kept(f) /\ AtStep(w, "write") => f # Now(w)
    BY <1>0, CurrentWrite DEF AtStep, Running
  <2>3. MayTruncate({w}) /\ {w} \in SUBSET Workers
    BY <1>4 DEF StepFails, WorkerDies
  <2> QED
    BY <1>0, <1>k, <2>1, <2>2, <2>3, TruncateFrame
<1>5. ASSUME NEW w \in Workers, WriteOut(w)
      PROVE  \A f \in Writes : Kept(f)' => out'[PathOf(f)] = f[1]
  <2>1. /\ AtStep(w, "write") /\ pc[w] \in Running /\ job[w] \in Jobs
        /\ out' = [out EXCEPT ![PathOf(Now(w))] = job[w]]
        /\ step' = [step EXCEPT ![w] = @ + 1]
        /\ UNCHANGED <<pc, job, signed>>
    BY <1>0, <1>5 DEF WriteOut, AtStep, WorkerInv, Running
  <2>2. Now(w) \in Writes
    BY <2>1, AtStepNames DEF Writes
  <2>3. \A f \in Writes : Kept(f)' => Kept(f) \/ f = Now(w)
    <3>1. step'[w] = step[w] + 1 /\ \A v \in Workers \ {w} : step'[v] = step[v]
      BY <1>0, <2>1 DEF TypeOK
    <3>2. \A f \in Writes : f[1] = job[w] /\ f[2] < step[w] + 1 =>
            f = Now(w) \/ f[2] < step[w]
      BY <1>t, <1>f DEF Now
    <3> QED
      BY <2>1, <3>1, <3>2
  <2>4. out'[PathOf(Now(w))] = Now(w)[1]
    BY <1>0, <2>1, <2>2, KeysAndPaths DEF TypeOK, Now
  <2>5. \A f \in Writes : f # Now(w) => out'[PathOf(f)] = out[PathOf(f)]
    BY <1>0, <2>1, <2>2, KeysAndPaths DEF DistinctOutputs, TypeOK
  <2> QED
    BY <1>k, <2>3, <2>4, <2>5
<1>6. ASSUME NEW w \in Workers, JobDone(w)
      PROVE  \A f \in Writes : Kept(f)' => out'[PathOf(f)] = f[1]
  <2>1. /\ pc[w] = "step" /\ job[w] \in Jobs /\ step[w] > Len(Prog[job[w]])
        /\ signed' = signed \cup {job[w]}
        /\ pc' = [pc EXCEPT ![w] = "next"] /\ UNCHANGED <<job, step, out>>
    BY <1>0, <1>6 DEF JobDone, WorkerInv, Running
  <2>2. \A f \in Writes : f[1] = job[w] => f[2] < step[w]
    BY <1>t, <1>f, <2>1, StepNames, ProgLen DEF Writes
  <2>3. \A f \in Writes : Kept(f)' => Kept(f)
    BY <1>0, <2>1, <2>2 DEF Running, Locked, TypeOK
  <2> QED
    BY <1>k, <2>1, <2>3
<1>7. ASSUME NEW w \in Workers, UseTool(w) \/ Hit(w)
      PROVE  \A f \in Writes : Kept(f)' => out'[PathOf(f)] = f[1]
  <2>1. PICK op \in {"tool", "fetch"} : Now(w) \in StepsWith(op)
    BY <1>0, <1>7, AtStepNames
    DEF UseTool, Hit, AtStep, WorkerInv, Running, Locked, Fetches
  <2>2. \A f \in Writes : f[1] = job[w] => f[2] # step[w]
    BY <2>1, <1>f, StepNames DEF Writes, Now
  <2>3. /\ step' = [step EXCEPT ![w] = @ + 1] /\ UNCHANGED <<job, signed, out>>
        /\ \A v \in Workers : pc'[v] \in Running => pc[v] \in Running
    BY <1>0, <1>7 DEF UseTool, Hit, TypeOK, Running, Locked
  <2>4. step'[w] = step[w] + 1 /\ \A v \in Workers \ {w} : step'[v] = step[v]
    BY <1>0, <2>3 DEF TypeOK
  <2>5. \A f \in Writes : f[1] = job[w] /\ f[2] < step[w] + 1 =>
          f[2] < step[w]
    BY <1>t, <1>f, <2>2
  <2>6. \A f \in Writes : Kept(f)' => Kept(f)
    BY <2>3, <2>4, <2>5
  <2> QED
    BY <1>k, <2>3, <2>6
<1>8. ASSUME NEW w \in Workers,
             \/ Take(w) \/ ReportOk(w) \/ Acquire(w) \/ Miss(w) \/ Export(w)
             \/ Store(w) \/ ExportFails(w)
      PROVE  \A f \in Writes : Kept(f)' => out'[PathOf(f)] = f[1]
  <2>1. /\ UNCHANGED <<job, step, signed, out>>
        /\ \A v \in Workers : pc'[v] \in Running => pc[v] \in Running
    BY <1>0, <1>8 DEF Take, ReportOk, Acquire, Miss, Export, Store,
      ExportFails, Raise, AtStep, TypeOK, Running, Locked
  <2> QED
    BY <1>k, <2>1
<1>9. ASSUME NEW w \in Workers, NextJob(w)
      PROVE  \A f \in Writes : Kept(f)' => out'[PathOf(f)] = f[1]
  <2>1. /\ step' = [step EXCEPT ![w] = 1] /\ UNCHANGED <<signed, out>>
        /\ pc' = [pc EXCEPT ![w] = "step"]
        /\ \A v \in Workers \ {w} : job'[v] = job[v]
    BY <1>0, <1>9 DEF NextJob, TypeOK
  <2>2. \A f \in Writes : Kept(f)' => Kept(f)
    BY <1>0, <1>f, <2>1 DEF TypeOK
  <2> QED
    BY <1>k, <2>1, <2>2
<1> QED
  BY <1>1, <1>2, <1>3, <1>4, <1>5, <1>6, <1>7, <1>8, <1>9
  DEF Next, Main, Worker, Proceed, Ended

-----------------------------------------------------------------------------
(* No chunk and no lock is abandoned unless a worker is killed.            *)

LEMMA AccountStep == IndInv /\ [Next]_vars => ChunksAccounted'
<1> SUFFICES ASSUME IndInv, [Next]_vars, main' = "mapping", deaths' = 0
             PROVE  /\ \A c \in 1 .. todo' - 1 : reported'[c] = "none" =>
                         \E w \in Workers : pc'[w] \in Busy /\ chunk'[w] = c
                    /\ lock' # Free => lock' \in Workers /\ pc'[lock'] \in Locked
  BY DEF ChunksAccounted
<1>0. TypeOK /\ MainInv /\ WorkerInv /\ ChunkInv /\ ChunksAccounted
  BY DEF IndInv
<1> USE NChunksType
    DEF TypeOK, ChunksAccounted, Busy, Locked, mainVars, queueVars, workerVars,
        cacheVars
<1>1. CASE Check \/ Cleanup \/ UNCHANGED vars
  BY <1>0, <1>1 DEF Check, Cleanup, vars
<1>2. CASE Start
  BY <1>0, <1>2 DEF Start, MainInv
<1>3. CASE Collect \/ Interrupt
  BY <1>3 DEF Collect, Interrupt
<1>4. ASSUME NEW w \in Workers, Worker(w)
      PROVE  \A c \in 1 .. todo' - 1 : reported'[c] = "none" =>
               \E v \in Workers : pc'[v] \in Busy /\ chunk'[v] = c
  <2>m. main = "mapping"
    BY <1>0, <1>4, WorkersOnlyInMap
  <2>1. CASE Take(w)
    <3>1. todo' - 1 = todo /\ todo \in Nat
      BY <1>0, <2>1 DEF Take, Chunks
    <3>2. \A c \in 1 .. todo : c = todo \/ c \in 1 .. todo - 1
      BY <3>1
    <3> QED
      BY <1>0, <2>1, <2>m, <3>1, <3>2 DEF Take
  <2>2. CASE \/ ReportOk(w) \/ StepFails(w) \/ ExportFails(w)
    <3>1. /\ reported'[chunk[w]] # "none" /\ UNCHANGED <<todo, chunk, deaths>>
          /\ \A v \in Workers \ {w} : pc'[v] = pc[v]
          /\ \A c \in Chunks \ {chunk[w]} : reported'[c] = reported[c]
      BY <1>0, <2>2 DEF ReportOk, StepFails, ExportFails, Raise, ChunkInv, AtStep
    <3>2. 1 .. todo - 1 \subseteq Chunks
      BY <1>0 DEF Chunks
    <3> QED
      BY <1>0, <2>m, <3>1, <3>2
  <2>3. CASE ~(Take(w) \/ ReportOk(w) \/ StepFails(w) \/ ExportFails(w))
    <3>1. /\ UNCHANGED <<todo, reported, chunk, deaths>>
          /\ \A v \in Workers : pc[v] \in Busy => pc'[v] \in Busy
      BY <1>0, <1>4, <2>3
      DEF Worker, Proceed, NextJob, JobDone, UseTool, WriteOut, Acquire, Hit, Miss,
          Export, Store
    <3> QED
      BY <1>0, <2>m, <3>1
  <2> QED
    BY <2>1, <2>2, <2>3
<1>5. ASSUME NEW w \in Workers, Worker(w), lock' # Free
      PROVE  lock' \in Workers /\ pc'[lock'] \in Locked
  <2>m. main = "mapping" /\ UNCHANGED deaths
    BY <1>0, <1>5, WorkersOnlyInMap
    DEF Worker, Proceed, Take, NextJob, ReportOk, JobDone, UseTool, WriteOut, StepFails,
        Acquire, Hit, Miss, Export, Store, ExportFails
  <2>1. CASE Acquire(w)
    BY <1>0, <2>1 DEF Acquire
  <2>2. CASE Hit(w) \/ ExportFails(w)
    BY <1>5, <2>2 DEF Hit, ExportFails
  <2>3. CASE Miss(w) \/ Export(w) \/ Store(w)
    BY <1>0, <1>5, <2>m, <2>3 DEF Miss, Export, Store
  <2>4. CASE \/ Take(w) \/ NextJob(w) \/ ReportOk(w) \/ JobDone(w)
             \/ UseTool(w) \/ WriteOut(w) \/ StepFails(w)
    <3>1. UNCHANGED lock /\ pc[w] \notin Locked
          /\ \A v \in Workers \ {w} : pc'[v] = pc[v]
      BY <1>0, <2>4 DEF Take, NextJob, ReportOk, JobDone, UseTool, WriteOut,
        StepFails, Raise, AtStep
    <3> QED
      BY <1>0, <1>5, <2>m, <3>1
  <2> QED
    BY <1>5, <2>1, <2>2, <2>3, <2>4 DEF Worker, Proceed
<1>6. ASSUME NEW w \in Workers, WorkerDies(w) PROVE FALSE
  BY <1>0, <1>6 DEF WorkerDies
<1> QED
  BY <1>1, <1>2, <1>3, <1>4, <1>5, <1>6 DEF Next, Main, Ended

-----------------------------------------------------------------------------
(* The invariant holds always.                                             *)

THEOREM Invariance == Spec => []IndInv
<1>1. IndInv /\ [Next]_vars => IndInv'
  BY TypeStep, MainStep, WorkerStep, CacheStep, GotStep, ChunkStep, OutStep,
     AccountStep
  DEF IndInv
<1> QED
  BY InitIndInv, <1>1, PTL DEF Spec

-----------------------------------------------------------------------------
(* What follows.                                                           *)

\* Every variable keeps its type: no index of a chunk, job, step or file is
\* ever out of range.
THEOREM TypeCorrect == Spec => []TypeOK
BY Invariance, PTL DEF IndInv

\* A certificate is exported once, however many jobs and workers want it.
THEOREM ExportedOnce == Spec => []OneExportPerObject
<1>1. IndInv => OneExportPerObject
  BY DEF IndInv, CacheInv
<1> QED
  BY <1>1, Invariance, PTL

\* A tool is started only on certificates that are there and complete.
THEOREM ToolsGetCertificates == Spec => []CertificateUsable
<1>1. IndInv => CertificateUsable
  <2> SUFFICES ASSUME IndInv, NEW w \in Workers,
                      AtStep(w, "tool") \/ AtStep(w, "write")
               PROVE  /\ poolDir
                      /\ \A f \in Fetches : f[1] = job[w] /\ f[2] < step[w] =>
                           got[f] # NoFile /\ files[got[f]] = "exported"
    BY DEF CertificateUsable
  <2>1. pc[w] = "step" /\ main = "mapping"
    BY DEF AtStep, IndInv, MainInv
  <2> QED
    BY <2>1 DEF IndInv, MainInv, GotInv, CacheInv, Running
<1> QED
  BY <1>1, Invariance, PTL

\* Where the cache key tells the URIs of the run apart, a job gets the
\* certificate it asked for.
THEOREM RightCertificate ==
  ASSUME KeysIdentifyObjects PROVE Spec => []RequestedObjectUsed
<1>1. IndInv => RequestedObjectUsed
  BY DEF IndInv, CacheInv, TypeOK, RequestedObjectUsed, KeysIdentifyObjects
<1> QED
  BY <1>1, Invariance, PTL

\* Nothing is exported, written or signed before every job has been checked.
THEOREM ChecksComeFirst == Spec => []NothingBeforePreflight
<1>1. IndInv => NothingBeforePreflight
  BY DEF IndInv, MainInv
<1> QED
  BY <1>1, Invariance, PTL

\* Where no two jobs write the same path, success means that every output
\* file is its own job's.
THEOREM OutputsAreKept ==
  ASSUME DistinctOutputs PROVE Spec => []OutputsKept
<1>1. IndInv => OutputsKept
  <2> SUFFICES ASSUME IndInv, main = "ok", NEW f \in Writes
               PROVE  out[PathOf(f)] = f[1]
    BY DEF OutputsKept
  <2>1. signed = Jobs
    BY DEF IndInv, ChunkInv, SuccessMeansAllSigned
  <2>2. f[1] \in Jobs
    BY StepNames DEF Writes
  <2> QED
    BY <2>1, <2>2 DEF IndInv, OutInv
<1> QED
  BY <1>1, Invariance, PTL

\* Unless a worker is killed, each chunk taken has a worker on it until it is
\* reported, and a lock that is held has a holder at work.
THEOREM NothingAbandoned == Spec => []ChunksAccounted
<1>1. IndInv => ChunksAccounted
  BY DEF IndInv
<1> QED
  BY <1>1, Invariance, PTL

\* No worker is at work once the certificates are removed.
THEOREM NoWorkerLeft == Spec => []WorkersGoneAtCleanup
<1>1. IndInv => WorkersGoneAtCleanup
  BY DEF IndInv, MainInv, WorkersGoneAtCleanup, Busy, Locked, Final, MainStates
<1> QED
  BY <1>1, Invariance, PTL

\* The pool is a SigningRun: callers can reason with that module instead.
THEOREM Implements == Spec => ImplementsRun
<1>1. Init => Run!Init
  BY DEF Init, Run!Init, phase
<1>2. IndInv /\ [Next]_vars => [Run!Next]_Run!runVars
  <2> SUFFICES ASSUME IndInv, [Next]_vars PROVE [Run!Next]_Run!runVars
    OBVIOUS
  <2> USE DEF Run!Next, Run!runVars, phase, mainVars
  <2>1. CASE Check
    BY <2>1 DEF Check, Run!Refuse
  <2>2. CASE Start
    <3>1. CASE Parallel < 1
      <4>1. main' = "failed" /\ main = "checking" /\ UNCHANGED signed
        BY <2>2, <3>1, CountsAssumption DEF Start
      <4> QED
        BY <4>1 DEF Run!Refuse
    <3>2. CASE Parallel >= 1 /\ NJobs = 0
      <4>1. signed = Jobs
        BY <3>2 DEF IndInv, TypeOK, Jobs
      <4>2. main' = "ok" /\ main = "checking" /\ UNCHANGED signed
        BY <2>2, <3>2, CountsAssumption DEF Start
      <4> QED
        BY <4>1, <4>2 DEF Run!Succeed
    <3>3. CASE Parallel >= 1 /\ NJobs # 0
      <4>1. main' = "mapping" /\ main = "checking" /\ UNCHANGED signed
        BY <2>2, <3>3, CountsAssumption DEF Start
      <4> QED
        BY <4>1 DEF Run!Accept
    <3> QED
      BY <3>1, <3>2, <3>3, CountsAssumption
  <2>3. CASE Collect
    <3>1. SuccessMeansAllSigned'
      BY ChunkStep DEF ChunkInv
    <3>2. main = "mapping" /\ UNCHANGED signed
      BY <2>3 DEF Collect
    <3>3. CASE main' = "ok"
      BY <3>1, <3>2, <3>3 DEF SuccessMeansAllSigned, Run!Succeed
    <3>4. CASE main' = "failed"
      BY <3>2, <3>4 DEF Run!Fail
    <3> QED
      BY <2>3, <3>3, <3>4 DEF Collect
  <2>4. CASE Interrupt
    BY <2>4 DEF Interrupt, Run!Fail
  <2>5. CASE Cleanup
    BY <2>5 DEF Cleanup
  <2>6. ASSUME NEW w \in Workers, JobDone(w) PROVE [Run!Next]_Run!runVars
    <3>1. main = "mapping" /\ main' = "mapping"
      BY <2>6, WorkersOnlyInMap DEF IndInv, Worker, Proceed
    <3>2. job[w] \in Jobs /\ signed' = signed \cup {job[w]}
      BY <2>6 DEF JobDone, IndInv, WorkerInv, Running
    <3> QED
      BY <3>1, <3>2 DEF Run!Sign
  <2>7. ASSUME NEW w \in Workers, Worker(w) \/ WorkerDies(w), ~JobDone(w)
        PROVE  [Run!Next]_Run!runVars
    <3>1. UNCHANGED main
      BY <2>7, WorkersOnlyInMap DEF IndInv
    <3>2. UNCHANGED signed
      BY <2>7 DEF Worker, Proceed, Take, NextJob, ReportOk, UseTool, WriteOut, StepFails,
        Acquire, Hit, Miss, Export, Store, ExportFails, WorkerDies
    <3> QED
      BY <3>1, <3>2
  <2>8. CASE UNCHANGED vars
    BY <2>8 DEF vars
  <2> QED
    BY <2>1, <2>2, <2>3, <2>4, <2>5, <2>6, <2>7, <2>8 DEF Next, Main, Ended
<1> QED
  BY <1>1, <1>2, Invariance, PTL DEF Spec, ImplementsRun, Run!Spec
-----------------------------------------------------------------------------
(* The outputs of one job appear in the order its program writes them.     *)

LEMMA NoJobIsNobody == \A f \in Writes : f[1] # Nobody /\ f[1] \in Jobs
BY StepNames, CountsAssumption DEF Writes, Nobody, Jobs

\* Truncation leaves nobody's output where it reaches.
LEMMA TruncateTo ==
  ASSUME NEW S, MayTruncate(S), NEW f \in Writes
  PROVE  out'[PathOf(f)] \in {out[PathOf(f)], Nobody}
BY KeysAndPaths DEF MayTruncate

LEMMA OrderInit == Init => AheadInv /\ OutputsInOrder
BY KeysAndPaths, NoJobIsNobody DEF Init, AheadInv, OutputsInOrder, Running, Locked, Busy

LEMMA OrderStep ==
  ASSUME DistinctOutputs, IndInv, AheadInv, OutputsInOrder, [Next]_vars
  PROVE  AheadInv' /\ OutputsInOrder'
<1>0. TypeOK /\ MainInv /\ WorkerInv /\ ChunkInv /\ OutInv
  BY DEF IndInv
<1>t. \A w \in Workers : step[w] \in Nat
  BY <1>0 DEF TypeOK
<1>f. \A f \in Writes : f = <<f[1], f[2]>> /\ f[2] \in Nat /\ f[2] >= 1
  BY StepNames, ProgLen DEF Writes
\* What is not to be written: the steps before a running job, and the jobs not begun.
<1> DEFINE Ahead(f) == \/ \E v \in Workers : /\ pc[v] \in Running
                                             /\ f[1] = job[v] /\ f[2] >= step[v]
                       \/ ChunkOf(f[1]) >= todo
                       \/ \E v \in Workers : pc[v] \in Busy /\ f[1] \in left[v]
<1>k. \A f \in Writes : Ahead(f) => out[PathOf(f)] = Nobody
  BY DEF AheadInv
<1>a. AheadInv' <=> \A f \in Writes : Ahead(f)' => out'[PathOf(f)] = Nobody
  BY DEF AheadInv
<1> HIDE DEF Ahead
<1> USE DEF mainVars, queueVars, workerVars, cacheVars
<1>1. ASSUME \A f \in Writes : Ahead(f)' => Ahead(f), UNCHANGED out
      PROVE  AheadInv' /\ OutputsInOrder'
  BY <1>1, <1>a, <1>k DEF OutputsInOrder
<1>2. ASSUME NEW S \in SUBSET Workers, MayTruncate(S),
             \A f \in Writes : Ahead(f)' => Ahead(f)
      PROVE  AheadInv' /\ OutputsInOrder'
  <2>1. AheadInv'
    BY <1>2, <1>a, <1>k, TruncateTo
  <2>2. ASSUME NEW f \in Writes, NEW g \in Writes, f[1] = g[1], f[2] < g[2],
               out'[PathOf(g)] = g[1]
        PROVE  out'[PathOf(f)] = f[1]
    <3>1. out[PathOf(g)] = g[1]
      BY <1>2, <2>2, TruncateTo, NoJobIsNobody
    <3>2. \A w \in S : AtStep(w, "write") => f # Now(w)
      <4>1. SUFFICES ASSUME NEW w \in S, AtStep(w, "write"), f = Now(w) PROVE FALSE
        OBVIOUS
      <4>2. w \in Workers /\ pc[w] \in Running /\ g[1] = job[w] /\ g[2] >= step[w]
        BY <1>f, <1>t, <2>2, <4>1 DEF AtStep, Now, Running
      <4> QED
        BY <1>k, <3>1, <4>2, NoJobIsNobody DEF Ahead
    <3>3. out'[PathOf(f)] = out[PathOf(f)]
      BY <1>0, <1>2, <3>2, TruncateFrame
    <3> QED
      BY <2>2, <3>1, <3>3 DEF OutputsInOrder
  <2> QED
    BY <2>1, <2>2 DEF OutputsInOrder
<1>3. CASE Check \/ Start \/ Cleanup \/ UNCHANGED vars
  <2>1. UNCHANGED <<pc, job, step, left, todo, out>>
    BY <1>3 DEF Check, Start, Cleanup, vars
  <2> QED
    BY <1>1, <2>1 DEF Ahead
<1>4. CASE Collect
  BY <1>1, <1>4 DEF Collect, Terminate, Ahead, Running, Locked, Busy
<1>5. CASE Interrupt
  <2>1. \A f \in Writes : Ahead(f)' => Ahead(f)
    BY <1>5 DEF Interrupt, Terminate, Ahead, Running, Locked, Busy
  <2> QED
    BY <1>2, <1>5, <2>1 DEF Interrupt
<1>6. ASSUME NEW w \in Workers, StepFails(w) \/ WorkerDies(w)
      PROVE  AheadInv' /\ OutputsInOrder'
  <2>1. /\ UNCHANGED <<job, step, todo>>
        /\ pc' = [pc EXCEPT ![w] = "idle"] /\ left' = [left EXCEPT ![w] = {}]
    BY <1>6 DEF StepFails, Raise, WorkerDies
  <2>2. \A f \in Writes : Ahead(f)' => Ahead(f)
    BY <1>0, <2>1 DEF Ahead, TypeOK, Running, Locked, Busy
  <2>3. MayTruncate({w}) /\ {w} \in SUBSET Workers
    BY <1>6 DEF StepFails, WorkerDies
  <2> QED
    BY <1>2, <2>2, <2>3
<1>7. ASSUME NEW w \in Workers, WriteOut(w)
      PROVE  AheadInv' /\ OutputsInOrder'
  <2>1. /\ AtStep(w, "write") /\ pc[w] \in Running /\ job[w] \in Jobs
        /\ out' = [out EXCEPT ![PathOf(Now(w))] = job[w]]
        /\ step' = [step EXCEPT ![w] = @ + 1]
        /\ UNCHANGED <<pc, job, left, todo>>
    BY <1>0, <1>7 DEF WriteOut, AtStep, WorkerInv, Running
  <2>2. Now(w) \in Writes
    BY <2>1, AtStepNames DEF Writes
  <2>3. step'[w] = step[w] + 1 /\ \A v \in Workers \ {w} : step'[v] = step[v]
    BY <1>0, <2>1 DEF TypeOK
  <2>4. \A f \in Writes : f # Now(w) => out'[PathOf(f)] = out[PathOf(f)]
    BY <1>0, <2>1, <2>2, KeysAndPaths DEF DistinctOutputs, TypeOK
  <2>5. ASSUME NEW f \in Writes, Ahead(f)'
        PROVE  Ahead(f) /\ f # Now(w)
    <3>1. CASE \E v \in Workers : /\ pc'[v] \in Running
                                  /\ f[1] = job'[v] /\ f[2] >= step'[v]
      <4>1. PICK v \in Workers : pc[v] \in Running /\ f[1] = job[v] /\ f[2] >= step'[v]
        BY <2>1, <3>1
      <4>2. f[2] >= step[v] /\ (v = w => f[2] # step[w])
        BY <1>f, <1>t, <2>3, <4>1
      <4>3. v # w => job[v] # job[w]
        BY <1>0, <2>1, <4>1 DEF ChunkInv, ChunkJobs, Busy, Running
      <4> QED
        BY <4>1, <4>2, <4>3 DEF Ahead, Now
    <3>2. CASE ChunkOf(f[1]) >= todo \/ \E v \in Workers : pc[v] \in Busy /\ f[1] \in left[v]
      <4>1. Ahead(f)
        BY <3>2 DEF Ahead
      <4>2. job[w] \in ChunkJobs(chunk[w]) /\ chunk[w] \in Chunks /\ chunk[w] < todo
        BY <1>0, <2>1 DEF ChunkInv, Busy, Running
      <4>3. ChunkOf(job[w]) < todo
        BY <4>2 DEF ChunkJobs
      <4>4. \A v \in Workers : pc[v] \in Busy => job[w] \notin left[v]
        <5>1. SUFFICES ASSUME NEW v \in Workers, pc[v] \in Busy, job[w] \in left[v]
                       PROVE  FALSE
          OBVIOUS
        <5>2. v # w /\ job[w] \in ChunkJobs(chunk[v])
          BY <1>0, <2>1, <5>1 DEF ChunkInv
        <5>3. chunk[v] = chunk[w]
          BY <4>2, <5>2 DEF ChunkJobs
        <5> QED
          BY <1>0, <2>1, <5>1, <5>2, <5>3 DEF ChunkInv, Busy, Running
      <4>5. ~(ChunkOf(job[w]) >= todo)
        BY <1>0, <4>2, <4>3, NChunksType DEF ChunkJobs, Chunks, TypeOK
      <4> QED
        BY <3>2, <4>1, <4>4, <4>5 DEF Now
    <3> QED
      BY <2>1, <2>5, <3>1, <3>2 DEF Ahead
  <2>6. AheadInv'
    BY <1>a, <1>k, <2>4, <2>5
  <2>7. ASSUME NEW f \in Writes, NEW g \in Writes, f[1] = g[1], f[2] < g[2],
               out'[PathOf(g)] = g[1]
        PROVE  out'[PathOf(f)] = f[1]
    <3>1. CASE g = Now(w)
      <4>1. f # Now(w) /\ f[1] = job[w] /\ f[2] < step[w]
        BY <1>f, <2>7, <3>1 DEF Now
      <4>2. out[PathOf(f)] = f[1]
        BY <1>0, <2>1, <4>1 DEF OutInv
      <4> QED
        BY <2>4, <4>1, <4>2
    <3>2. CASE g # Now(w)
      <4>1. out[PathOf(f)] = f[1]
        BY <2>4, <2>7, <3>2 DEF OutputsInOrder
      <4>2. f # Now(w) => out'[PathOf(f)] = f[1]
        BY <2>4, <4>1
      <4>3. f = Now(w) => out'[PathOf(f)] = f[1]
        BY <1>0, <2>1, <2>2, KeysAndPaths DEF TypeOK, Now
      <4> QED
        BY <4>2, <4>3
    <3> QED
      BY <3>1, <3>2
  <2> QED
    BY <2>6, <2>7 DEF OutputsInOrder
<1>8. ASSUME NEW w \in Workers,
             \/ JobDone(w) \/ UseTool(w) \/ ReportOk(w) \/ Acquire(w) \/ Hit(w)
             \/ Miss(w) \/ Export(w) \/ Store(w) \/ ExportFails(w)
      PROVE  AheadInv' /\ OutputsInOrder'
  <2>1. /\ UNCHANGED <<job, todo, out>>
        /\ \A v \in Workers : /\ pc'[v] \in Running => pc[v] \in Running
                              /\ pc'[v] \in Busy => pc[v] \in Busy
                              /\ step'[v] >= step[v] /\ left'[v] \subseteq left[v]
    BY <1>0, <1>t, <1>8 DEF JobDone, UseTool, ReportOk, Acquire, Hit, Miss, Export,
      Store, ExportFails, Raise, AtStep, TypeOK, Running, Locked, Busy
  <2>2. \A v \in Workers : step'[v] \in Nat
    BY <1>0, <1>t, <1>8 DEF JobDone, UseTool, ReportOk, Acquire, Hit, Miss, Export,
      Store, ExportFails, Raise, TypeOK
  <2>3. \A f \in Writes : Ahead(f)' => Ahead(f)
    BY <1>f, <1>t, <2>1, <2>2 DEF Ahead
  <2> QED
    BY <1>1, <2>1, <2>3
<1>9. ASSUME NEW w \in Workers, NextJob(w)
      PROVE  AheadInv' /\ OutputsInOrder'
  <2>1. /\ UNCHANGED <<todo, out>> /\ job'[w] \in left[w] /\ pc[w] \in Busy
        /\ \A v \in Workers : left'[v] \subseteq left[v]
        /\ \A v \in Workers \ {w} : /\ job'[v] = job[v] /\ step'[v] = step[v]
                                    /\ pc'[v] = pc[v]
    BY <1>0, <1>9 DEF NextJob, TypeOK, Busy
  <2>2. \A f \in Writes : Ahead(f)' => Ahead(f)
    BY <2>1 DEF Ahead
  <2> QED
    BY <1>1, <2>1, <2>2
<1>10. ASSUME NEW w \in Workers, Take(w)
       PROVE  AheadInv' /\ OutputsInOrder'
  <2>1. /\ main = "mapping" /\ todo \in Chunks /\ todo' = todo + 1
        /\ left' = [left EXCEPT ![w] = ChunkJobs(todo)]
        /\ pc' = [pc EXCEPT ![w] = "next"] /\ UNCHANGED <<job, step, out>>
    BY <1>10 DEF Take
  <2>2. \A f \in Writes : ChunkOf(f[1]) \in Chunks
    BY <1>0, <2>1, ChunkRange, NoJobIsNobody DEF MainInv
  <2>3. \A f \in Writes : ChunkOf(f[1]) >= todo' => ChunkOf(f[1]) >= todo
    BY <2>1, <2>2, NChunksType DEF Chunks
  <2>4. \A f \in Writes : f[1] \in ChunkJobs(todo) => ChunkOf(f[1]) >= todo
    BY <2>1, NChunksType DEF ChunkJobs, Chunks
  <2>5. \A f \in Writes : Ahead(f)' => Ahead(f)
    BY <1>0, <2>1, <2>3, <2>4 DEF Ahead, TypeOK, Running, Locked, Busy
  <2> QED
    BY <1>1, <2>1, <2>5
<1> QED
  BY <1>3, <1>4, <1>5, <1>6, <1>7, <1>8, <1>9, <1>10
  DEF Next, Main, Worker, Proceed, Ended

\* Where no two writes of the run go to one path: whatever fails, is killed or
\* interrupted, what a job has written last has all before it beside it.
THEOREM OutputsComeInOrder ==
  ASSUME DistinctOutputs PROVE Spec => []OutputsInOrder
<1>1. IndInv /\ AheadInv /\ OutputsInOrder /\ [Next]_vars => AheadInv' /\ OutputsInOrder'
  BY OrderStep
<1> QED
  BY OrderInit, <1>1, Invariance, PTL DEF Spec
=============================================================================
