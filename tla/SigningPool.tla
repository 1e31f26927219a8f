---------------------------- MODULE SigningPool ----------------------------
(***************************************************************************)
(* One call of SigningPool.sign() inside sign_main(): the main process     *)
(* checks every job, then hands the jobs to a multiprocessing.Pool whose   *)
(* workers run them concurrently, sharing one certificate cache behind one *)
(* manager lock; after map() has returned or raised, the pool is           *)
(* terminated and the directory of exported certificates is removed.       *)
(*                                                                         *)
(* A job is its program (see Signers): a sequence of steps that fetch a    *)
(* certificate, run a tool on temporary files, or write an output file.    *)
(*                                                                         *)
(* The pool is CPython's: map() cuts the jobs into chunks of consecutive   *)
(* jobs, a worker runs a chunk's jobs in order and its first exception     *)
(* ends the chunk, map() waits for every chunk and then raises the first   *)
(* exception, and a worker that is killed is replaced but its chunk is     *)
(* never run.                                                              *)
(***************************************************************************)
EXTENDS Integers, Sequences, FiniteSets

CONSTANTS
  NJobs,      \* how many jobs the command has
  Parallel,   \* -p/--parallel; argparse takes any integer
  Uri, Path,  \* PKCS#11 URIs and output paths, as in Signers
  Prog,       \* the program of each job
  Verdict,    \* the verdicts the preflight of each job can come to
  Warm,       \* the fetches whose object an earlier call has exported
  TasksPerWorker, \* chunks map() cuts per worker: 4 in CPython
  MaxDeaths   \* how many workers may be killed (bounds WorkerDies)

Jobs    == 1 .. NJobs
Workers == 1 .. Parallel

Step == [op : {"fetch", "tool", "write"}, uri : Uri, path : Path]

ASSUME CountsAssumption ==
  /\ NJobs \in Nat /\ Parallel \in Int /\ MaxDeaths \in Nat
  /\ TasksPerWorker \in Nat \ {0}
ASSUME ProgAssumption == Prog \in [Jobs -> Seq(Step)]
ASSUME VerdictAssumption == Verdict \in [Jobs -> SUBSET BOOLEAN]


\* A step is named by its job and its place in the job's program; the file
\* that the export of a fetch step creates has the name of that step.
StepsWith(op) ==
  UNION {{<<j, s>> : s \in {i \in 1 .. Len(Prog[j]) : Prog[j][i].op = op}}
         : j \in Jobs}
Fetches == StepsWith("fetch")
Writes  == StepsWith("write")

\* What of a URI the certificate cache compares.
CacheKeyIdOnly(uri) == <<uri.id>>     \* fault: the label is ignored too
CacheKey(uri) == <<uri.id, uri.object>>

KeyOf(f) == CacheKey(Prog[f[1]][f[2]].uri)
PathOf(f) == Prog[f[1]][f[2]].path

\* debsign makes one call for each template and hands the cache on: what is in it
\* is named like a fetch of this call that it serves.
ASSUME WarmAssumption ==
  Warm \subseteq Fetches /\ \A f, g \in Warm : KeyOf(f) = KeyOf(g) => f = g

Keys == {KeyOf(f) : f \in Fetches}
OutPaths == {PathOf(f) : f \in Writes}

NoFile == <<0, 0>>
Nobody == 0

-----------------------------------------------------------------------------
(* CPython: Pool.map cuts about TasksPerWorker chunks for each worker.      *)

ChunkSize == (NJobs + TasksPerWorker * Parallel - 1)
               \div (TasksPerWorker * Parallel)
ChunkOf(j) == (j - 1) \div ChunkSize + 1
NChunks == IF NJobs = 0 \/ Parallel < 1 THEN 0 ELSE ChunkOf(NJobs)
Chunks == 1 .. NChunks
ChunkJobs(c) == {j \in Jobs : ChunkOf(j) = c}

-----------------------------------------------------------------------------
VARIABLES
  main,      \* the main process: where it is, how the call ended
  checked,   \* how many jobs have passed their preflight check
  todo,      \* the next chunk of the task queue
  reported,  \* the result of each chunk, as map() receives it
  pc,        \* where each worker is
  chunk,     \* the chunk each worker runs
  left,      \* the jobs of that chunk it has not started
  job, step, \* the job each worker runs, and the next step of its program
  lock,      \* the manager's lock on the certificate cache
  cache,     \* the manager's dict: cache key -> exported file
  files,     \* the exported certificates: absent, empty, or exported
  got,       \* the file each fetch step was given
  out,       \* each output path: the job whose whole output it holds, if any
  signed,    \* the jobs whose program has run to its end
  poolDir,   \* does the directory of exported certificates exist
  deaths     \* how many workers have been killed

mainVars   == <<main, checked, poolDir>>
queueVars  == <<todo, reported>>
workerVars == <<pc, chunk, left, job, step>>
cacheVars  == <<lock, cache, files, got>>
vars == <<mainVars, queueVars, workerVars, cacheVars, out, signed, deaths>>

Free == 0
Orphaned == -1      \* held by a process that no longer exists

MainStates == {"checking", "mapping", "ok", "failed", "rejected",
               "interrupted"}
Final == MainStates \ {"checking", "mapping"}
Locked == {"lookup", "export", "store"}
Busy == {"next", "step"} \cup Locked
PcStates == Busy \cup {"idle", "gone"}

TypeOK ==
  /\ main \in MainStates
  /\ checked \in 0 .. NJobs
  /\ todo \in 1 .. NChunks + 1
  /\ reported \in [Chunks -> {"none", "ok", "error"}]
  /\ pc \in [Workers -> PcStates]
  /\ chunk \in [Workers -> 0 .. NChunks]
  /\ left \in [Workers -> SUBSET Jobs]
  /\ job \in [Workers -> 0 .. NJobs]
  /\ step \in [Workers -> Nat]
  /\ lock \in Workers \cup {Free, Orphaned}
  /\ cache \in [Keys -> Fetches \cup {NoFile}]
  /\ files \in [Fetches -> {"absent", "empty", "exported"}]
  /\ got \in [Fetches -> Fetches \cup {NoFile}]
  /\ out \in [OutPaths -> 0 .. NJobs]
  /\ signed \subseteq Jobs
  /\ poolDir \in BOOLEAN
  /\ deaths \in 0 .. MaxDeaths

Init ==
  /\ main = "checking" /\ checked = 0 /\ poolDir = TRUE
  /\ todo = 1 /\ reported = [c \in Chunks |-> "none"]
  /\ pc = [w \in Workers |-> "idle"]
  /\ chunk = [w \in Workers |-> 0] /\ left = [w \in Workers |-> {}]
  /\ job = [w \in Workers |-> 0] /\ step = [w \in Workers |-> 0]
  /\ lock = Free
  /\ cache = [k \in Keys |-> IF \E f \in Warm : KeyOf(f) = k
                             THEN CHOOSE f \in Warm : KeyOf(f) = k ELSE NoFile]
  /\ files = [f \in Fetches |-> IF f \in Warm THEN "exported" ELSE "absent"]
  /\ got = [f \in Fetches |-> NoFile]
  /\ out = [p \in OutPaths |-> Nobody]
  /\ signed = {}
  /\ deaths = 0

-----------------------------------------------------------------------------
Now(w) == <<job[w], step[w]>>
AtStep(w, op) == /\ pc[w] = "step"
                 /\ step[w] \in 1 .. Len(Prog[job[w]])
                 /\ Prog[job[w]][step[w]].op = op

\* A tool that fails or is killed may leave its output truncated.
MayTruncate(S) ==
  \E T \in SUBSET {w \in S : AtStep(w, "write")} :
    out' = [p \in OutPaths |->
             IF \E w \in T : p = PathOf(Now(w)) THEN Nobody ELSE out[p]]

-----------------------------------------------------------------------------
(* The main process.                                                       *)

\* Leaving the `with Pool' block: no worker survives it.
Terminate ==
  /\ pc' = [w \in Workers |-> "gone"]
  /\ lock' = IF lock = Free THEN Free ELSE Orphaned
  /\ UNCHANGED <<chunk, left, job, step, cache, files, got>>

Check ==
  /\ main = "checking" /\ checked < NJobs
  /\ \E ok \in Verdict[checked + 1] :
       IF ok THEN checked' = checked + 1 /\ UNCHANGED main
             ELSE main' = "rejected" /\ UNCHANGED checked
  /\ UNCHANGED <<poolDir, queueVars, workerVars, cacheVars, out, signed, deaths>>

\* Pool(processes < 1) raises; map() over no job returns at once.
StartAfterFirst ==      \* fault: the pool starts before all checks are done
  /\ main = "checking" /\ checked >= 1 /\ NJobs >= 1 /\ Parallel >= 1
  /\ main' = "mapping"
  /\ UNCHANGED <<checked, poolDir, queueVars, workerVars, cacheVars, out,
                 signed, deaths>>
Start ==
  /\ main = "checking" /\ checked = NJobs
  /\ main' = CASE Parallel < 1 -> "failed"
               [] Parallel >= 1 /\ NJobs = 0 -> "ok"
               [] OTHER -> "mapping"
  /\ UNCHANGED <<checked, poolDir, queueVars, workerVars, cacheVars, out,
                 signed, deaths>>

CollectLast ==          \* fault: the verdict is the last chunk's
  /\ main = "mapping"
  /\ \A c \in Chunks : reported[c] # "none"
  /\ main' = IF reported[NChunks] = "ok" THEN "ok" ELSE "failed"
  /\ Terminate
  /\ UNCHANGED <<checked, poolDir, queueVars, out, signed, deaths>>

\* map() returns or raises once every chunk has a result, not before.
Collect ==
  /\ main = "mapping"
  /\ \A c \in Chunks : reported[c] # "none"
  /\ main' = IF \A c \in Chunks : reported[c] = "ok" THEN "ok" ELSE "failed"
  /\ Terminate
  /\ UNCHANGED <<checked, poolDir, queueVars, out, signed, deaths>>

InterruptMainOnly ==    \* fault: the pool is not terminated
  /\ main = "mapping"
  /\ main' = "interrupted"
  /\ UNCHANGED <<checked, poolDir, queueVars, workerVars, cacheVars, out, signed,
                 deaths>>

\* Ctrl-C while map() waits.
Interrupt ==
  /\ main = "mapping"
  /\ main' = "interrupted"
  /\ MayTruncate(Workers)
  /\ Terminate
  /\ UNCHANGED <<checked, poolDir, queueVars, signed, deaths>>

\* CertCache.__exit__
Cleanup ==
  /\ main \in Final /\ poolDir
  /\ poolDir' = FALSE
  /\ UNCHANGED <<main, checked, queueVars, workerVars, cacheVars, out, signed,
                 deaths>>

-----------------------------------------------------------------------------
(* A worker.                                                               *)

TakePastEnd(w) ==       \* fault: an exhausted queue still yields
  /\ main = "mapping" /\ pc[w] = "idle"
  /\ todo' = todo + 1
  /\ chunk' = [chunk EXCEPT ![w] = todo]
  /\ left' = [left EXCEPT ![w] = ChunkJobs(todo)]
  /\ pc' = [pc EXCEPT ![w] = "next"]
  /\ UNCHANGED <<mainVars, reported, job, step, cacheVars, out, signed, deaths>>

Take(w) ==
  /\ main = "mapping" /\ pc[w] = "idle" /\ todo \in Chunks
  /\ todo' = todo + 1
  /\ chunk' = [chunk EXCEPT ![w] = todo]
  /\ left' = [left EXCEPT ![w] = ChunkJobs(todo)]
  /\ pc' = [pc EXCEPT ![w] = "next"]
  /\ UNCHANGED <<mainVars, reported, job, step, cacheVars, out, signed, deaths>>

NextJob(w) ==
  /\ pc[w] = "next"
  /\ \E j \in left[w] :
       /\ \A k \in left[w] : j <= k
       /\ job' = [job EXCEPT ![w] = j]
       /\ left' = [left EXCEPT ![w] = @ \ {j}]
  /\ step' = [step EXCEPT ![w] = 1]
  /\ pc' = [pc EXCEPT ![w] = "step"]
  /\ UNCHANGED <<mainVars, queueVars, chunk, cacheVars, out, signed, deaths>>

ReportOk(w) ==
  /\ pc[w] = "next" /\ left[w] = {}
  /\ reported' = [reported EXCEPT ![chunk[w]] = "ok"]
  /\ pc' = [pc EXCEPT ![w] = "idle"]
  /\ UNCHANGED <<mainVars, todo, chunk, left, job, step, cacheVars, out,
                 signed, deaths>>

\* An exception leaves the job: the rest of its chunk is not run.
Raise(w) ==
  /\ reported' = [reported EXCEPT ![chunk[w]] = "error"]
  /\ pc' = [pc EXCEPT ![w] = "idle"]
  /\ left' = [left EXCEPT ![w] = {}]
  /\ UNCHANGED <<todo, chunk, job, step>>

JobDone(w) ==
  /\ pc[w] = "step" /\ step[w] > Len(Prog[job[w]])
  /\ signed' = signed \cup {job[w]}
  /\ pc' = [pc EXCEPT ![w] = "next"]
  /\ UNCHANGED <<mainVars, queueVars, chunk, left, job, step, cacheVars, out,
                 deaths>>

UseTool(w) ==
  /\ AtStep(w, "tool")
  /\ step' = [step EXCEPT ![w] = @ + 1]
  /\ UNCHANGED <<mainVars, queueVars, pc, chunk, left, job, cacheVars, out,
                 signed, deaths>>

WriteOut(w) ==
  /\ AtStep(w, "write")
  /\ out' = [out EXCEPT ![PathOf(Now(w))] = job[w]]
  /\ step' = [step EXCEPT ![w] = @ + 1]
  /\ UNCHANGED <<mainVars, queueVars, pc, chunk, left, job, cacheVars, signed,
                 deaths>>

WriteUnchecked(w) ==    \* fault: the last tool's exit status is not looked at
  /\ AtStep(w, "write")
  /\ MayTruncate({w})
  /\ step' = [step EXCEPT ![w] = @ + 1]
  /\ UNCHANGED <<mainVars, queueVars, pc, chunk, left, job, cacheVars, signed,
                 deaths>>

\* A tool exits with an error, or a check before the cache is asked raises.
StepFails(w) ==
  /\ \E op \in {"fetch", "tool", "write"} : AtStep(w, op)
  /\ MayTruncate({w})
  /\ Raise(w)
  /\ UNCHANGED <<mainVars, cacheVars, signed, deaths>>

-----------------------------------------------------------------------------
(* The certificate cache: exported_from_pkcs11(), all of it under the lock. *)

AcquireUnlocked(w) ==   \* fault: a plain CertCache, shared without the lock
  /\ AtStep(w, "fetch")
  /\ pc' = [pc EXCEPT ![w] = "lookup"]
  /\ UNCHANGED <<mainVars, queueVars, chunk, left, job, step, cacheVars, out,
                 signed, deaths>>

Acquire(w) ==
  /\ AtStep(w, "fetch") /\ lock = Free
  /\ lock' = w
  /\ pc' = [pc EXCEPT ![w] = "lookup"]
  /\ UNCHANGED <<mainVars, queueVars, chunk, left, job, step, cache, files, got,
                 out, signed, deaths>>

Hit(w) ==
  /\ pc[w] = "lookup" /\ cache[KeyOf(Now(w))] # NoFile
  /\ got' = [got EXCEPT ![Now(w)] = cache[KeyOf(Now(w))]]
  /\ lock' = Free
  /\ pc' = [pc EXCEPT ![w] = "step"]
  /\ step' = [step EXCEPT ![w] = @ + 1]
  /\ UNCHANGED <<mainVars, queueVars, chunk, left, job, cache, files, out,
                 signed, deaths>>

MissStoring(w) ==       \* fault: the entry is stored before the export
  /\ pc[w] = "lookup" /\ cache[KeyOf(Now(w))] = NoFile
  /\ files' = [files EXCEPT ![Now(w)] = "empty"]
  /\ cache' = [cache EXCEPT ![KeyOf(Now(w))] = Now(w)]
  /\ pc' = [pc EXCEPT ![w] = "export"]
  /\ UNCHANGED <<mainVars, queueVars, chunk, left, job, step, lock, got, out,
                 signed, deaths>>

\* The temporary file exists, empty, before p11tool is started.
Miss(w) ==
  /\ pc[w] = "lookup" /\ cache[KeyOf(Now(w))] = NoFile
  /\ files' = [files EXCEPT ![Now(w)] = "empty"]
  /\ pc' = [pc EXCEPT ![w] = "export"]
  /\ UNCHANGED <<mainVars, queueVars, chunk, left, job, step, lock, cache, got,
                 out, signed, deaths>>

Export(w) ==
  /\ pc[w] = "export"
  /\ files' = [files EXCEPT ![Now(w)] = "exported"]
  /\ pc' = [pc EXCEPT ![w] = "store"]
  /\ UNCHANGED <<mainVars, queueVars, chunk, left, job, step, lock, cache, got,
                 out, signed, deaths>>

\* The entry is stored, then read back (Hit).
Store(w) ==
  /\ pc[w] = "store"
  /\ cache' = [cache EXCEPT ![KeyOf(Now(w))] = Now(w)]
  /\ pc' = [pc EXCEPT ![w] = "lookup"]
  /\ UNCHANGED <<mainVars, queueVars, chunk, left, job, step, lock, files, got,
                 out, signed, deaths>>

ExportFailsLocked(w) == \* fault: lock.acquire()/release() without `with'
  /\ \/ pc[w] = "lookup" /\ cache[KeyOf(Now(w))] = NoFile
     \/ pc[w] = "export"
  /\ Raise(w)
  /\ UNCHANGED <<mainVars, cacheVars, out, signed, deaths>>

\* p11tool is not installed, or fails: the lock is released all the same.
ExportFails(w) ==
  /\ \/ pc[w] = "lookup" /\ cache[KeyOf(Now(w))] = NoFile
     \/ pc[w] = "export"
  /\ lock' = Free
  /\ Raise(w)
  /\ UNCHANGED <<mainVars, cache, files, got, out, signed, deaths>>

-----------------------------------------------------------------------------
\* A busy worker is killed (out of memory): a fresh one takes its place, its
\* chunk is lost, and a lock it held is never released.
WorkerDies(w) ==
  /\ pc[w] \in Busy /\ deaths < MaxDeaths
  /\ deaths' = deaths + 1
  /\ pc' = [pc EXCEPT ![w] = "idle"]
  /\ left' = [left EXCEPT ![w] = {}]
  /\ lock' = IF lock = w THEN Orphaned ELSE lock
  /\ MayTruncate({w})
  /\ UNCHANGED <<mainVars, queueVars, chunk, job, step, cache, files, got,
                 signed>>

Proceed(w) ==
  \/ Take(w) \/ NextJob(w) \/ ReportOk(w) \/ JobDone(w)
  \/ UseTool(w) \/ WriteOut(w)
  \/ Acquire(w) \/ Hit(w) \/ Miss(w) \/ Export(w) \/ Store(w)

Worker(w) == Proceed(w) \/ StepFails(w) \/ ExportFails(w)

Main == Check \/ Start \/ Collect \/ Cleanup

\* The process has ended; main() turns the outcome into an exit status.
Ended == main \in Final /\ ~poolDir /\ UNCHANGED vars

Next == \/ Main
        \/ Interrupt
        \/ \E w \in Workers : Worker(w) \/ WorkerDies(w)
        \/ Ended

Spec == Init /\ [][Next]_vars

\* Processes are scheduled, and a signing tool or the token eventually answers.
\* A worker that waits for the lock is not rescued by a failure.
Fairness == WF_vars(Main) /\ \A w \in Workers : WF_vars(Proceed(w))

FairSpec == Spec /\ Fairness

-----------------------------------------------------------------------------
(* What the pool must guarantee.                                           *)

\* Of the many jobs that need the same certificate, one exports it: the check
\* of the shared dict and the export cannot interleave with another worker's.
OneExportPerObject ==
  \A f, g \in Fetches :
    /\ files[f] = "exported" /\ files[g] = "exported"
    /\ KeyOf(f) = KeyOf(g)
    => f = g

\* A signing tool is never started on a certificate file that is missing,
\* still empty after a failed export, or removed with its directory.
CertificateUsable ==
  \A w \in Workers : AtStep(w, "tool") \/ AtStep(w, "write") =>
    /\ poolDir
    /\ \A f \in Fetches : f[1] = job[w] /\ f[2] < step[w] =>
         got[f] # NoFile /\ files[got[f]] = "exported"

\* A fetch is given the export of the very object it asked for.  It holds only
\* where no two URIs of the run that differ have the same cache key.
RequestedObjectUsed ==
  \A f \in Fetches :
    got[f] # NoFile => Prog[got[f][1]][got[f][2]].uri = Prog[f[1]][f[2]].uri

KeysIdentifyObjects ==
  \A f, g \in Fetches :
    KeyOf(f) = KeyOf(g) => Prog[f[1]][f[2]].uri = Prog[g[1]][g[2]].uri

\* One job that would be refused keeps every job from being signed, exported
\* for or written, whatever its place in the list.
NothingBeforePreflight ==
  checked < NJobs =>
    /\ signed = {}
    /\ \A p \in OutPaths : out[p] = Nobody
    /\ \A f \in Fetches \ Warm : files[f] = "absent"

\* When the call returns, every output file holds what its own job wrote.  It
\* holds only where no two writes of the run go to one path.
OutputsKept == main = "ok" => \A f \in Writes : out[PathOf(f)] = f[1]

DistinctOutputs == \A f, g \in Writes : PathOf(f) = PathOf(g) => f = g

\* Whatever fails, and however the call ends: a later output of a job (the .ver file of a trusted
\* application) is never there without the earlier one (its signature).
OutputsInOrder ==
  \A f, g \in Writes :
    f[1] = g[1] /\ f[2] < g[2] /\ out[PathOf(g)] = g[1] => out[PathOf(f)] = f[1]

SuccessMeansAllSigned == main = "ok" => signed = Jobs

\* A chunk taken from the queue has a worker on it until its result is in, and
\* the lock has a live holder: map() cannot wait for ever unless a worker was
\* killed.
ChunksAccounted ==
  main = "mapping" /\ deaths = 0 =>
    /\ \A c \in 1 .. todo - 1 : reported[c] = "none" =>
         \E w \in Workers : pc[w] \in Busy /\ chunk[w] = c
    /\ lock # Free => lock \in Workers /\ pc[lock] \in Locked

\* No worker outlives the pool, so none uses the certificate directory after
\* it has been removed.
WorkersGoneAtCleanup ==
  ~poolDir => \A w \in Workers : pc[w] \notin Busy

\* The pool does what a caller of SigningPool.sign() relies on.
phase == CASE main = "checking" -> "checking"
           [] main = "mapping" -> "signing"
           [] main = "ok" -> "ok"
           [] OTHER -> "failed"

Run == INSTANCE SigningRun WITH Job <- Jobs

ImplementsRun == Run!Spec

\* Whatever fails, the call returns or raises and the exported certificates are
\* removed, as long as no worker is killed.
Terminates == <>(~poolDir \/ deaths > 0)

-----------------------------------------------------------------------------
(* Why the properties hold: the inductive invariant, by subject.           *)

Running == {"step"} \cup Locked

\* Workers run only while map() waits, and map() is called after every check.
MainInv ==
  /\ main # "mapping" => \A w \in Workers : pc[w] \in {"idle", "gone"}
  /\ main = "mapping" => /\ poolDir /\ checked = NJobs
                         /\ NJobs >= 1 /\ Parallel >= 1
  /\ main \in {"ok", "interrupted"} => checked = NJobs
  /\ main = "checking" => todo = 1 /\ lock = Free
  /\ ~poolDir => main \in Final
  /\ NothingBeforePreflight

\* Where a worker is, and that it holds the lock exactly while in the cache.
WorkerInv ==
  \A w \in Workers :
    /\ pc[w] \in Locked <=> lock = w
    /\ pc[w] \in Running => job[w] \in Jobs /\ step[w] # 0
    /\ pc[w] \in Locked => Now(w) \in Fetches

\* The cache, the exported files and what was handed to jobs agree.
CacheInv ==
  /\ \A k \in Keys : cache[k] # NoFile =>
       files[cache[k]] = "exported" /\ KeyOf(cache[k]) = k
  /\ \A f \in Fetches : got[f] # NoFile =>
       files[got[f]] = "exported" /\ KeyOf(got[f]) = KeyOf(f)
  /\ \A f \in Fetches : files[f] = "exported" =>
       \/ cache[KeyOf(f)] = f
       \/ \E w \in Workers : pc[w] = "store" /\ Now(w) = f
       \/ lock = Orphaned
  /\ \A w \in Workers : pc[w] \in {"export", "store"} =>
       cache[KeyOf(Now(w))] = NoFile
  /\ \A w \in Workers : pc[w] = "store" => files[Now(w)] = "exported"
  /\ OneExportPerObject

\* A running job has been given all that the steps behind it fetched.
GotInv ==
  \A w \in Workers : pc[w] \in Running =>
    \A f \in Fetches : f[1] = job[w] /\ f[2] < step[w] => got[f] # NoFile

\* A chunk is run by one worker, once; each of its jobs is signed, running or
\* still to be started until the chunk is reported or lost.
ChunkInv ==
  /\ \A w \in Workers : pc[w] \in Busy =>
       /\ chunk[w] \in Chunks /\ chunk[w] < todo
       /\ reported[chunk[w]] = "none"
       /\ left[w] \subseteq ChunkJobs(chunk[w])
       /\ left[w] \cap signed = {}
       /\ \A v \in Workers : pc[v] \in Busy /\ v # w => chunk[v] # chunk[w]
       /\ \A j \in ChunkJobs(chunk[w]) :
            \/ j \in signed \cup left[w]
            \/ pc[w] \in Running /\ j = job[w]
  /\ \A w \in Workers : pc[w] \in Running =>
       /\ job[w] \in ChunkJobs(chunk[w])
       /\ job[w] \notin signed \cup left[w]
  /\ \A c \in Chunks : reported[c] = "ok" => ChunkJobs(c) \subseteq signed
  /\ \A j \in signed : ChunkOf(j) < todo
  /\ \A c \in Chunks : reported[c] # "none" => c < todo
  /\ SuccessMeansAllSigned

\* What a job has written stays: no other job has its paths.
OutInv ==
  DistinctOutputs =>
    /\ \A f \in Writes : f[1] \in signed => out[PathOf(f)] = f[1]
    /\ \A w \in Workers : pc[w] \in Running =>
         \A f \in Writes : f[1] = job[w] /\ f[2] < step[w] =>
           out[PathOf(f)] = f[1]

\* What a job has not come to yet, no one has written.
AheadInv ==
  /\ \A w \in Workers : pc[w] \in Running =>
       \A f \in Writes : f[1] = job[w] /\ f[2] >= step[w] => out[PathOf(f)] = Nobody
  /\ \A f \in Writes :
       \/ ChunkOf(f[1]) >= todo
       \/ \E w \in Workers : pc[w] \in Busy /\ f[1] \in left[w]
       => out[PathOf(f)] = Nobody

IndInv == /\ TypeOK /\ MainInv /\ WorkerInv /\ CacheInv /\ GotInv
          /\ ChunkInv /\ OutInv /\ ChunksAccounted
=============================================================================
