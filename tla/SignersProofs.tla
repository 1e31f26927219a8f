--------------------------- MODULE SignersProofs ---------------------------
(***************************************************************************)
(* Proofs about the jobs that commands make (Signers), run by the pool     *)
(* (SigningPool).  What the pool promises under a condition on the paths   *)
(* or URIs of the run holds of a command when its own rule for computing   *)
(* them meets that condition.                                              *)
(***************************************************************************)
EXTENDS Signers, SigningPoolProofs, SequenceTheorems

Kinds == DOMAIN Section

\* The program of each job is the one its signer runs.
Runs(jobs, cfg) ==
  /\ Prog = [j \in Jobs |-> Program(jobs[j], cfg)]
  /\ \A j \in Jobs : jobs[j].kind \in Kinds
  /\ \E S : cfg["hab4"].srk \in Seq(S)

\* The files a job leaves.
OutputsOf(task) ==
  {task.out} \cup IF task.kind = "optee" THEN {VersionPath(task.out)} ELSE {}

\* The certificates the signers ask for.
Asked(task, cfg) ==
  LET sec == cfg[Section[task.kind]]
  IN  CASE task.kind \in {"uefi", "uefivar", "swu", "module"} -> {ToCert(sec.key)}
        [] task.kind = "hab4"  -> {sec.srk[i] : i \in 1 .. Len(sec.srk)}
        [] task.kind = "optee" -> {ToPublic(sec.key)}
        [] OTHER              -> {}

-----------------------------------------------------------------------------
(* Programs.                                                               *)

\* Whichever signer it is, the writes of a job are its outputs, each is written
\* once, and its fetches are what the signer asks for.
LEMMA Programs ==
  ASSUME NEW task, NEW cfg, task.kind \in Kinds, NEW S, cfg["hab4"].srk \in Seq(S),
         NEW p, p = Program(task, cfg)
  PROVE  /\ Len(p) \in Nat
         /\ \A a \in 1 .. Len(p) :
              /\ p[a].op = "write" => p[a].path \in OutputsOf(task)
              /\ p[a].op = "fetch" => p[a].uri \in Asked(task, cfg)
         /\ (task.kind = "optee" => VersionPath(task.out) # task.out)
            => \A a, b \in 1 .. Len(p) :
                 p[a].op = "write" /\ p[b].op = "write" /\ p[a].path = p[b].path
                 => a = b
<1> DEFINE sec == cfg[Section[task.kind]]
           o == task.out
<1> USE DEF Fetch, Tool, Write, OutputsOf, Asked
<1>1. task.kind \in {"uefi", "uefivar", "swu", "module", "hab4", "optee", "rpi",
                    "eeprom"}
  BY DEF Kinds, Section
<1>2. CASE task.kind \in {"uefi", "uefivar", "swu"}
  <2>1. p = << Fetch(ToCert(sec.key)), Write(o) >>
    BY <1>2 DEF Program, CertProgram
  <2> QED
    BY <1>2, <2>1
<1>3. CASE task.kind = "module"
  <2>1. \/ p = << Fetch(ToCert(sec.key)), Write(o) >>
        \/ p = << Fetch(ToCert(sec.key)), Tool, Write(o) >>
    BY <1>3 DEF Program, ModuleProgram, CertProgram
  <2> QED
    BY <1>3, <2>1
<1>4. CASE task.kind = "hab4"
  <2> DEFINE srk == cfg["hab4"].srk
             n == Len(srk)
             front == [i \in 1 .. n |-> Fetch(srk[i])]
             T == {front[i] : i \in 1 .. n} \cup {Tool, Write(o)}
  <2>1. sec = cfg["hab4"] /\ n \in Nat
    BY <1>4 DEF Section
  <2>2. p = front \o << Tool, Write(o) >>
    BY <1>4, <2>1 DEF Program, Hab4Program
  <2>3. \A i \in 1 .. n : front[i] = Fetch(srk[i])
    OBVIOUS
  <2>4. front \in [1 .. n -> T]
    OBVIOUS
  <2> HIDE DEF front, T, n
  <2>5. front \in Seq(T) /\ Len(front) = n
    BY <2>1, <2>4
  <2>6. << Tool, Write(o) >> \in Seq(T)
    BY DEF T
  <2>7. /\ Len(p) = n + 2
        /\ \A a \in 1 .. n + 2 :
             p[a] = IF a <= n THEN front[a] ELSE << Tool, Write(o) >>[a - n]
    BY <2>1, <2>2, <2>5, <2>6, ConcatProperties
  <2>8. \A a \in 1 .. n : p[a].op = "fetch" /\ p[a].uri = srk[a]
    <3>1. \A a \in 1 .. n : p[a] = Fetch(srk[a])
      BY <2>1, <2>3, <2>7
    <3>2. \A u : Fetch(u).op = "fetch" /\ Fetch(u).uri = u
      OBVIOUS
    <3> HIDE DEF Fetch
    <3> QED
      BY ONLY <3>1, <3>2
  <2>9. p[n + 1].op = "tool" /\ p[n + 2].op = "write" /\ p[n + 2].path = o
    <3>1. p[n + 1] = Tool /\ p[n + 2] = Write(o)
      BY <2>1, <2>7
    <3> QED
      BY ONLY <3>1 DEF Tool, Write
  <2>10. \A a \in 1 .. Len(p) : a \in 1 .. n \/ a = n + 1 \/ a = n + 2
    BY ONLY <2>1, <2>7
  <2>11. \A a \in 1 .. n : srk[a] \in Asked(task, cfg)
    BY <1>4, <2>1 DEF n
  <2>12. \A a \in 1 .. Len(p) : p[a].op = "write" => a = n + 2
    BY ONLY <2>8, <2>9, <2>10
  <2>13. \A a \in 1 .. Len(p) : p[a].op = "fetch" => a \in 1 .. n
    BY ONLY <2>8, <2>9, <2>10
  <2>14. o \in OutputsOf(task)
    OBVIOUS
  <2> HIDE DEF OutputsOf, Asked, o, srk
  <2>15. Len(p) \in Nat
    BY ONLY <2>1, <2>7
  <2>16. \A a \in 1 .. Len(p) : p[a].op = "write" => p[a].path \in OutputsOf(task)
    BY ONLY <2>9, <2>12, <2>14
  <2>17. \A a \in 1 .. Len(p) : p[a].op = "fetch" => p[a].uri \in Asked(task, cfg)
    BY ONLY <2>8, <2>11, <2>13
  <2>18. \A a, b \in 1 .. Len(p) : p[a].op = "write" /\ p[b].op = "write" => a = b
    BY ONLY <2>12
  <2> QED
    BY ONLY <2>15, <2>16, <2>17, <2>18
<1>5. CASE task.kind = "optee"
  <2>1. p = << Fetch(ToPublic(sec.key)), Tool, Tool, Write(o), Write(VersionPath(o)) >>
    BY <1>5 DEF Program, OpteeProgram
  <2> QED
    BY <1>5, <2>1
<1>6. CASE task.kind \in {"rpi", "eeprom"}
  <2>1. p = << Tool, Tool, Write(o) >>
    BY <1>6 DEF Program, RpiProgram, EepromProgram
  <2> QED
    BY <1>6, <2>1
<1> QED
  BY <1>1, <1>2, <1>3, <1>4, <1>5, <1>6

\* So the writes of a run go to distinct paths if the outputs of different jobs
\* differ, and no version file is the signature it belongs to.
LEMMA DistinctJobs ==
  ASSUME NEW jobs, NEW cfg, Runs(jobs, cfg),
         \A j \in Jobs : jobs[j].kind = "optee" =>
           VersionPath(jobs[j].out) # jobs[j].out,
         \A i, j \in Jobs : i # j =>
           OutputsOf(jobs[i]) \cap OutputsOf(jobs[j]) = {}
  PROVE  DistinctOutputs
<1> SUFFICES ASSUME NEW f \in Writes, NEW g \in Writes, PathOf(f) = PathOf(g)
             PROVE  f = g
  BY DEF DistinctOutputs
<1>1. PICK S : cfg["hab4"].srk \in Seq(S)
  BY DEF Runs
<1>2. /\ f = <<f[1], f[2]>> /\ f[1] \in Jobs /\ f[2] \in 1 .. Len(Prog[f[1]])
      /\ Prog[f[1]][f[2]].op = "write"
      /\ g = <<g[1], g[2]>> /\ g[1] \in Jobs /\ g[2] \in 1 .. Len(Prog[g[1]])
      /\ Prog[g[1]][g[2]].op = "write"
  BY StepNames DEF Writes
<1>3. \A j \in Jobs : Prog[j] = Program(jobs[j], cfg) /\ jobs[j].kind \in Kinds
  BY DEF Runs
<1>4. /\ PathOf(f) \in OutputsOf(jobs[f[1]]) /\ PathOf(g) \in OutputsOf(jobs[g[1]])
  BY <1>1, <1>2, <1>3, Programs DEF PathOf
<1>5. f[1] = g[1]
  BY <1>2, <1>4
<1>6. \A a, b \in 1 .. Len(Prog[f[1]]) :
        /\ Prog[f[1]][a].op = "write" /\ Prog[f[1]][b].op = "write"
        /\ Prog[f[1]][a].path = Prog[f[1]][b].path
        => a = b
  BY <1>1, <1>2, <1>3, Programs
<1> QED
  BY <1>2, <1>5, <1>6 DEF PathOf

\* Where there is no trusted application, a job has one output.
LEMMA PlainJobs ==
  ASSUME NEW jobs, NEW cfg, Runs(jobs, cfg),
         \A j \in Jobs : jobs[j].kind # "optee",
         \A i, j \in Jobs : jobs[i].out = jobs[j].out => i = j
  PROVE  DistinctOutputs
<1>1. \A j \in Jobs : OutputsOf(jobs[j]) = {jobs[j].out}
  BY DEF OutputsOf
<1>2. \A i, j \in Jobs : i # j => OutputsOf(jobs[i]) \cap OutputsOf(jobs[j]) = {}
  BY <1>1
<1> QED
  BY <1>2, DistinctJobs

\* The cache tells the URIs of a run apart if it does those its signers ask for.
LEMMA ApartJobs ==
  ASSUME NEW jobs, NEW cfg, Runs(jobs, cfg),
         \A i, j \in Jobs :
           \A u \in Asked(jobs[i], cfg), v \in Asked(jobs[j], cfg) :
             CacheKey(u) = CacheKey(v) => u = v
  PROVE  KeysIdentifyObjects
<1> SUFFICES ASSUME NEW f \in Fetches, NEW g \in Fetches, KeyOf(f) = KeyOf(g)
             PROVE  Prog[f[1]][f[2]].uri = Prog[g[1]][g[2]].uri
  BY DEF KeysIdentifyObjects
<1>1. PICK S : cfg["hab4"].srk \in Seq(S)
  BY DEF Runs
<1>2. /\ f[1] \in Jobs /\ f[2] \in 1 .. Len(Prog[f[1]]) /\ Prog[f[1]][f[2]].op = "fetch"
      /\ g[1] \in Jobs /\ g[2] \in 1 .. Len(Prog[g[1]]) /\ Prog[g[1]][g[2]].op = "fetch"
  BY StepNames DEF Fetches
<1>3. \A j \in Jobs : Prog[j] = Program(jobs[j], cfg) /\ jobs[j].kind \in Kinds
  BY DEF Runs
<1>4. /\ Prog[f[1]][f[2]].uri \in Asked(jobs[f[1]], cfg)
      /\ Prog[g[1]][g[2]].uri \in Asked(jobs[g[1]], cfg)
  BY <1>1, <1>2, <1>3, Programs
<1> QED
  BY <1>2, <1>4 DEF KeyOf

-----------------------------------------------------------------------------
(* Names.  A name is a nonempty sequence of parts of some kind P.          *)

\* An appended suffix keeps names apart, and itself.
LEMMA Appended ==
  ASSUME NEW P, NEW m \in Seq(P), NEW n \in Seq(P), NEW x, NEW y
  PROVE  AppendSuffix(m, x) = AppendSuffix(n, y) <=> m = n /\ x = y
<1> DEFINE Q == P \cup {x, y}
<1>1. m \in Seq(Q) /\ n \in Seq(Q)
  BY SeqMonotonic
<1>2. x \in Q /\ y \in Q
  OBVIOUS
<1> QED
  BY ONLY <1>1, <1>2, AppendInjective DEF AppendSuffix

LEMMA VersionPathOf ==
  ASSUME NEW d, NEW n
  PROVE  VersionPath([dir |-> d, name |-> n]) = [dir |-> d, name |-> WithSuffix(n, "ver")]
BY DEF VersionPath

\* The suffix that was appended is the one that is replaced.
LEMMA Replaced ==
  ASSUME NEW P, NEW n \in Seq(P) \ {<<>>}, NEW x, NEW y
  PROVE  WithSuffix(AppendSuffix(n, x), y) = AppendSuffix(n, y)
<1> DEFINE Q == P \cup {x, y}
           a == Append(n, x)
           b == Append(n, y)
           l == Len(n) + 1
<1>1. n \in Seq(Q) /\ x \in Q /\ y \in Q
  BY SeqMonotonic
<1>2. Len(n) \in Nat /\ Len(n) > 0
  BY EmptySeq
<1>3. /\ a \in Seq(Q) /\ Len(a) = l /\ \A i \in 1 .. Len(n) : a[i] = n[i]
      /\ b \in Seq(Q) /\ Len(b) = l /\ \A i \in 1 .. Len(n) : b[i] = n[i]
      /\ b[l] = y
  BY <1>1, AppendProperties
<1> HIDE DEF a, b, Q
<1>4. /\ [a EXCEPT ![l] = y] \in Seq(Q) /\ Len([a EXCEPT ![l] = y]) = l
      /\ \A i \in 1 .. l : [a EXCEPT ![l] = y][i] = IF i = l THEN y ELSE a[i]
  BY <1>1, <1>2, <1>3, ExceptSeq
<1>5. \A i \in 1 .. l : [a EXCEPT ![l] = y][i] = b[i]
  BY <1>2, <1>3, <1>4
<1>6. [a EXCEPT ![l] = y] = b
  BY ONLY <1>3, <1>4, <1>5, SeqEqual
<1>7. WithSuffix(a, y) = [a EXCEPT ![l] = y]
  BY <1>2, <1>3 DEF WithSuffix
<1> QED
  BY <1>6, <1>7 DEF AppendSuffix, a, b

-----------------------------------------------------------------------------
(* debsign.                                                                *)

\* Its jobs, of the files that files.json lists; no file is listed twice.
PackageFileJobs(listed) ==
  [j \in Jobs |-> PackageFileJob(listed[j].kind, listed[j].file, listed[j].signatures)]

ListedOnce(listed) ==
  /\ \E P : \A j \in Jobs : listed[j].file.name \in Seq(P) \ {<<>>}
  /\ \A i, j \in Jobs :
       /\ listed[i].signatures = listed[j].signatures
       /\ listed[i].file.name = listed[j].file.name
       => i = j

LEMMA PackageFilesDistinct ==
  ASSUME NEW listed, NEW cfg, ListedOnce(listed), Runs(PackageFileJobs(listed), cfg)
  PROVE  DistinctOutputs
<1> DEFINE jobs == PackageFileJobs(listed)
           Name(j) == listed[j].file.name
           Dir(j) == listed[j].signatures
<1>1. PICK P : \A j \in Jobs : Name(j) \in Seq(P) \ {<<>>}
  BY DEF ListedOnce
<1>2. \A j \in Jobs :
        jobs[j].out = [dir |-> Dir(j), name |-> AppendSuffix(Name(j), "sig")]
  BY DEF PackageFileJobs, PackageFileJob
<1>3. ASSUME NEW j \in Jobs
      PROVE  VersionPath(jobs[j].out)
               = [dir |-> Dir(j), name |-> AppendSuffix(Name(j), "ver")]
  <2>1. Name(j) \in Seq(P) \ {<<>>}
    BY <1>1
  <2>2. WithSuffix(AppendSuffix(Name(j), "sig"), "ver") = AppendSuffix(Name(j), "ver")
    BY <2>1, Replaced
  <2>3. jobs[j].out = [dir |-> Dir(j), name |-> AppendSuffix(Name(j), "sig")]
    BY <1>2
  <2> QED
    BY ONLY <2>2, <2>3, VersionPathOf
<1>4. ASSUME NEW j \in Jobs
      PROVE  /\ jobs[j].out.dir = Dir(j)
             /\ jobs[j].out.name = AppendSuffix(Name(j), "sig")
             /\ VersionPath(jobs[j].out).dir = Dir(j)
             /\ VersionPath(jobs[j].out).name = AppendSuffix(Name(j), "ver")
  <2>1. jobs[j].out = [dir |-> Dir(j), name |-> AppendSuffix(Name(j), "sig")]
    BY <1>2
  <2>2. VersionPath(jobs[j].out)
          = [dir |-> Dir(j), name |-> AppendSuffix(Name(j), "ver")]
    BY <1>3
  <2> HIDE DEF jobs, Name, Dir
  <2> QED
    BY ONLY <2>1, <2>2
<1> HIDE DEF jobs
<1>5. ASSUME NEW i \in Jobs, NEW j \in Jobs, i # j
      PROVE  OutputsOf(jobs[i]) \cap OutputsOf(jobs[j]) = {}
  <2> SUFFICES ASSUME NEW o \in OutputsOf(jobs[i]) \cap OutputsOf(jobs[j])
               PROVE  FALSE
    OBVIOUS
  <2>1. Name(i) \in Seq(P) /\ Name(j) \in Seq(P)
    BY <1>1
  <2>2. PICK x \in {"sig", "ver"}, y \in {"sig", "ver"} :
          AppendSuffix(Name(i), x) = AppendSuffix(Name(j), y)
    BY <1>4 DEF OutputsOf
  <2>3. Name(i) = Name(j)
    BY <2>1, <2>2, Appended
  <2>4. Dir(i) = Dir(j)
    BY <1>4 DEF OutputsOf
  <2> QED
    BY <1>5, <2>3, <2>4 DEF ListedOnce
<1>6. \A j \in Jobs : VersionPath(jobs[j].out) # jobs[j].out
  <2>1. \A j \in Jobs : AppendSuffix(Name(j), "ver") # AppendSuffix(Name(j), "sig")
    BY <1>1, Appended
  <2> TAKE j \in Jobs
  <2>2. VersionPath(jobs[j].out).name # jobs[j].out.name
    BY <1>4, <2>1
  <2> QED
    BY <2>2
<1>7. Runs(jobs, cfg)
  BY DEF jobs
<1> QED
  BY <1>5, <1>6, <1>7, DistinctJobs

\* debsign that reports success has left for every file that files.json lists
\* the signature of that file, and for a trusted application its version:
\* appending the suffix keeps files apart that differ in theirs.
THEOREM DebsignKeepsOutputs ==
  ASSUME NEW listed, NEW cfg, ListedOnce(listed), Runs(PackageFileJobs(listed), cfg)
  PROVE  Spec => []OutputsKept
BY PackageFilesDistinct, OutputsAreKept

\* Whatever fails or is killed in debsign, no version file of a trusted
\* application is there without the signature it belongs to.
THEOREM DebsignInOrder ==
  ASSUME NEW listed, NEW cfg, ListedOnce(listed), Runs(PackageFileJobs(listed), cfg)
  PROVE  Spec => []OutputsInOrder
BY PackageFilesDistinct, OutputsComeInOrder

\* The certificates that a configuration lets debsign ask for have cache keys
\* of their own: no two sections ask for one object in two ways, and no two
\* tokens have objects of the same names.
CertificatesApart(cfg) ==
  LET Uris == {ToCert(cfg["uefi"].key), ToCert(cfg["kernel_modules"].key),
               ToPublic(cfg["optee_ta"].key)}
              \cup {cfg["hab4"].srk[i] : i \in 1 .. Len(cfg["hab4"].srk)}
  IN  \A u, v \in Uris : CacheKey(u) = CacheKey(v) => u = v

\* Under such a configuration every signer of debsign gets the certificate it
\* asked for, whichever of the files is signed first.
THEOREM DebsignRightCertificate ==
  ASSUME NEW listed, NEW cfg, CertificatesApart(cfg),
         \A j \in Jobs : listed[j].kind \in CommandSigners.debsign,
         Runs(PackageFileJobs(listed), cfg)
  PROVE  Spec => []RequestedObjectUsed
<1> DEFINE jobs == PackageFileJobs(listed)
           Uris == {ToCert(cfg["uefi"].key), ToCert(cfg["kernel_modules"].key),
                    ToPublic(cfg["optee_ta"].key)}
                   \cup {cfg["hab4"].srk[i] : i \in 1 .. Len(cfg["hab4"].srk)}
<1>1. \A j \in Jobs : jobs[j].kind \in CommandSigners.debsign
  BY DEF PackageFileJobs, PackageFileJob
<1> HIDE DEF jobs
<1>2. \A j \in Jobs : Asked(jobs[j], cfg) \subseteq Uris
  BY <1>1 DEF Asked, CommandSigners, Section
<1>3. KeysIdentifyObjects
  BY <1>2, ApartJobs DEF CertificatesApart, jobs
<1> QED
  BY <1>3, RightCertificate

-----------------------------------------------------------------------------
(* efibinarysign, uefivarsign, swusign.                                    *)

\* efibinarysign of binaries of different names leaves each of them signed.
THEOREM EfiKeepsOutputs ==
  ASSUME NEW binaries, NEW output, NEW detached, NEW cfg, NEW P,
         \A j \in Jobs : binaries[j].name \in Seq(P),
         \A i, j \in Jobs : binaries[i].name = binaries[j].name => i = j,
         Runs([j \in Jobs |-> EfiJob(binaries[j], output, detached)], cfg)
  PROVE  Spec => []OutputsKept
<1> DEFINE jobs == [j \in Jobs |-> EfiJob(binaries[j], output, detached)]
<1>1. \A j \in Jobs :
        /\ jobs[j].kind = "uefi"
        /\ jobs[j].out.name = IF detached THEN AppendSuffix(binaries[j].name, "sig")
                                          ELSE binaries[j].name
  BY DEF EfiJob, EfiOutput
<1>2. Runs(jobs, cfg)
  OBVIOUS
<1> HIDE DEF jobs
<1>3. \A i, j \in Jobs : jobs[i].out = jobs[j].out => i = j
  BY <1>1, Appended
<1>4. DistinctOutputs
  BY <1>1, <1>2, <1>3, PlainJobs
<1> QED
  BY <1>4, OutputsAreKept

\* uefivarsign of variables of different names without a dot leaves each of
\* them signed.  With dots it need not: that is the finding of its run.
THEOREM VariablesKeepOutputs ==
  ASSUME NEW variables, NEW blobs, NEW output, NEW cfg, NEW P,
         \A j \in Jobs : variables[j] \in Seq(P) /\ Len(variables[j]) = 1,
         \A i, j \in Jobs : variables[i] = variables[j] => i = j,
         Runs([j \in Jobs |-> VariableJob(variables[j], blobs[j], output)], cfg)
  PROVE  Spec => []OutputsKept
<1> DEFINE jobs == [j \in Jobs |-> VariableJob(variables[j], blobs[j], output)]
<1>1. \A j \in Jobs :
        /\ jobs[j].kind = "uefivar"
        /\ jobs[j].out.name = AppendSuffix(variables[j], "auth")
  <2> TAKE j \in Jobs
  <2>0. Len(variables[j]) = 1
    BY Zenon
  <2>1. ~(Len(variables[j]) > 1)
    BY ONLY <2>0
  <2>2. WithSuffix(variables[j], "auth") = AppendSuffix(variables[j], "auth")
    BY ONLY <2>1 DEF WithSuffix, AppendSuffix
  <2> QED
    BY <2>2 DEF VariableJob, VariableOutput
<1>2. Runs(jobs, cfg)
  OBVIOUS
<1> HIDE DEF jobs
<1>3. \A i, j \in Jobs : jobs[i].out = jobs[j].out => i = j
  BY <1>1, Appended
<1>4. DistinctOutputs
  BY <1>1, <1>2, <1>3, PlainJobs
<1> QED
  BY <1>4, OutputsAreKept

\* These commands have one key, and no job of theirs can get the certificate of
\* another.
THEOREM OneSignerRightCertificate ==
  ASSUME NEW kind \in {"uefi", "uefivar", "swu"}, NEW jobs, NEW cfg,
         \A j \in Jobs : jobs[j].kind = kind, Runs(jobs, cfg)
  PROVE  Spec => []RequestedObjectUsed
<1>1. \A j \in Jobs : Asked(jobs[j], cfg) = {ToCert(cfg[Section[kind]].key)}
  BY DEF Asked
<1>2. KeysIdentifyObjects
  BY <1>1, ApartJobs
<1> QED
  BY <1>2, RightCertificate

-----------------------------------------------------------------------------
(* Preflight.                                                              *)

\* Nothing has been signed, written, or exported for this run.
NothingDone ==
  /\ signed = {}
  /\ \A p \in OutPaths : out[p] = Nobody
  /\ \A f \in Fetches \ Warm : files[f] = "absent"

\* A job whose check cannot pass: its signer was not created by this command; the
\* keys or the index of hab4 or the hash of a raw signature are not configured; a
\* tool is missing; or it would be signed in place where that is refused, or where
\* nobody can be asked.  A key without a URI is not among the reasons.
Refused(task, command, cfg, env) ==
  \/ task.kind \notin Registry(command, cfg)
  \/ task.kind = "hab4" /\ ~cfg.hab4.ready
  \/ task.kind = "optee" /\ ~cfg.optee_ta.ready
  \/ task.kind \in {"rpi", "eeprom"} /\ ~cfg.rpi.ready
  \/ ~(RequiredTools[task.kind] \subseteq env.tools)
  \/ InPlace(task) /\ task.kind = "swu"
  \/ InPlace(task) /\ task.kind = "uefi" /\ ~env.force /\ ~env.interactive

\* One job that is refused keeps the command from doing anything at all, whatever
\* its place among the jobs.
THEOREM RefusedDoesNothing ==
  ASSUME NEW jobs, NEW command, NEW cfg, NEW env,
         Verdict = [j \in Jobs |-> Verdicts(jobs[j], command, cfg, env)],
         NEW j \in Jobs, Refused(jobs[j], command, cfg, env)
  PROVE  Spec => []NothingDone
<1>1. Verdict[j] \subseteq {FALSE}
  <2>1. Verdict[j] = Verdicts(jobs[j], command, cfg, env)
    OBVIOUS
  <2> DEFINE task == jobs[j]
  <2> HIDE DEF task
  <2>2. Refused(task, command, cfg, env) => Verdicts(task, command, cfg, env) = {FALSE}
    <3>1. ASSUME task.kind \in SectionChecked, ~cfg[Section[task.kind]].ready
          PROVE  Verdicts(task, command, cfg, env) = {FALSE}
      BY <3>1 DEF Verdicts
    <3>2. /\ task.kind = "hab4" /\ ~cfg.hab4.ready => ~cfg[Section[task.kind]].ready
          /\ task.kind = "optee" /\ ~cfg.optee_ta.ready => ~cfg[Section[task.kind]].ready
          /\ task.kind \in {"rpi", "eeprom"} /\ ~cfg.rpi.ready
               => ~cfg[Section[task.kind]].ready
      BY DEF Section
    <3>3. CASE InPlace(task) /\ task.kind = "swu"
      BY <3>3 DEF Verdicts, InPlaceVerdicts
    <3>4. CASE InPlace(task) /\ task.kind = "uefi" /\ ~env.force /\ ~env.interactive
      BY <3>4 DEF Verdicts, InPlaceVerdicts, ConfirmOverwrite
    <3>5. CASE \/ task.kind \notin Registry(command, cfg)
               \/ ~(RequiredTools[task.kind] \subseteq env.tools)
      BY <3>5 DEF Verdicts
    <3> QED
      BY <3>1, <3>2, <3>3, <3>4, <3>5 DEF Refused, SectionChecked
  <2> QED
    BY <2>1, <2>2 DEF task
<1>2. j \in Int /\ 1 <= j /\ j <= NJobs
  BY CountsAssumption DEF Jobs
<1>3. Init => checked < j
  BY <1>2 DEF Init
<1>4. IndInv /\ checked < j /\ [Next]_vars => (checked < j)'
  <2> SUFFICES ASSUME IndInv, checked < j, [Next]_vars PROVE checked' < j
    OBVIOUS
  <2>1. CASE Check
    <3>1. PICK ok \in Verdict[checked + 1] :
            IF ok THEN checked' = checked + 1 ELSE UNCHANGED checked
      BY <2>1 DEF Check
    <3>2. checked \in Nat
      BY CountsAssumption DEF IndInv, TypeOK
    <3>3. ~(checked + 1 = j /\ ok)
      BY <1>1, <3>1
    <3> QED
      BY <1>2, <3>1, <3>2, <3>3
  <2>2. CASE UNCHANGED checked
    BY <2>2
  <2> QED
    BY <2>1, <2>2
    DEF Next, Main, Start, Collect, Cleanup, Interrupt, Worker, Proceed, Take,
        NextJob, ReportOk, JobDone, UseTool, WriteOut, StepFails, Acquire, Hit,
        Miss, Export, Store, ExportFails, WorkerDies, Ended, vars, mainVars
<1>5. IndInv /\ checked < j => NothingDone
  <2>1. IndInv /\ checked < j => checked < NJobs
    BY <1>2, CountsAssumption DEF IndInv, TypeOK
  <2> QED
    BY <2>1 DEF IndInv, MainInv, NothingBeforePreflight, NothingDone
<1> QED
  BY <1>3, <1>4, <1>5, Invariance, PTL DEF Spec
=============================================================================
