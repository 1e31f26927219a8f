------------------------------ MODULE DebSign -------------------------------
(***************************************************************************)
(* `opensighub debsign': the templates on the command line are taken one   *)
(* after the other.  Each is downloaded and extracted, then the packages   *)
(* it lists, unless an earlier template has brought them; its files are    *)
(* signed by the pool; and the source tree, with the signatures in it, is  *)
(* moved to the output directory, where an older one is removed first.     *)
(*                                                                         *)
(* One process after another works on one output directory.  Each has its  *)
(* own directory for downloads, so that only `dest' outlives it.  The pool *)
(* is a SigningRun, which SigningPool implements.                          *)
(***************************************************************************)
EXTENDS Naturals, Sequences, FiniteSets

CONSTANTS
  Template, Package, Version, Source, File,
  None,          \* no version in files.json; no template
  Absent,        \* there is no such directory
  Partial,       \* a directory that is being copied or removed
  Asked,         \* --version
  SourceOf,      \* the source package in each template's debian/changelog
  FilesJson,     \* each template's files.json
  Command,       \* the command lines: [templates, force, interactive]
  InitialDest,   \* what the output directory holds at first
  MaxCommands    \* bounds Invoke

FilesJsonRecord == [version : [Package -> Version \cup {None}],
                    packages : SUBSET Package, files : SUBSET (Package \X File)]

CommandRecord == [templates : Seq(Template) \ {<<>>}, force : BOOLEAN,
                  interactive : BOOLEAN]

\* A signature is named by its package and file, with the version signed.
Signature == Package \X File \X Version
Tree == [template : Template \cup {None}, signatures : SUBSET Signature]

ASSUME NoneAssumption == None \notin Version \cup Template \cup Source
ASSUME PathsAssumption ==
  Absent \notin Tree /\ Partial \notin Tree /\ Absent # Partial
ASSUME InputsAssumption ==
  /\ Asked \in Version /\ SourceOf \in [Template -> Source]
  /\ FilesJson \in [Template -> FilesJsonRecord]
  /\ \A t \in Template, f \in Package \X File :
       f \in FilesJson[t].files => f[1] \in FilesJson[t].packages
  /\ Command # {} /\ Command \subseteq CommandRecord
  /\ MaxCommands \in Nat

\* What an earlier debsign, or someone else, has put there is not looked at.
Earlier == [template |-> None, signatures |-> {}]
ASSUME DestAssumption == InitialDest \in [Source -> {Earlier, Absent}]

VARIABLES
  pc, cmd, at,     \* the process, its command, the template it is at
  unpacked,        \* extraction directories: <<package or template, version>>
  dirs,            \* dirs_by_pkgname: the version each package was fetched in
  phase, signed,   \* the run of the signing pool for this template
  dest,            \* the source packages in the output directory
  commands         \* how many there have been

runVars == <<phase, signed>>
pool == <<unpacked, dirs>>
vars == <<pc, cmd, at, pool, runVars, dest, commands>>

Run(J) == INSTANCE SigningRun WITH Job <- J

Ended == {"idle", "done", "stopped"}
PcStates == Ended \cup {"chdist", "template", "packages", "signing", "prepare",
                        "remove", "move", "copy", "build"}

Current  == cmd.templates[at]
Target   == SourceOf[Current]
Goto(where) == pc' = where

TypeOK ==
  /\ pc \in PcStates /\ cmd \in Command
  /\ at \in 1 .. Len(cmd.templates)
  /\ unpacked \subseteq (Template \cup Package) \X Version
  /\ dirs \in [Package -> Version \cup {None}]
  /\ phase \in {"checking", "signing", "ok", "failed"}
  /\ signed \subseteq Package \X File
  /\ dest \in [Source -> Tree \cup {Absent, Partial}]
  /\ commands \in Nat

Init ==
  /\ pc = "idle" /\ cmd = (CHOOSE c \in Command : TRUE) /\ at = 1
  /\ unpacked = {} /\ dirs = [p \in Package |-> None]
  /\ phase = "checking" /\ signed = {}
  /\ dest = InitialDest
  /\ commands = 0

-----------------------------------------------------------------------------
\* A new process has a new temporary directory.
Invoke ==
  /\ pc \in Ended /\ commands < MaxCommands
  /\ cmd' \in Command /\ at' = 1
  /\ Goto("chdist")
  /\ unpacked' = {} /\ dirs' = [p \in Package |-> None]
  /\ phase' = "checking" /\ signed' = {}
  /\ commands' = commands + 1
  /\ UNCHANGED dest

UpdateChdist ==
  /\ pc = "chdist"
  /\ Goto("template")
  /\ UNCHANGED <<cmd, at, pool, runVars, dest, commands>>

-----------------------------------------------------------------------------
(* Download and extraction.  makedirs() raises where the directory exists. *)

Unpack(name, version) ==
  /\ <<name, version>> \notin unpacked
  /\ unpacked' = unpacked \cup {<<name, version>>}

InstallTemplate ==
  /\ pc = "template"
  /\ Unpack(Current, Asked)
  /\ Goto("packages")
  /\ UNCHANGED <<cmd, at, dirs, runVars, dest, commands>>

Wanted(t, p) ==
  IF FilesJson[t].version[p] # None THEN FilesJson[t].version[p] ELSE Asked

FetchAsked ==                       \* fault: files.json's version is ignored
  /\ pc = "packages"
  /\ \E p \in FilesJson[Current].packages :
       /\ dirs[p] = None
       /\ Unpack(p, Asked)
       /\ dirs' = [dirs EXCEPT ![p] = Asked]
  /\ UNCHANGED <<pc, cmd, at, runVars, dest, commands>>

FetchPackage ==
  /\ pc = "packages"
  /\ \E p \in FilesJson[Current].packages :
       /\ dirs[p] = None
       /\ Unpack(p, Wanted(Current, p))
       /\ dirs' = [dirs EXCEPT ![p] = Wanted(Current, p)]
  /\ UNCHANGED <<pc, cmd, at, runVars, dest, commands>>

PrepareFirst ==                     \* fault: the destination is cleared first
  /\ pc = "packages"
  /\ \A p \in FilesJson[Current].packages : dirs[p] # None
  /\ phase' = "checking" /\ signed' = {}
  /\ Goto("prepare")
  /\ UNCHANGED <<cmd, at, pool, dest, commands>>

\* A job for each file; the pool is called with all of them.
MakeJobs ==
  /\ pc = "packages"
  /\ \A p \in FilesJson[Current].packages : dirs[p] # None
  /\ phase' = "checking" /\ signed' = {}
  /\ Goto("signing")
  /\ UNCHANGED <<cmd, at, pool, dest, commands>>

-----------------------------------------------------------------------------
Sign ==
  /\ pc = "signing"
  /\ \E t \in Template : t = Current /\ Run(FilesJson[t].files)!Next
  /\ UNCHANGED <<pc, cmd, at, pool, dest, commands>>

SignReturnsEarly ==                 \* fault: the pool's verdict is not awaited
  /\ pc = "signing" /\ phase = "signing"
  /\ Goto("prepare")
  /\ UNCHANGED <<cmd, at, pool, runVars, dest, commands>>

\* sign() has returned; dpkg-parsechangelog names the source package.
SignReturns ==
  /\ pc = "signing" /\ phase = "ok"
  /\ Goto("prepare")
  /\ UNCHANGED <<cmd, at, pool, runVars, dest, commands>>

-----------------------------------------------------------------------------
(* The destination.                                                        *)

PrepareKeeping ==                   \* fault: the old tree is not removed
  /\ pc = "prepare"
  /\ dest[Target] # Absent => cmd.force \/ cmd.interactive
  /\ Goto("move")
  /\ UNCHANGED <<cmd, at, pool, runVars, dest, commands>>

\* What is there is removed once the user, or -y, has agreed.
Prepare ==
  /\ pc = "prepare"
  /\ IF dest[Target] = Absent THEN Goto("move")
                              ELSE /\ cmd.force \/ cmd.interactive
                                   /\ Goto("remove")
  /\ UNCHANGED <<cmd, at, pool, runVars, dest, commands>>

\* rmtree takes file after file.
Remove ==
  /\ pc = "remove"
  /\ \/ dest' = [dest EXCEPT ![Target] = Partial] /\ UNCHANGED pc
     \/ dest' = [dest EXCEPT ![Target] = Absent] /\ Goto("move")
  /\ UNCHANGED <<cmd, at, pool, runVars, commands>>

NewTree == [template |-> Current,
            signatures |-> {<<f[1], f[2], dirs[f[1]]>> : f \in signed}]

\* shutil.move renames, or copies from file system to file system.
Move ==
  /\ \/ pc = "move" /\ Goto("copy") /\ dest' = [dest EXCEPT ![Target] = Partial]
     \/ /\ pc \in {"move", "copy"}
        /\ Goto("build")
        /\ dest' = [dest EXCEPT ![Target] = NewTree]
  /\ UNCHANGED <<cmd, at, pool, runVars, commands>>

NextPastEnd ==                      \* fault: one template too many
  /\ pc = "build"
  /\ IF at <= Len(cmd.templates) THEN at' = at + 1 /\ Goto("chdist")
                                 ELSE Goto("done") /\ UNCHANGED at
  /\ UNCHANGED <<cmd, pool, runVars, dest, commands>>

\* sbuild, with --build, changes no source tree.
NextTemplate ==
  /\ pc = "build"
  /\ IF at < Len(cmd.templates) THEN at' = at + 1 /\ Goto("chdist")
                                ELSE Goto("done") /\ UNCHANGED at
  /\ UNCHANGED <<cmd, pool, runVars, dest, commands>>

\* A tool fails, the pool raises, a directory exists, the user says no or
\* presses Ctrl-C, or the process is killed: nothing is undone.
Stop ==
  /\ pc \notin Ended
  /\ Goto("stopped")
  /\ UNCHANGED <<cmd, at, pool, runVars, dest, commands>>

Next == \/ Invoke \/ UpdateChdist \/ InstallTemplate \/ FetchPackage \/ MakeJobs
        \/ Sign \/ SignReturns \/ Prepare \/ Remove \/ Move \/ NextTemplate
        \/ Stop

Spec == Init /\ [][Next]_vars

-----------------------------------------------------------------------------
(* What debsign must guarantee.                                            *)

FilesOf(tree) == {<<s[1], s[2]>> : s \in tree.signatures}

Whole(t) == /\ dest[SourceOf[t]] \in Tree
            /\ dest[SourceOf[t]].template = t
            /\ FilesOf(dest[SourceOf[t]]) = FilesJson[t].files

\* When the command reports success, each source package it was to make is in
\* the output directory, whole, with a signature for every file its template
\* lists -- whatever earlier commands left there when they were stopped.  Of
\* templates with one source package, the last stays.
Delivered ==
  pc = "done" => \A i \in 1 .. Len(cmd.templates) :
    \/ \E j \in i + 1 .. Len(cmd.templates) :
         SourceOf[cmd.templates[j]] = SourceOf[cmd.templates[i]]
    \/ Whole(cmd.templates[i])

\* An existing result is touched only when all files of the template that
\* replaces it have been signed: a refused, failed or interrupted signing
\* leaves the output directory as it was.
UntouchedUntilSigned ==
  [][\A s \in Source : dest'[s] # dest[s] =>
       /\ s = Target /\ phase = "ok"
       /\ signed = FilesJson[Current].files]_vars

\* A tree is moved to a place that is free: shutil.move into a directory that
\* exists would put it below.
MoveTargetFree == pc = "move" => dest[Target] = Absent

\* A signature is of the package version that its template names, or that the
\* command asked for.  It holds where the templates of a command agree on the
\* versions of the packages they share.
SignedVersion ==
  \A s \in Source : dest[s] \in Tree =>
    \A g \in dest[s].signatures : g[3] = Wanted(dest[s].template, g[1])

VersionsAgree ==
  \A t, u \in Template :
    \A p \in FilesJson[t].packages \cap FilesJson[u].packages :
      Wanted(t, p) = Wanted(u, p)

\* debsign does with the output directory what its user relies on: a whole tree,
\* of the source package whose place it is, with a signature of one version of
\* each package for every file, is put to a place that this command found or made
\* free, and nothing else is done to a place but to clear it.
OneVersion(tree) ==
  \A g, h \in tree.signatures : g[1] = h[1] => g[3] = h[3]

WholeTrees ==
  [s \in Source |-> {tree \in Tree : /\ tree.template \in Template
                                    /\ SourceOf[tree.template] = s
                                    /\ FilesOf(tree) = FilesJson[tree.template].files
                                    /\ OneVersion(tree)}]

place == IF pc \in {"move", "copy"} THEN Target ELSE None

Directory == INSTANCE OutputDirectory WITH Results <- WholeTrees, NoPlace <- None

ImplementsDirectory == Directory!Spec

-----------------------------------------------------------------------------
(* Why they hold: the inductive invariant.                                 *)

\* What has been established at each step of a template.
StepInv ==
  /\ pc = "signing" =>
       /\ signed \subseteq FilesJson[Current].files
       /\ phase = "ok" => signed = FilesJson[Current].files
  /\ pc \in {"prepare", "remove", "move", "copy"} =>
       phase = "ok" /\ signed = FilesJson[Current].files
  /\ pc \in {"signing", "prepare", "remove", "move", "copy"} =>
       \A p \in FilesJson[Current].packages : dirs[p] # None
  /\ MoveTargetFree
  /\ pc = "remove" => dest[Target] # Absent

\* Each package was fetched for some template, in the version it names.
VersionInv ==
  VersionsAgree =>
    /\ \A p \in Package : dirs[p] # None =>
         \E t \in Template : /\ p \in FilesJson[t].packages
                            /\ dirs[p] = Wanted(t, p)
    /\ SignedVersion

\* The templates behind the current one have been delivered, but for one whose
\* destination is just being replaced.
Behind == IF pc \in {"build", "done"} THEN at ELSE at - 1
DeliveryInv ==
  /\ pc = "done" => at = Len(cmd.templates)
  /\ pc \notin {"idle", "stopped"} => \A i \in 1 .. Behind :
       \/ \E j \in i + 1 .. Behind :
            SourceOf[cmd.templates[j]] = SourceOf[cmd.templates[i]]
       \/ /\ pc \in {"remove", "move", "copy"}
          /\ SourceOf[cmd.templates[i]] = Target
       \/ Whole(cmd.templates[i])

IndInv == TypeOK /\ StepInv /\ VersionInv /\ DeliveryInv
=============================================================================
