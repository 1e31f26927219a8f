------------------------------ MODULE Signers ------------------------------
(***************************************************************************)
(* What one invocation of opensighub asks of the signing pool, as data:    *)
(* the jobs the command line yields, the verdict of each job's preflight   *)
(* check, and the program each signer runs for a job -- which certificates *)
(* it takes from the certificate cache and which files its tools leave.    *)
(*                                                                         *)
(* A path is a directory and a name; a name is the sequence of its dot     *)
(* separated parts (`db.1' is <<"db", "1">>), because two commands compute *)
(* output names from suffixes.  Directories are already resolved, so equal *)
(* paths are equal files.                                                  *)
(***************************************************************************)
EXTENDS Naturals, Sequences

NoUri  == [token |-> "", id |-> "", object |-> "", type |-> ""]
NoPath == [dir |-> "", name |-> <<>>]

ToCert(uri)   == [uri EXCEPT !.type = "cert"]
ToPublic(uri) == [uri EXCEPT !.type = "public"]

-----------------------------------------------------------------------------
(* Names and the output paths of the commands.                             *)

AppendSuffix(name, suffix) == Append(name, suffix)

\* pathlib: replaces what follows the last dot, adds a suffix where none is.
WithSuffix(name, suffix) ==
  IF Len(name) > 1 THEN [name EXCEPT ![Len(name)] = suffix]
                   ELSE Append(name, suffix)

SwuOutput(swu, output) == [dir |-> output, name |-> swu.name]

EfiOutput(binary, output, detached) ==
  [dir |-> output,
   name |-> IF detached THEN AppendSuffix(binary.name, "sig") ELSE binary.name]

VariableOutput(variable, output) ==
  [dir |-> output, name |-> WithSuffix(variable, "auth")]

SwuJob(swu, output) ==
  [kind |-> "swu", artifact |-> swu, out |-> SwuOutput(swu, output),
   detached |-> TRUE]

EfiJob(binary, output, detached) ==
  [kind |-> "uefi", artifact |-> binary,
   out |-> EfiOutput(binary, output, detached), detached |-> detached]

VariableJob(variable, blob, output) ==
  [kind |-> "uefivar", artifact |-> blob,
   out |-> VariableOutput(variable, output), detached |-> TRUE]

PackageFileJobReplacing(kind, file, signatures) ==  \* fault: with_suffix(".sig")
  [kind |-> kind, artifact |-> file,
   out |-> [dir |-> signatures, name |-> WithSuffix(file.name, "sig")],
   detached |-> TRUE]

\* debsign: a signature beside the template, at the file's own path + .sig.
PackageFileJob(kind, file, signatures) ==
  [kind |-> kind, artifact |-> file,
   out |-> [dir |-> signatures, name |-> AppendSuffix(file.name, "sig")],
   detached |-> TRUE]

-----------------------------------------------------------------------------
(* The signers a command creates, and the section each one is built from.  *)

Section ==
  [uefi |-> "uefi", uefivar |-> "uefi", swu |-> "swu",
   module |-> "kernel_modules", hab4 |-> "hab4", optee |-> "optee_ta",
   rpi |-> "rpi", eeprom |-> "rpi"]

CommandSigners ==
  [debsign       |-> {"uefi", "module", "hab4", "optee", "rpi", "eeprom"},
   uefivarsign   |-> {"uefivar"},
   swusign       |-> {"swu"},
   efibinarysign |-> {"uefi"}]

Registry(command, cfg) ==
  {kind \in CommandSigners[command] : cfg[Section[kind]].on}

-----------------------------------------------------------------------------
(* Preflight: the set of verdicts a job's check can come to.  It has two   *)
(* members where the user is asked.                                        *)

ConfirmOverwrite(env) ==
  IF env.force THEN {TRUE} ELSE IF env.interactive THEN BOOLEAN ELSE {FALSE}

RequiredTools ==
  [uefi |-> {"sbsign"}, uefivar |-> {"sbvarsign"}, swu |-> {"swugenerator"},
   module |-> {"sign-file"}, hab4 |-> {"srktool", "cst"}, rpi |-> {"openssl"},
   optee |-> {"openssl", "sign_encrypt.py"},
   eeprom |-> {"openssl", "rpi-sign-bootcode"}]

\* Whose section preflight looks at: the keys and the SRK index of hab4, the hash
\* of a raw signature.  A key without a URI is no reason to refuse any job; sign()
\* asserts that it has one when the job is run.
SectionChecked == {"hab4", "optee", "rpi", "eeprom"}

InPlace(job) == job.artifact = job.out

InPlaceVerdicts(job, env) ==
  CASE ~InPlace(job)      -> {TRUE}
    [] job.kind = "swu"   -> {FALSE}
    [] job.kind = "uefi"  -> ConfirmOverwrite(env)
    [] OTHER              -> {TRUE}

Verdicts(job, command, cfg, env) ==
  LET checked == /\ job.kind \in Registry(command, cfg)
                 /\ job.kind \in SectionChecked => cfg[Section[job.kind]].ready
                 /\ RequiredTools[job.kind] \subseteq env.tools
  IN  IF checked THEN InPlaceVerdicts(job, env) ELSE {FALSE}

-----------------------------------------------------------------------------
(* Programs.  `fetch' takes a certificate from the cache, `tool' runs a    *)
(* tool on temporary files, `write' leaves a complete file at a path.      *)
(* They are of keys with a URI: without one an assertion ends the job, as  *)
(* the failure of a step does.                                             *)

Fetch(uri)  == [op |-> "fetch", uri |-> uri, path |-> NoPath]
Tool        == [op |-> "tool", uri |-> NoUri, path |-> NoPath]
Write(path) == [op |-> "write", uri |-> NoUri, path |-> path]

\* sbsign, sbvarsign, swugenerator and sign-file write the output themselves.
CertProgram(job, sec) == << Fetch(ToCert(sec.key)), Write(job.out) >>

\* sign-file -d signs a copy; the signature is moved to its place afterwards.
ModuleProgram(job, sec) ==
  IF job.detached
  THEN << Fetch(ToCert(sec.key)), Tool, Write(job.out) >>
  ELSE CertProgram(job, sec)

\* One certificate per SRK, as configured, for srktool; then cst.
Hab4Program(job, sec) ==
  [i \in 1 .. Len(sec.srk) |-> Fetch(sec.srk[i])] \o << Tool, Write(job.out) >>

VersionPath(path) == [path EXCEPT !.name = WithSuffix(path.name, "ver")]

OpteeProgram(job, sec) ==
  << Fetch(ToPublic(sec.key)), Tool, Tool, Write(job.out),
     Write(VersionPath(job.out)) >>

RpiProgram(job) == << Tool, Tool, Write(job.out) >>

EepromProgram(job) == << Tool, Tool, Write(job.out) >>

Program(job, cfg) ==
  LET sec == cfg[Section[job.kind]]
  IN  CASE job.kind \in {"uefi", "uefivar", "swu"} -> CertProgram(job, sec)
        [] job.kind = "module" -> ModuleProgram(job, sec)
        [] job.kind = "hab4"   -> Hab4Program(job, sec)
        [] job.kind = "optee"  -> OpteeProgram(job, sec)
        [] job.kind = "rpi"    -> RpiProgram(job)
        [] job.kind = "eeprom" -> EepromProgram(job)
=============================================================================
