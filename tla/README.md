# Verification of opensighub

TLA+ models of [opensighub](../src/README.md), the checks TLC makes on them and
the theorems TLAPS proves about them. File names without a directory are under
`src/opensighub/`.

opensighub signs artifacts for secure boot with keys that live in a PKCS#11
token. It does no cryptography of its own: it reads a configuration, decides
which tool signs which file with which key and certificate, runs the tools in a
process pool, and puts the results in place. What can go wrong is therefore not
arithmetic but order, sharing and failure: which process exports a certificate,
what is left when a tool fails half-way, which file is overwritten, whether the
configuration still says what is on the token.

## The system

| component | state | operations | interacts with |
|---|---|---|---|
| **CLI** (`cli.py`) | the parsed command | computes jobs and output paths, creates the signers of the configured sections, runs the command, maps errors to an exit status | everything below |
| **Key configuration** (`config.py`) | `config.yaml`: signing keys, sections, UEFI variables, archives | load with validation, add / assign / remove a key, save the whole file | read by all commands, written by setup commands |
| **Signers and jobs** (`signers.py`) | none of their own | `preflight` and `sign` of eight signers | certificate cache, signing tools, output files |
| **Signing pool** (`signers.py`) | task queue and workers of `multiprocessing.Pool` | check every job, then `map` the jobs over the workers | signers, in worker processes |
| **Certificate cache** (`util.py`) | a dict and a lock in a manager process, a directory of exported files | look up, export with `p11tool`, store | shared by all workers of a command |
| **debsign** (`debian.py`) | chdist environments, downloaded and extracted packages, the template being processed, destination directories | download, extract, read `files.json`, make jobs, sign, move, build | apt, dpkg, the signing pool |
| **Key setup** (`setup.py`, `util.py`) | objects on the token | `genkey`, `delkey`, `importcert`, `csr`, `listkeys` | the token through p11-kit and openssl, `config.yaml` |
| **Local token** (`setup.py`) | SoftHSM configuration, PIN file, token, the first `config.yaml` | `setup softhsm`; setting `SOFTHSM2_CONF` in every command | the file system, softhsm2-util, all commands |
| **PKCS#11 URIs** (`util.py`) | none | parse, print, replace attributes | all users of keys |

What is hard in each, and what makes it correct:

* *Pool and cache.* Workers interleave at every step; each of them may fail,
  be interrupted or be killed, also inside the cache's critical section. Correct
  means: nothing is signed before everything has been checked; an object is
  exported once; no tool sees a missing or half-written certificate, or one of
  another object; success is reported only when every job has been signed and
  every output is its own job's; the call always returns, and the certificate
  directory outlives every worker.
* *Output paths.* They are computed from names by suffix rules that differ from
  command to command. Correct means that two jobs of one run never share a
  file, and that a job whose output is its own input is treated as documented.
* *Key setup.* Two stores, the token and the file, are changed in turn with no
  transaction around them. Correct means: whatever is cut short, by a failing
  tool or by a kill, the file still loads; private keys disappear only by
  `delkey`; repeating a command does not make a second key; a command that
  reports success has had its effect on both stores.
* *Local token.* Three files and a token are made one after the other, each only
  if it is absent, and the run may be stopped anywhere. Correct means: a repeated
  run makes what is missing, takes away nothing, never makes a second token, and
  no command that has found its configuration is without the token it speaks of.
* *Settings.* Loading normalises what a section says and saving writes it back,
  at every `genkey` and `delkey`. Correct means: a change of keys changes nothing
  else.
* *CSF templates.* One loop carries section, key, value and a continued line from
  line to line. Correct means: in the sections it knows, no certificate, SRK index
  or unprefixed file of the template reaches `cst`, and nothing else is changed.
* *debsign.* Caches keyed by name survive from one template to the next, and an
  old destination is removed before the new one is moved in.

## Modules

    Signers        pure: jobs, output paths, preflight verdicts, programs
    SigningRun     what a caller of SigningPool.sign() relies on (abstract)
    SigningPool    the pool, its workers, the certificate cache; implements
                   SigningRun
    SigningPoolProofs
    SignersProofs  what each signing command makes of the pool's promises
    MCSigningPool  composes Signers and SigningPool for TLC

    Csf            the loop that fills in a CSF template, and its reference
    FlattenProofs  what FlattenSeq of the community modules computes
    CsfProofs
    MCCsf

    KeyConfig      pure: config.yaml, loading it, and operations on it
    KeyStore       what genkey and delkey do to private keys and the names
                   the configuration has for them (abstract)
    KeySetup       genkey, delkey, importcert on the token and on config.yaml;
                   implements KeyStore
    KeySetupProofs
    MCKeySetup
    Setup          setup softhsm, composed with KeySetup, which it implements
    SetupProofs
    MCSetup

    OutputDirectory  what a user relies on in debsign's output directory
                   (abstract)
    DebSign        debsign: templates, packages, destinations; its pool is an
                   instance of SigningRun; implements OutputDirectory
    DebSignProofs
    MCDebSign

`PROJECT.json` maps each definition to the lines it stands for.

### Signers

An invocation is data to the pool: each job has a set of possible preflight
*verdicts* and a *program*. A path is a directory with a name, and a name is the
sequence of its dot-separated parts, because `uefivarsign` uses
`Path.with_suffix` (replacing the last part) where `efibinarysign` and `debsign`
append. `Verdicts` follows `SignerRegistry` and the `preflight` methods: the
signer must have been created by this command and its tools installed; hab4 must
have its keys and its SRK index and a raw signature its hash, the only two checks
of what a section says (`SectionChecked`); then the rule for signing in place, which
`swusign` refuses, `efibinarysign` asks about, and the others do not look at. It has
two members where the user is asked. A key without a URI is refused by nobody: it
fails an assertion of `sign` in a worker, when others may have been signed, and is to
the pool a job one of whose steps fails. `Program` lists, for each of the eight signers, the
certificates it fetches, the tools it runs on temporary files, and the outputs
it leaves, in the order of the code; a certificate that is configured as a file
and not as a URI never reaches the cache and is no step of a program.

### SigningPool

| code | model |
|---|---|
| `SigningPool.sign`: the loop over `preflight` | `Check`, one job at a time |
| `Pool(processes=...)`, `map` | `Start`, `Collect`; `ChunkSize` for how map cuts the job list |
| Ctrl-C during `map` | `Interrupt` |
| leaving the `with Pool` block | `Terminate`, a part of `Collect` and `Interrupt` |
| `CertCache.__exit__` | `Cleanup` |
| a worker's loop over the task queue, over the jobs of a chunk | `Take`, `NextJob`, `JobDone`, `ReportOk`, `Raise` |
| a signer running a tool or writing its output | `UseTool`, `WriteOut`, `StepFails` |
| `MultiprocessingCertCache.exported_from_pkcs11` | `Acquire`, `Hit`, `Miss`, `Export`, `Store`, `ExportFails` |
| a worker killed by the system | `WorkerDies` |

The behaviour of `multiprocessing.Pool` is CPython's and external to the
repository; it is modelled from what `SigningPool` relies on: a chunk's first
exception drops the rest of the chunk, `map` waits for all chunks and raises the
first exception, a killed worker is replaced and its chunk is never reported.
`out` records, for each path, the job whose complete output the file holds; a
tool that fails may or may not have truncated it. The model is of one `sign`
call. `debsign` makes one call for each template and the cache is passed on from
call to call: the constant `Warm` names the fetches of this call whose object an
earlier call of the command has exported, and `Init` starts with their entries
and files. An export that no job of this call asks for cannot matter to it and
has no name. With `Warm = {}` the call is the command's first.

### Csf

`Hab4Sign.csf_substitute` reads a template line by line. A line is what the two
regular expressions of the loop find in it (a section between brackets anywhere in
it, a key before an equals sign, the values after it), whether it is blank or a comment,
and whether a backslash continues it; `Join` is what the expressions find in two
lines put together, which is where the loop's corner cases are. The loop's
variables are the model's. A value is one word or a list of blocks, and says
whether it is below `auth_data_prefix`. `Raises` is the exception for a block
that has no absolute path; the job fails, and `SigningPool` has that step.

`Substituted` compares the loop's output with a reference that has no loop: the
statements of the template (`Starts`), each made whole (`Whole`), with what its
section and key call for (`Filled`) in its place. The reference reads lines as `cst`
does, and not as the loop: `IsHeader` and `Assigns` skip comments, and take a
statement for one whatever is in its value. The two readings agree where brackets are
those of headers (`HeadersOnly`), which is the condition of `OutputConfigured`; the
run `csf_brackets` shows that the code needs it. `Substituted` has the condition
`WellFormed`, which also leaves out templates whose last line is continued, or in
which a line that is not a statement stands alone. On those the loop drops or repeats
text, and the CSF format has no use for them. `OutputConfigured` is about the
statements of four sections that the code looks for; a `File` in any other section
(Install NOCAK, for one) is copied.

### KeyConfig and KeySetup

Besides the keys, `KeyConfig` has what a section of class `RawSigningCfg` holds,
whether hab4 has its SRKs, and the log level. `FromDict` is what loading changes:
a salt length is dropped or added with the padding, and an unknown level becomes
INFO. What is only copied is left out, among it `mgf1_md`.

A key's URI is represented by its `object` attribute, since `setup` identifies
objects by label; there is one token, which is the only one a command touches.
`Exists` is `pkcs11_object_exists` (label *or* CKA_ID); `Selected` is what
p11-kit does with a URI, and `p11-kit delete-object` removes everything the URI
selects. Every tool invocation is a step that may fail (`ToolFails`), every step
may be the last (`Crash`). `genkey` saves in its `finally` clause, and the model
does so with the flag `failing`. `Config.save` is two steps, since `write_text`
truncates first (`Open`, `Write`), and `text` says whether the file is whole,
empty, or the beginning of one text with the end of a longer one, which two
processes can leave that write at once; a file that is not whole is taken not to
load. `importcert` without a key ID asks for all keys in threads: `Answer` and
`Unanswered` take them in any order, and a key whose answer is late counts as
having no public key. The constant `Listed` says which objects a token shows to
a listing without a login. A process is a terminal: what it remembers
(`mem`, its copy of the configuration) is private to it, and with two of them
commands overlap. The certificate of a public CA is an input of `importcert`:
the number of the key pair it certifies, zero for one that is not on the token.

`KeyStore` is the same seen by a user who runs one command at a time: the private
keys under each label, the label that the file has for each key, and the `genkey` or
`delkey` at work. A key is created where its label has none; it is destroyed by its
`delkey`, while the file names it; its entry goes only after that; and a save
changes the entry of the command's key and no other. It allows any command to end at any
time. Whether `genkey` may name a key that is not there, it leaves open, since the
code may (finding 3).

Commands start from tokens and configurations that `genkey` and a text editor
can produce: keys labelled with their IDs (`Own*`), one without a URI, or two
keys that share an object whose label is neither's ID (`Shared*`), as in
`docs/user-manual.md` and the tests.

### Setup

| code | model |
|---|---|
| `main`: a new process, `enable_local_softhsm2` | `SetupStart`, `InvokeKeyCommand` (`env`) |
| `if not ....exists()` for the SoftHSM configuration, the PIN, `config.yaml` | `CheckFile`, in the order of `After` |
| `write_text` | `OpenFile`, `FillFile` |
| `softhsm2-util --show-slots`, `--init-token` | `ShowSlots`, `InitToken` |
| a tool that fails, a kill | `SetupStops`, at every step |
| a step of `genkey`, `delkey`, `importcert` | `KeyCommandStep`: the step of `KeySetup`, if the files and the token let it |

`Setup` EXTENDS `KeySetup` and shares `config.yaml` with it: `FillFile` writes the
fresh configuration, a save makes the file if it is absent. A command needs
`config.yaml` to load, the PIN file for `genkey`, the token for every tool and a
PIN to log in; what is missing makes it fail by `Refuse` or `ToolFails`. A
SoftHSM configuration that a stopped run has left empty selects the system's
tokens: the steps that follow may work there or fail.

### DebSign

| code | model |
|---|---|
| a new process, `LocalPackagePool.__init__` | `Invoke` |
| `update_or_create_chdist` | `UpdateChdist` |
| `_install_signing_template` | `InstallTemplate` |
| `download_and_extract_debian` | `FetchPackage`, one package at a time |
| `_make_job` for every file, the call of `pool.sign` | `MakeJobs`, `Sign`, `SignReturns` |
| `_prepare_dest_dir` | `Prepare`, `Remove` |
| `shutil.move` | `Move`, at once or by way of a partial copy |
| `_run_sbuild`, the loop over templates | `NextTemplate` |
| an exception, a refusal, Ctrl-C, a kill | `Stop`, at every step |

`Sign` takes steps of `SigningRun` for the files of the current template. What
the pool does inside is proved to be such a run, from an empty cache and from one
that earlier templates have filled. One command follows another on the same output directory, and each may be stopped; only what is in that
directory outlives it, so that a failure and a kill are the same. A tree is its
template with the set of its signatures, and a signature says which file of
which package, in which version, was signed.

`OutputDirectory` is what remains of this for someone who looks at the output directory
only. A place is cleared bit by bit, freed for one result, filled with one of
`WholeTrees`, perhaps by way of a partial copy, or given up; `place` is the
destination between the test that it is free, or its removal, and the end of the
move, and no two places are worked on at once.

Left out are the contents of apt
sources, the architecture of a package (`extract_pkg` also takes `_all`), and
epochs, which the names of extraction directories lack.

## Runs

| run | instance | what it shows |
|---|---|---|
| `signing_pool` | the second template of a `debsign`: an EFI binary, a CSF with two SRKs, of which one is already exported, a kernel module and an OPTEE application; the SRK index, or the tool of the last job, may be missing, so that the second or the last check refuses; two workers, chunks of one | all properties of the pool, that it implements `SigningRun`, and that it terminates |
| `signing_pool_faults` | `efibinarysign` of four binaries in chunks of two, the last in place, so that the user is asked and may refuse; one worker may be killed | the inductive invariant of the proofs, and the safety properties that survive a kill |
| `key_setup` | one terminal; two runs of `setup softhsm`, one stopped, among any three commands on three keys, one failing tool, one kill; from nothing or from a set-up with keys | all properties of the setup commands and of the set-up, that they implement `KeyStore`, and that the set-up gives them no step they do not have |
| `key_setup_pair` | two terminals, two keys sharing an object | what still holds when commands overlap |
| `csf` | all templates of up to four lines of eighteen kinds, brackets in a comment and in a value among them, and the sample of the tests | that the loop does what its reference says, and that nothing unconfigured gets into the sections it fills in, where brackets are those of headers |
| `deb_sign` | three commands, each of one or two templates that share a package or a source package | all properties of debsign, and that it implements `OutputDirectory` |
| `one_key`, `variable_names`, `genkey_retried`, `imported_label`, `package_version`, `csf_brackets` | the smallest instance of each; for the last, that of `csf` | a documented promise that the code does not keep (see *Findings*) |

**Bounds.** Two workers and three or four jobs give every pair of workers in the
cache, a worker waiting for the lock while another fails in it, a worker that
takes a second chunk, and a chunk whose first job fails; the processes are
symmetric and interact only through the lock, the queue and the paths, so a
third one adds no new kind of interference, and the proofs cover any number.
CPython's factor of four chunks per worker is the constant `TasksPerWorker`:
with four, four jobs are four chunks; with one, they are two chunks of
two, the case where an exception drops a job. `MaxDeaths` bounds kills. In
`KeySetup`, `MaxCommands = 3` allows a command, one that is cut short and its
repetition; `MaxFaults` bounds failing tools and unanswered searches together and
`MaxCrashes` kills, to one each in any order. `MaxSetups = 2` and `MaxStops = 1`
are a set-up that is stopped and its repetition, with the commands before,
between and after. The four lines of `MCCsf` are a header and a statement on three
lines, or two of either; what the loop carries from line to line is one section,
one statement and one joined line, so that a longer template repeats what four
lines can do, and the sample has twenty-four. In `DebSign`, `MaxCommands = 3` is a
command that is stopped, one that is stopped while it replaces what the first
left, and a last one.
`CHECK_DEADLOCK FALSE` appears only in the runs of `KeySetup`, `Setup`, `DebSign`
and `Csf`: once the commands have been run the terminals rest, and a template has
an end. The pool's runs check deadlock, and end in a stutter only when the process
has ended.

**Fairness** is assumed by one property, `Terminates`: weak fairness of the
main process and of each worker's progress (`Proceed`). The operating system
schedules every process, and the tools and the token are taken to answer in the
end, with success or failure; the code sets no timeout on the tools a signer
runs. Nothing is assumed of failures, interrupts or kills: they may or may not
happen, and a worker that waits for the lock is never rescued by a failure.
`Terminates` excuses the runs where a worker was killed: CPython's `map` then
waits for a result that never comes, and in the model it does.

## Proofs

`SigningPoolProofs` proves, for any number of jobs and workers, any programs and
verdicts, and any number of killed workers:

* `Invariance`: `IndInv` is an invariant. It has one conjunct for each subject.
  `MainInv`: workers run only while the main process waits in `map`, which
  starts after every check. `WorkerInv`: a worker holds the lock exactly while it
  is in the cache. `CacheInv`: an exported file is in the cache, about to be
  stored, or lost with a killed holder -- the clause that makes
  `OneExportPerObject` inductive, since `Miss` must know that no export of its
  key exists. `GotInv`: a running job has what the steps behind it fetched.
  `ChunkInv`: each job of a taken chunk is signed, running or waiting at exactly
  one worker, so that a chunk reported `ok` has been signed whole. `OutInv`: what
  has been written stays.
* from it the safety properties the runs check, `TypeCorrect`, `ExportedOnce`,
  `ToolsGetCertificates`, `ChecksComeFirst`, `NothingAbandoned`, `NoWorkerLeft`,
  and two under the condition each needs: `RightCertificate` where cache keys
  identify the objects of the run (`KeysIdentifyObjects`), `OutputsAreKept` where
  the outputs of the run differ (`DistinctOutputs`). The runs `one_key` and
  `variable_names` show that neither condition can be dropped.
* `OutputsComeInOrder`, under `DistinctOutputs`: of a job's outputs, a later one
  is there only with the earlier ones. What makes it inductive is `AheadInv`: a
  running job has not yet touched the outputs ahead of its step, which needs that
  no other job, and no earlier step, writes to them. A write that fails may
  truncate its own file only, and ends the job.
* `Implements`: the pool implements `SigningRun`, with `phase` computed from
  `main` and `signed` as it is. `Cleanup`, `Take`, the cache's steps and failures
  stutter.

`SignersProofs` proves of the jobs that the commands make, for any number of files,
any names and any configuration with its keys and SRKs, that they meet the conditions
above. `Programs` says what the programs of all eight signers write and fetch.

* `DebsignKeepsOutputs` and `DebsignInOrder`: `DistinctOutputs` holds of any list of
  package files, each listed once, since appending `sig` and `ver` to names with
  suffixes keeps them apart (`Appended`, `PackageFilesDistinct`).
* `EfiKeepsOutputs`: it holds of binaries of different names, in place or not;
  `VariablesKeepOutputs`: and of variables of different names without a dot; with
  dots it may fail, as the run `variable_names` shows.
* `DebsignRightCertificate`: `KeysIdentifyObjects` holds if the sections' keys are
  apart in token, name and ID (`CertificatesApart`); `OneSignerRightCertificate`: in
  `efibinarysign`, `uefivarsign` and `swusign` it always holds, since they have one
  key.
* `RefusedDoesNothing`: one job that preflight must refuse (no signer; hab4 without
  keys or index, a raw signature without hash; a missing tool; in place where that is
  refused) keeps the command from exporting, signing or writing anything, wherever it
  stands among the jobs. A key without a URI is not among the reasons.

`KeySetupProofs` proves for any keys, labels, commands and bounds:

* `TypeCorrect`, `ConfigurationLoads` and `PrivateKeysStay` for any number of
  overlapping commands. The invariant adds to the type which command can be at
  which step on which key (`StepInv`); the lemmas `AddLoads`, `SetLoads` and
  `RemoveLoads` say that each operation of `Config` keeps a configuration that
  loads loadable.
* `OneKey` and `DeletedWhole`, with one command at a time (`OneCommand`: a single
  terminal, a token that lists all types of objects, and private labels distinct at
  first): `genkey` never makes a second key of a label, and a successful `delkey` has left
  nothing. The invariant `AloneInv` carries what was probed to where it is used, which
  only the absence of another process justifies.
* `StoreImplements`, under the same condition: `KeySetup` implements `KeyStore`,
  through any failures and kills. `AloneInv` gives what `Create` and `Forget` require of the
  token, and `KeysInv` what `Destroy` and `Name` require of the file: a command's copy of
  signing-keys differs from the file in at most the entry of its key.
* `SettingsStay`, with a single terminal: what a command has loaded and not yet
  changed says of settings what the file says, since loading twice is loading once
  (`LoadedTwice`), and each operation keeps the settings of the sections it leaves
  (`SettingsInv`).
* `KeysGenerated`, `CertificatesImported` and `RegisteredKeysExist`: if, besides, keys
  are labelled with their IDs and are whole at first (`OwnStart`), a successful
  `importcert` has replaced the certificate of a key it certifies, and, where nothing
  was cut short, a successful `genkey` has made and registered a certified key and
  every registered key is on the token. `OwnInv` says of each key that it is whole or
  that the command at work is at work on it (`UncutInv`), and of `importcert` that what
  it has found out of a key remains true (`MatchInv`).

`SetupProofs` proves of the composition, for any number of set-ups, stops and
commands:

* in any number of terminals: `SetupTypeCorrect`, `SetupConfigLoads`, and
  `SetupInOrder`, that the files and the token come into being in one order.
  `KeySetup`'s `IndInv` is kept by the composition's steps, and `PastInv` says what
  a run has gone past.
* with one terminal: `OneToken`, `SetupIsDone`, `ToolsAreReady`, `FilesKept`, from
  `AloneSetupInv`, that what has been checked stays as it was found; and
  `SetupImplements`, that the composition implements `KeySetup`'s specification.
  The only step that could differ is a set-up filling `config.yaml`, and it finds
  the fresh configuration there already. `SetupKeepsKeys` then carries
  all of the theorems about one command at a time over.

`CsfProofs` proves for any templates, of any length and with any lines:

* `OutputIsConfigured`, for templates with brackets in headers only: `SectionInv` says
  that the loop's `section` is that of the last header in what is written, as `cst`
  reads it, so that what is written next is read in the section for which it was
  chosen; and that no header is joined to another line (`CurrentHeader`). Lines may be
  continued and stand alone in any other way.
* `SubstitutesAll`: what `Substituted` says, for the templates of its condition.
  `ReadInv` relates the loop to the reference at every line: the statements that begin
  before some line are written (`Settled`), and that line is the next, or begins
  the statement whose lines so far are joined in `prev` (`Pending`). That joining line
  by line makes the reference's whole statement (`PartMore`) is a fact about the
  recursive `FlattenSeq`, an induction over data; `FlattenProofs` gets it from a set of
  natural numbers having a least element (`LeastNatural`), which follows from the
  library's well-foundedness of inclusion and needs no operator parameter.

`DebSignProofs` proves for any templates, `files.json`, command lines and number
of commands:

* `TypeCorrect`, `NeverMovedBelow` and `OldResultsKept`, the last an action
  property, from `StepInv`: what each step of a template has established.
* `SuccessDelivers`: a command that reports success has delivered, from
  `DeliveryInv`, which says it of the templates behind the current one, but for
  one whose destination is being replaced, and of a destination that two
  templates share, for the later one.
* `RightVersionSigned`: the versions signed are those wanted, if the templates
  agree on the versions of the packages they share (`VersionsAgree`); the run
  `package_version` shows what happens where they do not.
* `DebSignImplements`: debsign implements `OutputDirectory`, with `place` computed from
  `pc`. That what is put to a place is a whole tree needs the signatures to be those
  of all files the template lists for it (`NewTreeResult`).

Only model-checked: `Terminates` (liveness, which the prover does not do), and
what depends on the instances' concrete names and programs. The proofs take from
TLC's runs only that the named assumptions of the modules can be met. KeyStore's and
OutputDirectory's theorems are about one command at a time, as the models are
(`OneCommand`, `DebSign`'s one terminal).

## Findings

1. `one_key`: the cache's key has neither the token nor the type of a URI. With
   one key for EFI binaries and OPTEE applications, as in the manual's example,
   `sbsign` may get the public key in place of the certificate, or
   `sign_encrypt.py` the reverse, depending on which job was first.
2. `variable_names`: `uefivarsign` replaces what follows the last dot of a
   variable's name, although the help text says the suffix is appended; two such
   variables overwrite each other's output and the command succeeds.
3. `genkey_retried`: `genkey` takes any object of the key's name for the whole
   key. After a `delkey` that failed half-way, or a `genkey` that failed between
   key and certificate, it reports success without the key or the certificate.
4. `imported_label`: `importcert` labels the certificate with the key ID and not
   with the label that the key's URI asks for.
5. `package_version`: the package pool of a `debsign` command is keyed by the
   package's name. A template that names its own version of a package which an
   earlier template has brought gets signatures of the earlier version.
6. `csf_brackets`: the pattern for headers matches brackets anywhere in a line. A
   comment like `# see [Install Key]` below `[Install CSFK]` makes the next `File` the
   image key's URI; after a comment that names another section, or with brackets in
   its value, a `File` keeps the template's certificate, although the docstring of
   `sign` says that it is set.

One more is read from the code and has no run: `docs/user-manual.md:52-54` says that a
detached EFI signature onto its own input is always refused, and `UefiSign.preflight`
asks instead (`Verdicts`). It takes a link, since the output's name differs from the
input's.

More consequences can be seen in the models and contradict no documented promise:

* overlapping setup commands lose updates of `config.yaml`, each writing back all
  of what it read;
* a `delkey` killed after its last deletion can never be completed, since the
  repetition stops at "no objects found" before it removes the entry;
* on a token that hides private objects from a listing without a login, `delkey`
  leaves the private key and reports success;
* a file that a stopped `setup softhsm` has left empty stays empty;
* two `setup softhsm` at once can make two tokens of the same label.

## Not modelled

* The tools and the token beyond what their callers rely on.
* `csr` and `listkeys`: they change nothing but one output file.
* Parsing of arguments, YAML and PKCS#11 URIs and percent-encoding: sequential
  string processing without shared state.
* Archives, the attributes of UEFI variables and trusted certificates in
  `config.yaml`: they are copied from loading to saving.
* What the tools compute: signatures, SRK tables and fuse values.

## Plan

1. `DebSign` with two terminals on one output directory, where `shutil.move` can
   meet a directory that another command has just put there.
2. The same two terminals seen through `OutputDirectory`: which of its steps are lost.

The order so far was by importance: the pool and its cache, which every signing
command runs through, then the commands that can lose a key, then debsign, then
the set-up below the commands and the text that `cst` is given.
