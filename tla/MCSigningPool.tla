--------------------------- MODULE MCSigningPool ---------------------------
(* Instances of SigningPool, with the programs that Signers gives to jobs. *)
EXTENDS Signers, SigningPool, TLC

Cert(id, object, type) ==
  [token |-> "hsm", id |-> id, object |-> object, type |-> type]

\* One key serves the boot chain, as in the manual's example configuration;
\* the SRK certificates share an id and differ in their label.
BootKey == Cert("1", "boot", "private")
TaKey   == Cert("3", "ta", "private")
Srk1    == Cert("2", "srk1", "cert")
Srk2    == Cert("2", "srk2", "cert")

Sec(key, srk) == [on |-> TRUE, ready |-> TRUE, key |-> key, srk |-> srk]

Cfg == [uefi |-> Sec(BootKey, <<>>), kernel_modules |-> Sec(BootKey, <<>>),
        swu |-> Sec(BootKey, <<>>), hab4 |-> Sec(BootKey, <<Srk1, Srk2>>),
        optee_ta |-> Sec(TaKey, <<>>), rpi |-> Sec(BootKey, <<>>)]

Env == [force |-> FALSE, interactive |-> TRUE,
        tools |-> UNION {RequiredTools[k] : k \in DOMAIN RequiredTools}]

File(stem, suffix) == [dir |-> "pkg", name |-> <<stem, suffix>>]

\* The hosts and the configurations a run may meet: all there, or without one tool
\* of the last job, or without the SRK index that the second needs.
DebEnvs == {Env, [Env EXCEPT !.tools = @ \ {"sign_encrypt.py"}]}
DebCfgs == {Cfg, [Cfg EXCEPT !.hab4.ready = FALSE]}

\* debsign on its second template: four files of two packages, one with two
\* outputs; the first template has brought the certificate of the first SRK.
DebJobs == << PackageFileJob("uefi", File("grub", "efi"), "sigs"),
              PackageFileJob("hab4", File("grub", "csf"), "sigs"),
              PackageFileJob("module", File("ext4", "ko"), "sigs"),
              PackageFileJob("optee", File("ta", "elf"), "sigs") >>
DebWarm == {<<2, 1>>}
NoWarm  == {}

DebProg    == [j \in 1 .. Len(DebJobs) |-> Program(DebJobs[j], Cfg)]
DebVerdict == [j \in 1 .. Len(DebJobs) |->
                 UNION {Verdicts(DebJobs[j], "debsign", cfg, env) :
                          cfg \in DebCfgs, env \in DebEnvs}]

\* efibinarysign --output . on four binaries; the last would be overwritten,
\* so the user is asked.
EfiJobs(n) == [j \in 1 .. n |->
                 EfiJob([dir |-> IF j = n THEN "." ELSE "in", name |-> <<j>>],
                        ".", FALSE)]
EfiProg    == [j \in 1 .. 4 |-> Program(EfiJobs(4)[j], Cfg)]
EfiVerdict == [j \in 1 .. 4 |->
                 Verdicts(EfiJobs(4)[j], "efibinarysign", Cfg, Env)]

\* debsign with the manual's configuration: one key signs the boot loader and
\* a trusted application.
OneKeyJobs == << PackageFileJob("uefi", File("grub", "efi"), "sigs"),
                 PackageFileJob("optee", File("ta", "elf"), "sigs") >>
OneKeyCfg     == [Cfg EXCEPT !.optee_ta = Sec(BootKey, <<>>)]
OneKeyProg    == [j \in 1 .. 2 |-> Program(OneKeyJobs[j], OneKeyCfg)]
OneKeyVerdict == [j \in 1 .. 2 |-> Verdicts(OneKeyJobs[j], "debsign", OneKeyCfg,
                                          Env)]

\* uefivarsign on two variables whose names differ after the last dot.
Variables  == << <<"Boot", "A">>, <<"Boot", "B">> >>
VarJobs    == [j \in 1 .. 2 |->
                 VariableJob(Variables[j], [dir |-> "in", name |-> <<j>>], ".")]
VarProg    == [j \in 1 .. 2 |-> Program(VarJobs[j], Cfg)]
VarVerdict == [j \in 1 .. 2 |->
                 Verdicts(VarJobs[j], "uefivarsign", Cfg, Env)]

\* What the help text of uefivarsign says: the signed variable is in the file
\* whose name is the variable's with '.auth' appended.
AppendedName(j) == [dir |-> ".", name |-> AppendSuffix(Variables[j], "auth")]
SignedUnderAppendedName ==
  main = "ok" => \A j \in Jobs :
    AppendedName(j) \in OutPaths /\ out[AppendedName(j)] = j

PathsOf(p) == UNION {{p[j][s].path : s \in 1 .. Len(p[j])} : j \in DOMAIN p}
UrisOf(p)  == UNION {{p[j][s].uri : s \in 1 .. Len(p[j])} : j \in DOMAIN p}
DebPaths == PathsOf(DebProg)
DebUris  == UrisOf(DebProg)
EfiPaths == PathsOf(EfiProg)
EfiUris  == UrisOf(EfiProg)
OneKeyPaths == PathsOf(OneKeyProg)
OneKeyUris  == UrisOf(OneKeyProg)
VarPaths == PathsOf(VarProg)
VarUris  == UrisOf(VarProg)
=============================================================================
