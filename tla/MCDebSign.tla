----------------------------- MODULE MCDebSign -----------------------------
(* Instances of DebSign for TLC.                                           *)
EXTENDS DebSign

\* A template that lists these packages, with two files in the first, one in
\* each other one, and "systemd" in the version given.
Lists(packages, first, version) ==
  [packages |-> packages,
   version  |-> [p \in Package |-> IF p = "systemd" THEN version ELSE None],
   files    |-> {<<p, "boot">> : p \in packages} \cup {<<first, "efi">>}]

\* "linux-rt" makes the same source package as "linux".
MCSourceOf == [t \in Template |-> IF t = "linux-rt" THEN "linux" ELSE t]

\* All templates that list "systemd" name the same version of it.
AgreeingFilesJson ==
  [t \in Template |->
     CASE t = "linux"    -> Lists({"image", "systemd"}, "image", "1.0")
       [] t = "linux-rt" -> Lists({"image"}, "image", None)
       [] t = "boot"     -> Lists({"systemd"}, "systemd", "1.0")]

\* "linux" leaves the version to the command line, "boot" names its own.
OverridingFilesJson ==
  [t \in Template |->
     CASE t = "linux"    -> Lists({"image", "systemd"}, "image", None)
       [] t = "linux-rt" -> Lists({"image"}, "image", None)
       [] t = "boot"     -> Lists({"systemd"}, "systemd", "1.0")]

MCCommand ==
  [templates : {<<"linux", "boot">>, <<"linux-rt", "linux">>, <<"boot", "boot">>},
   force : {FALSE}, interactive : BOOLEAN]
  \cup [templates : {<<"boot">>}, force : {TRUE}, interactive : {FALSE}]

\* An earlier linux source package is in the output directory.
MCDest == [s \in Source |->
             IF s = "linux" THEN Earlier ELSE Absent]
=============================================================================
