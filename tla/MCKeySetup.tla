---------------------------- MODULE MCKeySetup -----------------------------
(***************************************************************************)
(* Instances of KeySetup for TLC.                                          *)
(***************************************************************************)
EXTENDS KeySetup

GenKey(k, uses) == [op |-> "genkey", key |-> k, uses |-> uses, cert |-> 0]
DelKey(k) == [op |-> "delkey", key |-> k, uses |-> {}, cert |-> 0]
ImportCertificate(k, n) ==
  [op |-> "importcert", key |-> k, uses |-> {}, cert |-> n]

\* A certificate for pair 0 is one for a key that is not on the token.
MCCommand ==
  {GenKey(k, {"uefi", "hab4:csf_key", "optee_ta"}) : k \in {"k1", "k3"}}
  \cup {GenKey("k1", {})} \cup {DelKey(k) : k \in KeyId}
  \cup {ImportCertificate(None, n) : n \in 0 .. 2}
  \cup {ImportCertificate("k1", 1)}

\* Enough for two terminals to disturb each other.
PairCommand == {GenKey("k1", {"uefi"}), GenKey("k2", {"swu"}), DelKey("k1"),
                DelKey("k2"), ImportCertificate("k2", 1),
                ImportCertificate(None, 1)}

CertOf(k, n) == [type |-> "cert", label |-> k, id |-> k, pair |-> n,
                 issued |-> FALSE]

\* Two keys with their IDs as labels: "k1" signs for UEFI, and for OPTEE with
\* settings that loading changes, and has one variable; "k2" has the other and
\* signs CSFs; "k3" is on the token, and in the configuration without a URI.
OwnConfig ==
  [keys |-> [k \in KeyId |-> IF k = "k3" THEN NoUri ELSE k],
   use  |-> [u \in Purpose |-> CASE u \in {"uefi", "optee_ta"} -> "k1"
                                 [] u = "hab4:csf_key" -> "k2"
                                 [] OTHER -> None],
   vars |-> [v \in Variable |-> IF v = "db" THEN "k2" ELSE "k1"],
   raw  |-> [s \in RawSection |->
              IF s = "optee_ta" THEN [Plain EXCEPT !.padding = "pss"] ELSE Plain],
   srk  |-> TRUE, level |-> "VERBOSE"]
OwnWorld ==
  [config |-> OwnConfig, pairs |-> 3,
   token |-> UNION {KeyPair(k, n) \cup {CertOf(k, n)} :
                      <<k, n>> \in {<<"k1", 1>>, <<"k2", 2>>, <<"k3", 3>>}}]

\* As in user-manual.md, the object is not labelled with the key ID; as in the
\* tests, two keys share it.
SharedConfig ==
  [keys |-> [k \in KeyId |-> "acme"],
   use  |-> [u \in Purpose |-> CASE u = "uefi" -> "k1"
                                 [] u = "optee_ta" -> "k2"
                                 [] OTHER -> None],
   vars |-> [v \in Variable |-> IF v = "db" THEN "k2" ELSE "k1"],
   raw  |-> [s \in RawSection |->
              IF s = "optee_ta" THEN [Plain EXCEPT !.saltlen = "32"] ELSE Plain],
   srk  |-> FALSE, level |-> None]
SharedWorld == [config |-> SharedConfig, pairs |-> 1,
                token |-> KeyPair("acme", 1) \cup {CertOf("acme", 1)}]

OwnWorlds == {OwnWorld}
SharedWorlds == {SharedWorld}
=============================================================================
