----------------------------- MODULE KeyConfig -----------------------------
(***************************************************************************)
(* The configuration, config.yaml, and the operations of class Config on   *)
(* it.  It maps a key ID to the label (the `object' attribute) of its      *)
(* PKCS#11 URI, each signing purpose to the key it uses, and each UEFI     *)
(* variable to its key; what else a section holds is its settings.  A file *)
(* and the object loaded from it have one form, FromDict being what        *)
(* loading changes; what is only copied (archives, certificates, the       *)
(* attributes of variables) is left out.                                   *)
(***************************************************************************)

CONSTANTS
  KeyId,     \* the names keys can have in signing-keys
  Label,     \* the labels of objects on the token
  Variable,  \* the names of UEFI variables in the uefi section
  None,      \* no entry
  NoUri      \* an entry whose pkcs11_uri is null

\* genkey labels the objects it makes with the key ID.
ASSUME NamesAssumption ==
  /\ KeyId \subseteq Label
  /\ None \notin Label /\ NoUri \notin Label /\ None # NoUri

\* GenKeyUseFor: the members of a section that hold a key.
Purpose == {"uefi", "swu", "kernel_modules", "optee_ta", "rpi",
            "hab4:img_key", "hab4:csf_key"}

\* The sections of class RawSigningCfg, and what they hold besides the key.
RawSection == {"optee_ta", "rpi"}
RawSettings == [hash : {None, "sha256"}, padding : {"pkcs1", "pss"},
                saltlen : {None, "digest", "32"}]
Plain == [hash |-> None, padding |-> "pkcs1", saltlen |-> None]

\* srk: has hab4 its SRK index and certificates.  A file may name any level.
Config == [keys : [KeyId -> Label \cup {None, NoUri}],
           use  : [Purpose -> KeyId \cup {None}],
           vars : [Variable -> KeyId \cup {None}],
           raw  : [RawSection -> RawSettings],
           srk  : BOOLEAN,
           level : {None, "INFO", "DEBUG", "VERBOSE"}]

\* Loading drops what a padding does not use and adds what it needs; a level
\* that logging does not know, or none, becomes INFO.
Normal(r) == [r EXCEPT !.saltlen = IF r.padding = "pkcs1" THEN None
                                   ELSE IF @ = None THEN "digest" ELSE @]
FromDict(cfg) ==
  [cfg EXCEPT !.raw = [s \in RawSection |-> Normal(cfg.raw[s])],
              !.level = IF @ \in {"INFO", "DEBUG"} THEN @ ELSE "INFO"]

Registered(cfg, k) == cfg.keys[k] # None

AddSigningKey(cfg, k, label) == [cfg EXCEPT !.keys[k] = label]

SetKeyInNewSections(cfg, uses, k) ==     \* fault: a section is made anew
  [cfg EXCEPT !.use = [u \in Purpose |-> IF u \in uses THEN k ELSE cfg.use[u]],
              !.raw = [s \in RawSection |->
                        IF s \in uses THEN Plain ELSE cfg.raw[s]]]

\* One call of set_key_for_signer for each purpose in uses.  A section that is
\* there keeps its settings, and one that is not has none.
SetKeyForSigners(cfg, uses, k) ==
  [cfg EXCEPT !.use = [u \in Purpose |-> IF u \in uses THEN k ELSE cfg.use[u]]]

RemoveUefiOnly(cfg, k) ==    \* fault: variables are not looked at
  [cfg EXCEPT
     !.keys[k] = None,
     !.use = [u \in Purpose |-> IF cfg.use[u] = k THEN None ELSE cfg.use[u]],
     !.raw = [s \in RawSection |-> IF cfg.use[s] = k THEN Plain ELSE cfg.raw[s]]]

\* Sections of the key are dropped, uefi with all of its variables; hab4 only
\* loses the member.
RemoveSigningKey(cfg, k) ==
  [cfg EXCEPT
     !.keys[k] = None,
     !.use = [u \in Purpose |-> IF cfg.use[u] = k THEN None ELSE cfg.use[u]],
     !.vars = [v \in Variable |->
                IF k \in {cfg.use["uefi"], cfg.vars[v]} THEN None
                                                        ELSE cfg.vars[v]],
     !.raw = [s \in RawSection |-> IF cfg.use[s] = k THEN Plain ELSE cfg.raw[s]]]

\* from_dict() accepts it: every key a section names is in signing-keys.
Loads(cfg) ==
  /\ \A u \in Purpose : cfg.use[u] # None => Registered(cfg, cfg.use[u])
  /\ \A v \in Variable : cfg.vars[v] # None =>
       cfg.use["uefi"] # None /\ Registered(cfg, cfg.vars[v])
=============================================================================
