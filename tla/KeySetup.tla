------------------------------ MODULE KeySetup ------------------------------
(***************************************************************************)
(* `opensighub setup genkey', `delkey' and `importcert': commands that     *)
(* change two stores, the objects on a PKCS#11 token and config.yaml, one  *)
(* step at a time.  Each invocation is a process of its own: it reads the  *)
(* configuration once, works on its copy, and writes the whole of it back. *)
(* A tool may fail between any two steps, the process may be killed, and   *)
(* several invocations may run at the same time.                           *)
(*                                                                         *)
(* The token is external: a key pair is a number, an object carries the    *)
(* number of its pair, and p11-kit is modelled by what its commands do to  *)
(* the set of objects.                                                     *)
(***************************************************************************)
EXTENDS KeyConfig, Naturals

CONSTANTS
  Proc,           \* the terminals in which setup commands are run
  Command,        \* the commands: [op, key, uses, cert]
  Listed,         \* the types of objects a token shows without a login
  InitialWorld,   \* what there may be at first: [config, token, pairs]
  MaxCommands, MaxFaults, MaxCrashes   \* bounds on Invoke, faults, Crash

ObjectType == {"private", "public", "cert"}

\* `issued' tells an imported certificate from a self-signed placeholder.
Object == [type : ObjectType, label : Label, id : Label \cup {None},
           pair : Nat, issued : BOOLEAN]

\* key = None: importcert finds the key.  cert: the pair a certificate names.
CommandRecord ==
  {c \in [op : {"genkey", "delkey", "importcert"}, key : KeyId \cup {None},
          uses : SUBSET Purpose, cert : Nat] : c.key = None => c.op = "importcert"}

ASSUME CommandAssumption == Command # {} /\ Command \subseteq CommandRecord
ASSUME ListedAssumption == Listed \subseteq ObjectType
ASSUME InitialAssumption ==
  \A w \in InitialWorld :
    /\ w.config \in Config /\ Loads(w.config)
    /\ \A s \in RawSection : w.config.use[s] = None => w.config.raw[s] = Plain
    /\ w.token \subseteq Object
    /\ w.pairs \in Nat /\ \A o \in w.token : o.pair \in 1 .. w.pairs
ASSUME BoundsAssumption ==
  MaxCommands \in Nat /\ MaxFaults \in Nat /\ MaxCrashes \in Nat

VARIABLES
  text,      \* is the text of config.yaml "whole", "empty" or "mixed"
  file,      \* the configuration it says where it is whole
  token,     \* the objects on the token
  pairs,     \* key pairs are numbered in the order of their creation
  pc, cmd,   \* where each process is, and the command it runs
  mem,       \* its copy of the configuration
  uri,       \* the label of the key it works on
  left,      \* delete_key: the object types still to be probed
  found,     \* delete_key: has one been found
  asked, hits,  \* get_key_info: keys that have a row, and those that match
  pem,       \* the pair of the certificate it is about to import
  failing,   \* genkey: an exception is waiting for the finally clause
  commands, faults, crashes    \* how many there have been

disk  == <<text, file>>
hsm   == <<token, pairs>>
search == <<asked, hits>>
local == <<mem, uri, left, found, search, pem, failing>>
count == <<commands, faults, crashes>>
vars == <<disk, hsm, pc, cmd, local, count>>

Ended == {"idle", "done", "failed", "killed"}
Tools == {"genkey", "generate", "selfsign", "import",    \* a tool is run
          "probe", "delete", "importcert", "replace", "discard"}
PcStates == Ended \cup Tools \cup {"load", "delkey", "register", "save", "write"}

TypeOK ==
  /\ text \in {"whole", "empty", "mixed"} /\ file \in Config
  /\ token \subseteq Object /\ pairs \in Nat
  /\ pc \in [Proc -> PcStates] /\ cmd \in [Proc -> CommandRecord]
  /\ mem \in [Proc -> Config]
  /\ uri \in [Proc -> Label \cup {None, NoUri}]
  /\ \A p \in Proc : pc[p] \in {"probe", "delete", "replace", "discard"} =>
       uri[p] \in Label
  /\ left \in [Proc -> SUBSET ObjectType]
  /\ found \in [Proc -> BOOLEAN]
  /\ asked \in [Proc -> SUBSET KeyId] /\ hits \in [Proc -> SUBSET KeyId]
  /\ pem \in [Proc -> Nat]
  /\ failing \in [Proc -> BOOLEAN]
  /\ commands \in Nat /\ faults \in Nat /\ crashes \in Nat

Init ==
  /\ \E w \in InitialWorld : file = w.config /\ token = w.token /\ pairs = w.pairs
  /\ text = "whole"
  /\ pc = [p \in Proc |-> "idle"]
  /\ cmd = [p \in Proc |-> CHOOSE c \in Command : TRUE]
  /\ mem = [p \in Proc |-> file]
  /\ uri = [p \in Proc |-> None]
  /\ left = [p \in Proc |-> {}] /\ found = [p \in Proc |-> FALSE]
  /\ asked = [p \in Proc |-> {}] /\ hits = [p \in Proc |-> {}]
  /\ pem = [p \in Proc |-> 0]
  /\ failing = [p \in Proc |-> FALSE]
  /\ commands = 0 /\ faults = 0 /\ crashes = 0

-----------------------------------------------------------------------------
(* The token, as p11-kit and openssl see it.                               *)

\* pkcs11_object_exists: the label or the ID is the name asked for.  The list
\* is made without a login, so that a token may hide private objects from it.
Exists(types, name) ==
  \E o \in token : o.type \in types \cap Listed /\ name \in {o.label, o.id}

\* A URI selects by label only.
Selected(types, label) == {o \in token : o.type \in types /\ o.label = label}
Pairs(type, label) == {o.pair : o \in Selected({type}, label)}

KeyPair(k, n) ==
  {[type |-> t, label |-> k, id |-> k, pair |-> n, issued |-> FALSE]
     : t \in {"private", "public"}}

Goto(p, where) == pc' = [pc EXCEPT ![p] = where]
Key(p) == cmd[p].key

-----------------------------------------------------------------------------
(* Starting a command.                                                     *)

\* What is reset are the locals of the new process.
Invoke(p) ==
  /\ pc[p] \in Ended /\ commands < MaxCommands
  /\ \E c \in Command : c.cert <= pairs /\ cmd' = [cmd EXCEPT ![p] = c]
  /\ Goto(p, "load")
  /\ left' = [left EXCEPT ![p] = ObjectType]
  /\ found' = [found EXCEPT ![p] = FALSE]
  /\ asked' = [asked EXCEPT ![p] = {}] /\ hits' = [hits EXCEPT ![p] = {}]
  /\ failing' = [failing EXCEPT ![p] = FALSE]
  /\ uri' = [uri EXCEPT ![p] = None] /\ pem' = [pem EXCEPT ![p] = 0]
  /\ commands' = commands + 1
  /\ UNCHANGED <<disk, hsm, mem, faults, crashes>>

\* An empty file has no signing-keys; a section may name a key it lacks.
Load(p) ==
  /\ pc[p] = "load" /\ text = "whole" /\ Loads(file)
  /\ mem' = [mem EXCEPT ![p] = FromDict(file)]
  /\ Goto(p, cmd[p].op)
  /\ UNCHANGED <<disk, hsm, cmd, uri, left, found, search, pem, failing, count>>

\* It does not load, a tool or the PIN file is missing, an option is wrong.
Refuse(p) ==
  /\ pc[p] = "load"
  /\ Goto(p, "failed")
  /\ UNCHANGED <<disk, hsm, cmd, local, count>>

-----------------------------------------------------------------------------
(* genkey                                                                  *)

ProbeConfig(p) ==            \* fault: the configuration is asked instead
  /\ pc[p] = "genkey"
  /\ uri' = [uri EXCEPT ![p] = Key(p)]
  /\ Goto(p, IF Registered(mem[p], Key(p)) THEN "register" ELSE "generate")
  /\ UNCHANGED <<disk, hsm, cmd, mem, left, found, search, pem, failing, count>>

\* Any object of that name counts as the key.
ProbeKey(p) ==
  /\ pc[p] = "genkey"
  /\ uri' = [uri EXCEPT ![p] = Key(p)]
  /\ Goto(p, IF Exists(ObjectType, Key(p)) THEN "register" ELSE "generate")
  /\ UNCHANGED <<disk, hsm, cmd, mem, left, found, search, pem, failing, count>>

Generate(p) ==
  /\ pc[p] = "generate"
  /\ pairs' = pairs + 1
  /\ token' = token \cup KeyPair(Key(p), pairs')
  /\ mem' = [mem EXCEPT ![p] = AddSigningKey(@, Key(p), Key(p))]
  /\ Goto(p, "selfsign")
  /\ UNCHANGED <<disk, cmd, uri, left, found, search, pem, failing, count>>

SelfSign(p) ==
  /\ pc[p] = "selfsign"
  /\ \E n \in Pairs("private", Key(p)) : pem' = [pem EXCEPT ![p] = n]
  /\ Goto(p, "import")
  /\ UNCHANGED <<disk, hsm, cmd, mem, uri, left, found, search, failing, count>>

RegisterUsesOnly(p) ==       \* fault: only a generated key is registered
  /\ pc[p] = "register"
  /\ mem' = [mem EXCEPT ![p] = SetKeyForSigners(@, cmd[p].uses, Key(p))]
  /\ Goto(p, "save")
  /\ UNCHANGED <<disk, hsm, cmd, uri, left, found, search, pem, failing, count>>

Register(p) ==
  /\ pc[p] = "register"
  /\ mem' = [mem EXCEPT ![p] =
       SetKeyForSigners(AddSigningKey(@, Key(p), Key(p)), cmd[p].uses, Key(p))]
  /\ Goto(p, "save")
  /\ UNCHANGED <<disk, hsm, cmd, uri, left, found, search, pem, failing, count>>

-----------------------------------------------------------------------------
(* delkey                                                                  *)

FindAnyKey(p) ==             \* fault: a null pkcs11_uri is not looked for
  /\ pc[p] = "delkey"
  /\ IF Registered(mem[p], Key(p))
     THEN Goto(p, "probe") /\ uri' = [uri EXCEPT ![p] = mem[p].keys[Key(p)]]
     ELSE Goto(p, "failed") /\ UNCHANGED uri
  /\ UNCHANGED <<disk, hsm, cmd, mem, left, found, search, pem, failing, count>>

FindKey(p) ==
  /\ pc[p] = "delkey"
  /\ IF mem[p].keys[Key(p)] \in Label
     THEN Goto(p, "probe") /\ uri' = [uri EXCEPT ![p] = mem[p].keys[Key(p)]]
     ELSE Goto(p, "failed") /\ UNCHANGED uri
  /\ UNCHANGED <<disk, hsm, cmd, mem, left, found, search, pem, failing, count>>

\* pkcs11_delete_key takes private, public, cert in this order.
NextType(p) ==
  CASE "private" \in left[p] -> "private"
    [] "private" \notin left[p] /\ "public" \in left[p] -> "public"
    [] OTHER -> "cert"

ProbeType(p) ==
  /\ pc[p] = "probe" /\ left[p] # {}
  /\ IF Exists({NextType(p)}, uri[p])
     THEN /\ found' = [found EXCEPT ![p] = TRUE]
          /\ Goto(p, "delete")
          /\ UNCHANGED left
     ELSE /\ left' = [left EXCEPT ![p] = @ \ {NextType(p)}]
          /\ UNCHANGED <<found, pc>>
  /\ UNCHANGED <<disk, hsm, cmd, mem, uri, search, pem, failing, count>>

DeleteFirst(p) ==            \* fault: the loop ends with the first deletion
  /\ pc[p] = "delete"
  /\ token' = token \ Selected({NextType(p)}, uri[p])
  /\ left' = [left EXCEPT ![p] = {}]
  /\ Goto(p, "probe")
  /\ UNCHANGED <<disk, pairs, cmd, mem, uri, found, search, pem, failing, count>>

Delete(p) ==
  /\ pc[p] = "delete"
  /\ token' = token \ Selected({NextType(p)}, uri[p])
  /\ left' = [left EXCEPT ![p] = @ \ {NextType(p)}]
  /\ Goto(p, "probe")
  /\ UNCHANGED <<disk, pairs, cmd, mem, uri, found, search, pem, failing, count>>

ForgetNothing(p) ==          \* fault: the configuration is not changed
  /\ pc[p] = "probe" /\ left[p] = {}
  /\ Goto(p, IF found[p] THEN "save" ELSE "failed")
  /\ UNCHANGED <<disk, hsm, cmd, local, count>>

\* Nothing was on the token: an error, and the configuration is kept.
Forget(p) ==
  /\ pc[p] = "probe" /\ left[p] = {}
  /\ IF found[p]
     THEN /\ mem' = [mem EXCEPT ![p] = RemoveSigningKey(@, Key(p))]
          /\ Goto(p, "save")
     ELSE Goto(p, "failed") /\ UNCHANGED mem
  /\ UNCHANGED <<disk, hsm, cmd, uri, left, found, search, pem, failing, count>>

-----------------------------------------------------------------------------
(* importcert                                                              *)

Certifies(p, k) == /\ mem[p].keys[k] \in Label
                   /\ cmd[p].cert \in Pairs("public", mem[p].keys[k])

MatchKey(p, k) ==
  /\ cmd' = [cmd EXCEPT ![p].key = k]
  /\ uri' = [uri EXCEPT ![p] = mem[p].keys[k]]
  /\ pem' = [pem EXCEPT ![p] = cmd[p].cert]
  /\ Goto(p, "replace")

\* --key-id: its public key must be the certificate's.
MatchNamed(p) ==
  /\ pc[p] = "importcert" /\ Key(p) \in KeyId
  /\ \/ Certifies(p, Key(p)) /\ MatchKey(p, Key(p))
     \/ ~Certifies(p, Key(p)) /\ Goto(p, "failed") /\ UNCHANGED <<cmd, uri, pem>>
  /\ UNCHANGED <<disk, hsm, mem, left, found, search, failing, count>>

\* get_key_info asks the token for all keys at once, one thread for each.
Ask(p, k) ==
  /\ pc[p] = "importcert" /\ Key(p) = None
  /\ Registered(mem[p], k) /\ k \notin asked[p]
  /\ asked' = [asked EXCEPT ![p] = @ \cup {k}]

Answer(p) ==
  /\ \E k \in KeyId :
       /\ Ask(p, k)
       /\ hits' = [hits EXCEPT ![p] = IF Certifies(p, k) THEN @ \cup {k} ELSE @]
  /\ UNCHANGED <<disk, hsm, pc, cmd, mem, uri, left, found, pem, failing, count>>

\* openssl fails or says nothing for five seconds: the key has an empty hash.
Unanswered(p) ==
  /\ faults < MaxFaults /\ faults' = faults + 1
  /\ \E k \in KeyId : Ask(p, k)
  /\ UNCHANGED <<disk, hsm, pc, cmd, mem, uri, left, found, hits, pem, failing,
                 commands, crashes>>

\* No --key-id: the only key with that hash.
MatchOnly(p) ==
  /\ pc[p] = "importcert" /\ Key(p) = None
  /\ asked[p] = {k \in KeyId : Registered(mem[p], k)}
  /\ \/ \E k \in KeyId : hits[p] = {k} /\ MatchKey(p, k)
     \/ /\ \A k \in KeyId : hits[p] # {k}
        /\ Goto(p, "failed") /\ UNCHANGED <<cmd, uri, pem>>
  /\ UNCHANGED <<disk, hsm, mem, left, found, search, failing, count>>

ProbeNoCert(p) ==            \* fault: the old certificate is left in place
  /\ pc[p] = "replace"
  /\ Goto(p, "import")
  /\ UNCHANGED <<disk, hsm, cmd, local, count>>

\* The user may refuse to overwrite the certificate that is there.
ProbeCert(p) ==
  /\ pc[p] = "replace"
  /\ IF Exists({"cert"}, uri[p]) THEN Goto(p, "discard") \/ Goto(p, "failed")
                                 ELSE Goto(p, "import")
  /\ UNCHANGED <<disk, hsm, cmd, local, count>>

DiscardKey(p) ==             \* fault: the URI does not say type=cert
  /\ pc[p] = "discard"
  /\ token' = token \ Selected(ObjectType, uri[p])
  /\ Goto(p, "import")
  /\ UNCHANGED <<disk, pairs, cmd, local, count>>

DiscardCert(p) ==
  /\ pc[p] = "discard"
  /\ token' = token \ Selected({"cert"}, uri[p])
  /\ Goto(p, "import")
  /\ UNCHANGED <<disk, pairs, cmd, local, count>>

\* pkcs11_import_object, for genkey too: labelled with the key ID, no CKA_ID.
ImportCert(p) ==
  /\ pc[p] = "import"
  /\ token' = token \cup {[type |-> "cert", label |-> Key(p), id |-> None,
                           pair |-> pem[p], issued |-> cmd[p].op # "genkey"]}
  /\ Goto(p, IF cmd[p].op = "genkey" THEN "register" ELSE "done")
  /\ UNCHANGED <<disk, pairs, cmd, local, count>>

-----------------------------------------------------------------------------
(* Config.save(): write_text() truncates the file, then writes it.         *)

Open(p) ==
  /\ pc[p] = "save"
  /\ text' = "empty"
  /\ Goto(p, "write")
  /\ UNCHANGED <<file, hsm, cmd, local, count>>

\* Where another process has written since, the end of a longer text remains.
Write(p) ==
  /\ pc[p] = "write"
  /\ text' \in IF text = "empty" THEN {"whole"} ELSE {"whole", "mixed"}
  /\ file' = mem[p]
  /\ Goto(p, IF failing[p] THEN "failed" ELSE "done")
  /\ UNCHANGED <<hsm, cmd, local, count>>

-----------------------------------------------------------------------------
(* What can go wrong.                                                      *)

\* A tool exits with an error: genkey saves all the same, the others do not.
ToolFails(p) ==
  /\ pc[p] \in Tools /\ left[p] # {} /\ faults < MaxFaults
  /\ faults' = faults + 1
  /\ IF cmd[p].op = "genkey"
     THEN Goto(p, "save") /\ failing' = [failing EXCEPT ![p] = TRUE]
     ELSE Goto(p, "failed") /\ UNCHANGED failing
  /\ UNCHANGED <<disk, hsm, cmd, mem, uri, left, found, search, pem, commands, crashes>>

\* The key to be certified is gone by now: openssl fails.
SelfSignFails(p) ==
  /\ pc[p] = "selfsign" /\ Pairs("private", Key(p)) = {}
  /\ failing' = [failing EXCEPT ![p] = TRUE]
  /\ Goto(p, "save")
  /\ UNCHANGED <<disk, hsm, cmd, mem, uri, left, found, search, pem, count>>

\* The process is killed, or the machine is: no finally clause runs.
Crash(p) ==
  /\ pc[p] \notin Ended /\ crashes < MaxCrashes
  /\ crashes' = crashes + 1
  /\ Goto(p, "killed")
  /\ UNCHANGED <<disk, hsm, cmd, local, commands, faults>>

Step(p) ==
  \/ Load(p) \/ Refuse(p)
  \/ ProbeKey(p) \/ Generate(p) \/ SelfSign(p) \/ SelfSignFails(p) \/ Register(p)
  \/ FindKey(p) \/ ProbeType(p) \/ Delete(p) \/ Forget(p)
  \/ MatchNamed(p) \/ Answer(p) \/ MatchOnly(p)
  \/ ProbeCert(p) \/ DiscardCert(p) \/ ImportCert(p)
  \/ Open(p) \/ Write(p)

Fault(p) == ToolFails(p) \/ Unanswered(p) \/ Crash(p)

Next == \E p \in Proc : Invoke(p) \/ Step(p) \/ Fault(p)

Spec == Init /\ [][Next]_vars

-----------------------------------------------------------------------------
(* What the commands must guarantee.                                       *)

\* No sequence of commands, in however many terminals, and no crash leaves a
\* whole configuration whose sections name a key that is not in signing-keys: every
\* later command would end in a KeyError.
ConfigLoads == /\ text = "whole" => Loads(file)
               /\ \A p \in Proc : Loads(mem[p])

\* A private key leaves the token only where delkey was told to delete it, and
\* only the one the configuration named when delkey read it.
PrivateKeysKept ==
  [][\A o \in token \ token' : o.type = "private" =>
       \E p \in Proc : /\ cmd[p].op = "delkey" /\ pc[p] = "delete"
                       /\ mem[p].keys[Key(p)] = o.label]_vars

\* A repeated genkey never makes a second key behind the same URI, whatever
\* the first was interrupted by.  It holds where commands do not overlap.
OneKeyPerLabel ==
  \A o, q \in token :
    o.type = "private" /\ q.type = "private" /\ o.label = q.label => o = q

HasCertifiedKey(k) == \E n \in Pairs("private", k) :
                        n \in Pairs("public", k) /\ n \in Pairs("cert", k)

\* genkey that reports success has generated the key and a certificate for it,
\* and registered it for every use asked for -- unless an earlier command was
\* cut short, or another command is running.
GenkeyDone ==
  \A p \in Proc :
    /\ pc[p] = "done" /\ cmd[p].op = "genkey"
    /\ faults = 0 /\ crashes = 0
    => /\ HasCertifiedKey(Key(p))
       /\ file.keys[Key(p)] = Key(p)
       /\ \A u \in cmd[p].uses : file.use[u] = Key(p)

\* The same without the condition: what key-management.md says of genkey.
GenkeyCertifies ==
  \A p \in Proc : pc[p] = "done" /\ cmd[p].op = "genkey" =>
    HasCertifiedKey(Key(p))

\* delkey that reports success, however often it failed or was killed before,
\* leaves no object the key's URI selects and no entry for the key.
DelkeyDone ==
  \A p \in Proc : pc[p] = "done" /\ cmd[p].op = "delkey" =>
    /\ Selected(ObjectType, uri[p]) = {}
    /\ ~Registered(file, Key(p))

\* After importcert, a signer that looks for the certificate at the key's URI
\* finds the new one and no other, and a public key that it certifies, also
\* where the search for the key was not answered in time.  It holds where keys
\* have their IDs as labels and commands do not overlap.
ImportDone ==
  \A p \in Proc : pc[p] = "done" /\ cmd[p].op = "importcert" =>
    /\ {<<o.pair, o.issued>> : o \in Selected({"cert"}, uri[p])}
         = {<<cmd[p].cert, TRUE>>}
    /\ cmd[p].cert \in Pairs("public", uri[p])

SameSettings(old, new) ==
  FromDict(new).srk = FromDict(old).srk /\ FromDict(new).level = FromDict(old).level

Keeps(old, new) ==
  /\ SameSettings(old, new)
  /\ \A s \in RawSection : old.use[s] # None /\ new.use[s] # None =>
       FromDict(new).raw[s] = FromDict(old).raw[s]

\* A save changes keys only: the paddings and hashes of a section that stays,
\* the SRKs and the log level mean to every later command what they meant when
\* the user wrote them, through any sequence of loading, normalising and
\* saving.  It holds where commands do not overlap.
SettingsKept == [][Keeps(file, file')]_vars

\* Between commands, and where none was cut short, each key of the
\* configuration is on the token.
KeysOnToken ==
  /\ \A p \in Proc : pc[p] \in Ended
  /\ faults = 0 /\ crashes = 0
  => \A k \in KeyId : file.keys[k] \in Label =>
       Pairs("private", file.keys[k]) # {}

\* What KeyStore is about: private keys, the names the file gives them, and the
\* genkey or delkey at work.
held == [l \in Label |-> Pairs("private", l)]
work == {<<cmd[p].op, Key(p)>> :
           p \in {q \in Proc : pc[q] \notin Ended /\ cmd[q].op # "importcert"}}
Store == INSTANCE KeyStore WITH named <- file.keys, made <- pairs

\* Whatever fails or is killed: a private key is made only where its label has
\* none, and destroyed only by a delkey, while the file names it; the file
\* forgets a key only when it is destroyed, and a save changes the entry of its
\* command's key and no other.  It holds where commands do not overlap.
ImplementsKeyStore == Store!Spec

-----------------------------------------------------------------------------
(* Why they hold: the inductive invariant.                                 *)

\* Which command is at which step, and on which key.
StepInv ==
  \A p \in Proc :
    /\ pc[p] \in {"genkey", "generate", "selfsign", "register"} =>
         cmd[p].op = "genkey"
    /\ pc[p] \in {"delkey", "probe", "delete"} => cmd[p].op = "delkey"
    /\ pc[p] \in {"importcert", "replace", "discard"} =>
         cmd[p].op = "importcert"
    /\ pc[p] = "import" => cmd[p].op # "delkey"
    /\ pc[p] \in {"save", "write"} => cmd[p].op # "importcert"
    /\ pc[p] \in {"replace", "discard", "import"} => Key(p) \in KeyId
    /\ pc[p] \in {"probe", "delete"} => uri[p] = mem[p].keys[Key(p)]
    /\ pc[p] = "load" => hits[p] = {}
    /\ pc[p] = "importcert" => \A k \in hits[p] : mem[p].keys[k] \in Label

IndInv == TypeOK /\ StepInv /\ ConfigLoads

\* Where commands do not overlap: no object has the name of a key about to be
\* generated, and what delkey has gone through is empty.
AloneInv ==
  /\ \A p \in Proc :
       /\ pc[p] = "generate" => ~Exists(ObjectType, Key(p))
       /\ pc[p] \in {"load", "delkey"} => left[p] = ObjectType
       /\ pc[p] \in {"probe", "delete"} =>
            Selected(ObjectType \ left[p], uri[p]) = {}
       /\ pc[p] \in {"save", "write"} /\ cmd[p].op = "delkey" =>
            Selected(ObjectType, uri[p]) = {} /\ ~Registered(mem[p], Key(p))
  /\ DelkeyDone
  /\ OneKeyPerLabel

\* Where commands do not overlap: what a command has loaded is what the file
\* still says, and a section is dropped only with its key.
SettingsInv ==
  \A p \in Proc :
    /\ pc[p] \notin Ended \cup {"load", "save", "write"} =>
         /\ SameSettings(file, mem[p])
         /\ FromDict(mem[p]).raw = FromDict(file).raw
    /\ pc[p] \in {"save", "write"} => Keeps(file, mem[p])

\* Where commands do not overlap: what a command has loaded and not yet changed
\* of signing-keys is what the file says, and what it has changed is one entry.
KeysInv ==
  \A p \in Proc :
    /\ pc[p] \notin Ended \cup {"load"} /\ cmd[p].op = "genkey" =>
         mem[p].keys \in {file.keys, [file.keys EXCEPT ![Key(p)] = Key(p)]}
    /\ pc[p] \in {"delkey", "probe", "delete"} => mem[p].keys = file.keys
    /\ pc[p] \in {"save", "write"} /\ cmd[p].op = "delkey" =>
         /\ file.keys[Key(p)] = uri[p] /\ uri[p] \in Label
         /\ mem[p].keys = [file.keys EXCEPT ![Key(p)] = None]

\* Where keys also have their IDs as labels: what importcert knows of the key,
\* and what holds while no command has been cut short.
OwnLabels(cfg) == \A k \in KeyId : cfg.keys[k] \in {k, None, NoUri}

SamePairs(k) == Pairs("private", k) = Pairs("public", k)

KeyWhole(k) ==
  SamePairs(k) /\ (Selected(ObjectType, k) # {} => HasCertifiedKey(k))

OwnStart ==
  /\ \A o \in token : o.id \in {o.label, None}
  /\ OwnLabels(file)
  /\ \A k \in KeyId : KeyWhole(k) /\ (file.keys[k] = k => Pairs("private", k) # {})

NamesInv ==
  /\ \A o \in token : o.id \in {o.label, None}
  /\ OwnLabels(file) /\ \A p \in Proc : OwnLabels(mem[p])

MatchInv ==
  \A p \in Proc :
    /\ pc[p] = "importcert" => \A k \in hits[p] : Certifies(p, k)
    /\ pc[p] \in {"replace", "discard"}
       \/ (pc[p] = "import" /\ cmd[p].op = "importcert") =>
         /\ uri[p] = Key(p) /\ pem[p] = cmd[p].cert
         /\ cmd[p].cert \in Pairs("public", Key(p))
    /\ pc[p] = "import" /\ cmd[p].op = "importcert" =>
         Selected({"cert"}, Key(p)) = {}

\* A command is at work on its key, which may not be whole for the time being.
InWork(p) == pc[p] \in {"probe", "delete", "selfsign", "import"}

Deletes(p, k) == /\ cmd[p].op = "delkey" /\ Key(p) = k /\ found[p]
                 /\ pc[p] \in {"probe", "delete", "save", "write"}
HasKey(k) == Pairs("private", k) # {} \/ \E p \in Proc : Deletes(p, k)

Saves(p) == pc[p] \in {"save", "write"} /\ cmd[p].op = "genkey" /\ ~failing[p]

UncutInv ==
  /\ \A k \in KeyId : KeyWhole(k) \/ \E p \in Proc : Key(p) = k /\ InWork(p)
  /\ \A p \in Proc :
       /\ pc[p] = "delete" => found[p]
       /\ pc[p] \in {"selfsign", "import"} =>
            SamePairs(Key(p)) /\ Pairs("private", Key(p)) # {}
       /\ pc[p] = "import" => pem[p] \in Pairs("private", Key(p))
       /\ pc[p] = "register" \/ Saves(p) => HasCertifiedKey(Key(p))
       /\ Saves(p) => /\ mem[p].keys[Key(p)] = Key(p)
                      /\ \A u \in cmd[p].uses : mem[p].use[u] = Key(p)
  /\ \A k \in KeyId :
       /\ file.keys[k] = k => HasKey(k)
       /\ \A p \in Proc : pc[p] \notin Ended \cup {"load"} /\ mem[p].keys[k] = k =>
            HasKey(k)

OwnInv == /\ NamesInv /\ MatchInv
          /\ faults = 0 /\ crashes = 0 => UncutInv
          /\ ImportDone /\ GenkeyDone
=============================================================================
