--------------------------- MODULE DebSignProofs ----------------------------
(***************************************************************************)
(* Proofs about DebSign, for any templates, packages, command lines and    *)
(* number of commands.                                                     *)
(***************************************************************************)
EXTENDS DebSign, TLAPS

\* What the run of the pool for a template may do.
LEMMA RunStep ==
  ASSUME NEW t \in Template, Run(FilesJson[t].files)!Next
  PROVE  /\ phase' \in {"signing", "ok", "failed"}
         /\ \/ signed' = signed
            \/ \E f \in FilesJson[t].files : signed' = signed \cup {f}
         /\ phase' = "ok" => signed' = FilesJson[t].files
  BY DEF Run!Next, Run!Refuse, Run!Accept, Run!Sign, Run!Succeed, Run!Fail

\* The template at hand is one of the command's; what files.json says of it.
LEMMA CurrentType ==
  ASSUME TypeOK
  PROVE  /\ at \in Nat /\ at >= 1 /\ at <= Len(cmd.templates)
         /\ Current \in Template /\ Target \in Source
         /\ FilesJson[Current].packages \subseteq Package
         /\ FilesJson[Current].files \subseteq Package \X File
<1>1. cmd \in CommandRecord
  BY InputsAssumption DEF TypeOK
<1>2. cmd.templates \in Seq(Template) /\ Len(cmd.templates) \in Nat
  BY <1>1 DEF CommandRecord
<1>3. at \in 1 .. Len(cmd.templates)
  BY DEF TypeOK
<1>4. Current \in Template
  BY <1>2, <1>3 DEF Current
<1> QED
  BY <1>2, <1>3, <1>4, InputsAssumption DEF Target, FilesJsonRecord

LEMMA WantedType ==
  ASSUME NEW t \in Template, NEW p \in Package
  PROVE  Wanted(t, p) \in Version
  BY InputsAssumption DEF Wanted, FilesJsonRecord

-----------------------------------------------------------------------------
(* The tree that is moved to the destination.                              *)

\* When it is moved, it is whole and its signatures are of fetched versions.
LEMMA NewTreeWhole ==
  ASSUME TypeOK, StepInv, pc \in {"move", "copy"}
  PROVE  /\ NewTree \in Tree
         /\ NewTree.template = Current
         /\ FilesOf(NewTree) = FilesJson[Current].files
<1>1. signed = FilesJson[Current].files
      /\ \A p \in FilesJson[Current].packages : dirs[p] # None
  BY DEF StepInv
<1>2. \A f \in signed : /\ f[1] \in FilesJson[Current].packages
                        /\ f[1] \in Package /\ f[2] \in File
                        /\ f = <<f[1], f[2]>>
  BY <1>1, CurrentType, InputsAssumption
<1>3. \A f \in signed : dirs[f[1]] \in Version
  BY <1>1, <1>2 DEF TypeOK
<1>4. NewTree \in Tree
  BY <1>2, <1>3, CurrentType DEF NewTree, Tree, Signature
<1>5. FilesOf(NewTree) = signed
  <2>1. ASSUME NEW f \in signed PROVE f \in FilesOf(NewTree)
    <3> DEFINE s == <<f[1], f[2], dirs[f[1]]>>
    <3>1. s \in NewTree.signatures /\ <<s[1], s[2]>> = f
      BY <1>2 DEF NewTree
    <3> QED
      BY <3>1 DEF FilesOf
  <2>2. ASSUME NEW g \in FilesOf(NewTree) PROVE g \in signed
    <3>1. PICK s \in NewTree.signatures : g = <<s[1], s[2]>>
      BY DEF FilesOf
    <3>2. PICK f \in signed : s = <<f[1], f[2], dirs[f[1]]>>
      BY DEF NewTree
    <3> QED
      BY <1>2, <3>1, <3>2
  <2> QED
    BY <2>1, <2>2
<1> QED
  BY <1>1, <1>4, <1>5 DEF NewTree

-----------------------------------------------------------------------------
(* Type correctness.                                                       *)

LEMMA InitIndInv == Init => IndInv
<1> SUFFICES ASSUME Init PROVE IndInv
  OBVIOUS
<1>1. cmd \in Command /\ Len(cmd.templates) \in Nat /\ Len(cmd.templates) # 0
  <2>1. cmd \in Command
    BY InputsAssumption DEF Init
  <2>2. cmd.templates \in Seq(Template) /\ cmd.templates # <<>>
    BY <2>1, InputsAssumption DEF CommandRecord
  <2> QED
    BY <2>1, <2>2
<1>2. Earlier \in Tree
  BY DEF Earlier, Tree, Signature
<1>3. TypeOK
  BY <1>1, <1>2, DestAssumption DEF Init, TypeOK, PcStates, Ended
<1>4. SignedVersion
  BY <1>2, DestAssumption, PathsAssumption DEF Init, SignedVersion, Earlier
<1>5. StepInv /\ VersionInv /\ DeliveryInv
  BY <1>4 DEF Init, StepInv, MoveTargetFree, VersionInv, DeliveryInv
<1> QED
  BY <1>3, <1>5 DEF IndInv

LEMMA TypeStep == TypeOK /\ StepInv /\ [Next]_vars => TypeOK'
<1> SUFFICES ASSUME TypeOK, StepInv, [Next]_vars PROVE TypeOK'
  OBVIOUS
<1> USE DEF TypeOK, PcStates, Ended, Goto, pool, runVars, vars
<1>1. CASE Invoke
  <2>1. cmd'.templates \in Seq(Template) /\ cmd'.templates # <<>>
    BY <1>1, InputsAssumption DEF Invoke, CommandRecord
  <2>2. 1 \in 1 .. Len(cmd'.templates)
    BY <2>1
  <2> QED
    BY <1>1, <2>2 DEF Invoke
<1>2. CASE UpdateChdist
  BY <1>2 DEF UpdateChdist
<1>3. CASE InstallTemplate
  BY <1>3, CurrentType, InputsAssumption DEF InstallTemplate, Unpack
<1>4. CASE FetchPackage
  BY <1>4, CurrentType, WantedType DEF FetchPackage, Unpack
<1>5. CASE MakeJobs
  BY <1>5 DEF MakeJobs
<1>6. CASE Sign
  BY <1>6, RunStep, CurrentType DEF Sign
<1>7. CASE SignReturns
  BY <1>7 DEF SignReturns
<1>8. CASE Prepare
  BY <1>8 DEF Prepare
<1>9. CASE Remove
  BY <1>9 DEF Remove
<1>10. CASE Move
  BY <1>10, NewTreeWhole DEF Move
<1>11. CASE NextTemplate
  BY <1>11, CurrentType DEF NextTemplate
<1>12. CASE Stop
  BY <1>12 DEF Stop
<1>13. CASE UNCHANGED vars
  BY <1>13
<1> QED
  BY <1>1, <1>2, <1>3, <1>4, <1>5, <1>6, <1>7, <1>8, <1>9, <1>10, <1>11, <1>12,
     <1>13 DEF Next

-----------------------------------------------------------------------------
(* The steps of a template.                                                *)

LEMMA StepStep == TypeOK /\ StepInv /\ [Next]_vars => StepInv'
<1> SUFFICES ASSUME TypeOK, StepInv, [Next]_vars PROVE StepInv'
  OBVIOUS
<1> USE DEF StepInv, MoveTargetFree, Goto, pool, runVars, vars, Current, Target
<1>1. CASE Invoke \/ UpdateChdist \/ InstallTemplate \/ FetchPackage
  BY <1>1 DEF Invoke, UpdateChdist, InstallTemplate, FetchPackage
<1>2. CASE MakeJobs
  BY <1>2 DEF MakeJobs
<1>3. CASE Sign
  <2>1. PICK t \in Template : t = Current /\ Run(FilesJson[t].files)!Next
    BY <1>3 DEF Sign
  <2>2. /\ signed' \subseteq FilesJson[Current].files
        /\ phase' = "ok" => signed' = FilesJson[Current].files
    BY <1>3, <2>1, RunStep DEF Sign
  <2> QED
    BY <1>3, <2>2 DEF Sign
<1>4. CASE SignReturns
  BY <1>4 DEF SignReturns
<1>5. CASE Prepare
  BY <1>5 DEF Prepare
<1>6. CASE Remove
  <2>1. /\ pc = "remove" /\ pc' \in {"remove", "move"}
        /\ UNCHANGED <<cmd, at, dirs, phase, signed>>
        /\ pc' = "move" => dest'[Target] = Absent
        /\ pc' = "remove" => dest'[Target] = Partial
    BY <1>6, CurrentType DEF Remove, TypeOK
  <2> QED
    BY <2>1, PathsAssumption
<1>7. CASE Move
  BY <1>7 DEF Move
<1>8. CASE NextTemplate \/ Stop
  BY <1>8 DEF NextTemplate, Stop
<1>9. CASE UNCHANGED vars
  BY <1>9
<1> QED
  BY <1>1, <1>2, <1>3, <1>4, <1>5, <1>6, <1>7, <1>8, <1>9 DEF Next

-----------------------------------------------------------------------------
(* Versions.                                                               *)

LEMMA VersionStep ==
  TypeOK /\ StepInv /\ VersionInv /\ [Next]_vars => VersionInv'
<1> SUFFICES ASSUME TypeOK, StepInv, VersionInv, [Next]_vars, VersionsAgree
             PROVE  /\ \A p \in Package : dirs'[p] # None =>
                         \E t \in Template : /\ p \in FilesJson[t].packages
                                            /\ dirs'[p] = Wanted(t, p)
                    /\ SignedVersion'
  BY DEF VersionInv
<1>0. /\ \A p \in Package : dirs[p] # None =>
           \E t \in Template : /\ p \in FilesJson[t].packages
                              /\ dirs[p] = Wanted(t, p)
      /\ SignedVersion
  BY DEF VersionInv
<1> USE DEF Goto, pool, runVars, vars
<1>1. CASE Invoke
  BY <1>0, <1>1 DEF Invoke, SignedVersion
<1>2. CASE FetchPackage
  <2>1. PICK p \in FilesJson[Current].packages :
          dirs' = [dirs EXCEPT ![p] = Wanted(Current, p)]
    BY <1>2 DEF FetchPackage
  <2>2. UNCHANGED dest
    BY <1>2 DEF FetchPackage
  <2> QED
    BY <1>0, <2>1, <2>2, CurrentType DEF SignedVersion, TypeOK
<1>3. CASE Move
  <2>1. UNCHANGED dirs
    BY <1>3 DEF Move
  <2>2. ASSUME NEW g \in NewTree.signatures PROVE g[3] = Wanted(Current, g[1])
    <3>1. PICK f \in signed : g = <<f[1], f[2], dirs[f[1]]>>
      BY DEF NewTree
    <3>2. f[1] \in FilesJson[Current].packages /\ f[1] \in Package
      BY <1>3, <3>1, CurrentType, InputsAssumption DEF Move, StepInv
    <3>3. dirs[f[1]] # None
      BY <1>3, <3>2 DEF Move, StepInv
    <3>4. dirs[f[1]] = Wanted(Current, f[1])
      BY <1>0, <3>2, <3>3, CurrentType DEF VersionsAgree
    <3> QED
      BY <3>1, <3>4
  <2>3. NewTree.template = Current
    BY DEF NewTree
  <2>4. \E new \in {Partial, NewTree} : dest' = [dest EXCEPT ![Target] = new]
    BY <1>3 DEF Move
  <2>5. SignedVersion'
    BY <1>0, <2>2, <2>3, <2>4, PathsAssumption DEF SignedVersion, TypeOK
  <2> QED
    BY <1>0, <2>1, <2>5
<1>4. CASE Remove
  <2>1. UNCHANGED dirs
    BY <1>4 DEF Remove
  <2>2. \E new \in {Partial, Absent} : dest' = [dest EXCEPT ![Target] = new]
    BY <1>4 DEF Remove
  <2>3. SignedVersion'
    BY <1>0, <2>2, PathsAssumption DEF SignedVersion, TypeOK
  <2> QED
    BY <1>0, <2>1, <2>3
<1>5. CASE UNCHANGED <<dirs, dest>>
  BY <1>0, <1>5 DEF SignedVersion
<1> QED
  BY <1>1, <1>2, <1>3, <1>4, <1>5
  DEF Next, UpdateChdist, InstallTemplate, MakeJobs, Sign, SignReturns, Prepare,
      NextTemplate, Stop

-----------------------------------------------------------------------------
(* Delivery.                                                               *)

\* What is delivered elsewhere stays when one destination is changed.
LEMMA WholeElsewhere ==
  ASSUME TypeOK, NEW t \in Template, Whole(t), SourceOf[t] # Target, NEW new,
         dest' = [dest EXCEPT ![Target] = new]
  PROVE  Whole(t)'
<1>1. SourceOf[t] \in Source
  BY InputsAssumption
<1>2. dest'[SourceOf[t]] = dest[SourceOf[t]]
  BY <1>1 DEF TypeOK
<1> QED
  BY <1>2 DEF Whole, FilesOf

LEMMA DeliveryStep ==
  TypeOK /\ StepInv /\ DeliveryInv /\ [Next]_vars => DeliveryInv'
<1> SUFFICES ASSUME TypeOK, StepInv, DeliveryInv, [Next]_vars
             PROVE  DeliveryInv'
  OBVIOUS
<1> DEFINE T(i) == cmd.templates[i]
<1>0. /\ at \in Nat /\ at >= 1 /\ at <= Len(cmd.templates)
      /\ Current \in Template /\ Target \in Source
      /\ \A i \in 1 .. at : T(i) \in Template
  <2>1. cmd.templates \in Seq(Template)
    BY InputsAssumption DEF TypeOK, CommandRecord
  <2> QED
    BY <2>1, CurrentType
<1> USE DEF Goto, pool, runVars, vars
<1>1. CASE Invoke
  BY <1>1 DEF Invoke, DeliveryInv, Behind
<1>2. CASE UpdateChdist \/ InstallTemplate \/ FetchPackage \/ MakeJobs \/ Sign
           \/ SignReturns \/ Prepare
  <2>1. /\ UNCHANGED <<cmd, at, dest>>
        /\ pc \in {"chdist", "template", "packages", "signing", "prepare"}
        /\ pc' \in {"template", "packages", "signing", "prepare", "remove",
                    "move"}
    BY <1>2 DEF UpdateChdist, InstallTemplate, FetchPackage, MakeJobs, Sign,
                SignReturns, Prepare
  <2> QED
    BY <2>1 DEF DeliveryInv, Behind, Whole, Current, Target
<1>3. CASE Remove \/ (Move /\ pc' = "copy")
  <2>1. /\ UNCHANGED <<cmd, at>>
        /\ pc \in {"remove", "move"} /\ pc' \in {"remove", "move", "copy"}
        /\ \E new \in {Partial, Absent} : dest' = [dest EXCEPT ![Target] = new]
    BY <1>3 DEF Remove, Move
  <2>2. Behind = at - 1 /\ Behind' = at - 1 /\ Target' = Target
    BY <2>1 DEF Behind, Current, Target
  <2>3. ASSUME NEW i \in 1 .. at - 1,
               ~ \E j \in i + 1 .. at - 1 : SourceOf[T(j)] = SourceOf[T(i)],
               SourceOf[T(i)] # Target
        PROVE  Whole(T(i))'
    <3>1. Whole(T(i))
      BY <2>1, <2>2, <2>3 DEF DeliveryInv
    <3>2. T(i) \in Template
      BY <1>0
    <3> QED
      BY <2>1, <2>3, <3>1, <3>2, WholeElsewhere
  <2> QED
    BY <2>1, <2>2, <2>3 DEF DeliveryInv, Whole
<1>4. CASE Move /\ pc' = "build"
  <2>1. /\ UNCHANGED <<cmd, at>> /\ pc \in {"move", "copy"}
        /\ dest' = [dest EXCEPT ![Target] = NewTree]
    BY <1>4 DEF Move
  <2>2. Behind = at - 1 /\ Behind' = at
    BY <1>4, <2>1 DEF Behind
  <2>3. Whole(T(at))'
    <3>1. dest'[SourceOf[T(at)]] = NewTree
      BY <1>0, <2>1 DEF TypeOK, Target, Current
    <3> QED
      BY <2>1, <3>1, NewTreeWhole DEF Whole, Current, FilesOf
  <2>4. ASSUME NEW i \in 1 .. at - 1,
               ~ \E j \in i + 1 .. at : SourceOf[T(j)] = SourceOf[T(i)]
        PROVE  Whole(T(i))'
    <3>1. SourceOf[T(i)] # Target
      BY <1>0, <2>4 DEF Target, Current
    <3>2. Whole(T(i))
      BY <1>0, <2>1, <2>2, <2>4, <3>1 DEF DeliveryInv
    <3>3. T(i) \in Template
      BY <1>0
    <3> QED
      BY <2>1, <3>1, <3>2, <3>3, WholeElsewhere
  <2> QED
    BY <1>0, <1>4, <2>1, <2>2, <2>3, <2>4 DEF DeliveryInv, Whole
<1>5. CASE NextTemplate
  <2>1. Behind = at /\ Behind' = at
    BY <1>0, <1>5 DEF NextTemplate, Behind
  <2> QED
    BY <1>0, <1>5, <2>1 DEF NextTemplate, DeliveryInv, Whole
<1>6. CASE Stop
  BY <1>6 DEF Stop, DeliveryInv
<1>7. CASE UNCHANGED vars
  BY <1>7 DEF DeliveryInv, Behind, Whole, Current, Target
<1>8. Move => pc' \in {"copy", "build"}
  BY DEF Move
<1> QED
  BY <1>1, <1>2, <1>3, <1>4, <1>5, <1>6, <1>7, <1>8 DEF Next

-----------------------------------------------------------------------------
(* The theorems.                                                           *)

\* IndInv holds of every behaviour of debsign.
THEOREM Invariance == Spec => []IndInv
<1>1. IndInv /\ [Next]_vars => IndInv'
  BY TypeStep, StepStep, VersionStep, DeliveryStep DEF IndInv
<1> QED
  BY <1>1, InitIndInv, PTL DEF Spec

\* The state of debsign keeps its type.
THEOREM TypeCorrect == Spec => []TypeOK
<1>1. IndInv => TypeOK
  BY DEF IndInv
<1> QED
  BY <1>1, Invariance, PTL

\* A command that reports success has delivered every source package, whole,
\* whatever stopped the commands before it.
THEOREM SuccessDelivers == Spec => []Delivered
<1>1. IndInv => Delivered
  <2> SUFFICES ASSUME IndInv, pc = "done", NEW i \in 1 .. Len(cmd.templates)
               PROVE  \/ \E j \in i + 1 .. Len(cmd.templates) :
                           SourceOf[cmd.templates[j]] = SourceOf[cmd.templates[i]]
                      \/ Whole(cmd.templates[i])
    BY DEF Delivered
  <2>1. Behind = Len(cmd.templates)
    BY DEF IndInv, DeliveryInv, Behind
  <2> QED
    BY <2>1 DEF IndInv, DeliveryInv
<1> QED
  BY <1>1, Invariance, PTL

\* shutil.move never finds a directory in its way.
THEOREM NeverMovedBelow == Spec => []MoveTargetFree
<1>1. IndInv => MoveTargetFree
  BY DEF IndInv, StepInv
<1> QED
  BY <1>1, Invariance, PTL

\* Where the templates agree on versions, each signature in a destination is
\* of the version its template wants.
THEOREM RightVersionSigned ==
  ASSUME VersionsAgree PROVE Spec => []SignedVersion
<1>1. IndInv => SignedVersion
  BY DEF IndInv, VersionInv
<1> QED
  BY <1>1, Invariance, PTL

\* Nothing in the output directory changes before its replacement is signed.
THEOREM OldResultsKept == Spec => UntouchedUntilSigned
<1> DEFINE Signed(s) == /\ s = Target /\ phase = "ok"
                        /\ signed = FilesJson[Current].files
<1>1. IndInv /\ [Next]_vars =>
        [\A s \in Source : dest'[s] # dest[s] => Signed(s)]_vars
  <2> SUFFICES ASSUME IndInv, [Next]_vars, NEW s \in Source, dest'[s] # dest[s]
               PROVE  Signed(s)
    OBVIOUS
  <2>1. Remove \/ Move
    BY DEF Next, vars, Invoke, UpdateChdist, InstallTemplate, FetchPackage,
           MakeJobs, Sign, SignReturns, Prepare, NextTemplate, Stop
  <2>2. /\ pc \in {"remove", "move", "copy"}
        /\ \E new : dest' = [dest EXCEPT ![Target] = new]
    BY <2>1 DEF Remove, Move
  <2>3. s = Target
    BY <2>2 DEF IndInv, TypeOK
  <2> QED
    BY <2>2, <2>3 DEF IndInv, StepInv
<1> QED
  BY <1>1, Invariance, PTL DEF Spec, UntouchedUntilSigned

-----------------------------------------------------------------------------
(* debsign implements OutputDirectory.                                     *)

\* The tree that is moved is one that its place may hold.
LEMMA NewTreeResult ==
  ASSUME TypeOK, StepInv, pc \in {"move", "copy"}
  PROVE  NewTree \in WholeTrees[Target]
<1>1. OneVersion(NewTree)
  <2> SUFFICES ASSUME NEW g \in NewTree.signatures, NEW h \in NewTree.signatures,
                      g[1] = h[1]
               PROVE  g[3] = h[3]
    BY DEF OneVersion
  <2>1. ASSUME NEW k \in NewTree.signatures PROVE k[3] = dirs[k[1]]
    <3>1. PICK f \in signed : k = <<f[1], f[2], dirs[f[1]]>>
      BY DEF NewTree
    <3> QED
      BY <3>1
  <2> QED
    BY <2>1
<1> QED
  BY <1>1, NewTreeWhole, CurrentType DEF WholeTrees, Target

\* Whatever happens to a debsign, and to the ones after it on the same directory:
\* only whole signed trees are put to a place, only where the command found or
\* made it free, and everything else clears.
THEOREM DebSignImplements == Spec => ImplementsDirectory
<1>1. Init => Directory!Init
  BY DEF Init, Directory!Init, place
<1>2. IndInv /\ [Next]_vars => [Directory!Next]_(Directory!directoryVars)
  <2> SUFFICES ASSUME TypeOK, StepInv, [Next]_vars, ~UNCHANGED <<dest, place>>
               PROVE  Directory!Next
    BY DEF IndInv, Directory!directoryVars
  <2>0. Current \in Template /\ Target \in Source /\ None \notin Source
    BY CurrentType, NoneAssumption
  <2> USE DEF Directory!Next, Goto
  <2>1. CASE Invoke \/ UpdateChdist \/ InstallTemplate \/ FetchPackage
             \/ MakeJobs \/ Sign \/ SignReturns \/ NextTemplate
             \/ UNCHANGED vars
    BY <2>1 DEF Invoke, UpdateChdist, InstallTemplate, FetchPackage, MakeJobs,
                Sign, SignReturns, NextTemplate, Ended, place, Current, Target, vars
  <2>2. CASE Prepare
    <3>1. pc = "prepare" /\ UNCHANGED <<cmd, at, dest>> /\ pc' \in {"move", "remove"}
          /\ (pc' = "move" => dest[Target] = Absent)
      BY <2>2 DEF Prepare
    <3>2. place = None /\ pc' = "move" /\ place' = Target
      BY <3>1, <2>0 DEF place, Current, Target
    <3>3. dest' = [dest EXCEPT ![Target] = Absent]
      BY <3>1, <3>2, <2>0 DEF TypeOK
    <3>4. Directory!Free(Target)
      BY <3>2, <3>3 DEF Directory!Free
    <3> QED
      BY <2>0, <3>4
  <2>3. CASE Remove
    <3>1. pc = "remove" /\ UNCHANGED <<cmd, at>> /\ place = None
          /\ dest[Target] # Absent
      BY <2>3 DEF Remove, place, StepInv
    <3>2. CASE dest' = [dest EXCEPT ![Target] = Partial] /\ UNCHANGED pc
      <4>1. Directory!Clear(Target)
        BY <3>1, <3>2 DEF Directory!Clear, place
      <4> QED
        BY <2>0, <4>1
    <3>3. CASE dest' = [dest EXCEPT ![Target] = Absent] /\ pc' = "move"
      <4>1. Directory!Free(Target)
        BY <3>1, <3>3 DEF Directory!Free, place, Current, Target
      <4> QED
        BY <2>0, <4>1
    <3> QED
      BY <2>3, <3>2, <3>3 DEF Remove
  <2>4. CASE Move
    <3>1. pc \in {"move", "copy"} /\ UNCHANGED <<cmd, at>> /\ place = Target
      BY <2>4 DEF Move, place
    <3>2. CASE dest' = [dest EXCEPT ![Target] = Partial] /\ pc' = "copy"
      <4>1. Directory!Copy(Target)
        BY <3>1, <3>2 DEF Directory!Copy, place, Current, Target
      <4> QED
        BY <2>0, <4>1
    <3>3. CASE dest' = [dest EXCEPT ![Target] = NewTree] /\ pc' = "build"
      <4>1. NewTree \in WholeTrees[Target]
        BY <3>1, NewTreeResult
      <4>2. Directory!Deliver(Target)
        BY <3>1, <3>3, <4>1 DEF Directory!Deliver, place
      <4> QED
        BY <2>0, <4>2
    <3> QED
      BY <2>4, <3>2, <3>3 DEF Move
  <2>5. CASE Stop
    <3>1. UNCHANGED dest /\ place' = None
      BY <2>5 DEF Stop, place
    <3>2. Directory!GiveUp
      BY <3>1 DEF Directory!GiveUp
    <3> QED
      BY <3>2
  <2> QED
    BY <2>1, <2>2, <2>3, <2>4, <2>5 DEF Next
<1> QED
  BY <1>1, <1>2, Invariance, PTL DEF Spec, ImplementsDirectory, Directory!Spec
=============================================================================
