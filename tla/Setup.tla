------------------------------- MODULE Setup -------------------------------
(***************************************************************************)
(* `opensighub setup softhsm' beside the commands of KeySetup.  It makes   *)
(* three files and a token, each only if it is not there: the SoftHSM      *)
(* configuration, the PIN file, the token, config.yaml, in this order.     *)
(* Each write_text() creates a file and then fills it, and the run may end *)
(* between the two.                                                        *)
(*                                                                         *)
(* The steps of KeySetup are taken as they are, under the conditions that  *)
(* the files and the token put on them.  Softhsm2-util is external.  An    *)
(* empty SoftHSM configuration selects the system's tokens, on which it    *)
(* may work or fail.                                                       *)
(***************************************************************************)
EXTENDS KeySetup

CONSTANTS
  FreshConfig,           \* what config.yaml holds when it is made
  MaxSetups, MaxStops    \* bounds on SetupStart and SetupStops

ASSUME SetupAssumption ==
  FreshConfig \in Config /\ Loads(FreshConfig) /\ MaxSetups \in Nat /\ MaxStops \in Nat

VARIABLES
  made,         \* each file: is it "absent", "empty" or "written"
  slots,        \* how many tokens labelled opensighub-local there are
  at, on,       \* where setup softhsm is in each terminal, and at which file
  env,          \* is SOFTHSM2_CONF set in the terminal's process
  setups, stops

setupVars == <<made, slots, at, on, env, setups, stops>>
allVars == <<vars, setupVars>>

File == {"conf", "pin", "config"}
Resting == {"idle", "done", "failed"}
SetupStates == Resting \cup {"check", "open", "fill", "show", "init"}

SetupTypeOK ==
  /\ TypeOK
  /\ made \in [File -> {"absent", "empty", "written"}]
  /\ slots \in Nat
  /\ at \in [Proc -> SetupStates] /\ on \in [Proc -> File]
  /\ env \in [Proc -> BOOLEAN]
  /\ setups \in Nat /\ stops \in Nat

\* Everything has been set up, or nothing has.
SetupInit ==
  /\ Init
  /\ \/ made = [f \in File |-> "written"] /\ slots = 1
     \/ /\ made = [f \in File |-> "absent"] /\ slots = 0
        /\ file = FreshConfig /\ token = {}
  /\ at = [p \in Proc |-> "idle"] /\ on = [p \in Proc |-> "conf"]
  /\ env = [p \in Proc |-> FALSE]
  /\ setups = 0 /\ stops = 0

Rests(p) == pc[p] \in Ended /\ at[p] \in Resting

\* enable_local_softhsm2
Enable(p) == env' = [env EXCEPT ![p] = @ \/ made["conf"] # "absent"]

-----------------------------------------------------------------------------
(* setup softhsm                                                           *)

Place(p, where, f) == /\ at' = [at EXCEPT ![p] = where]
                      /\ on' = [on EXCEPT ![p] = f]

SetupStart(p) ==
  /\ Rests(p) /\ setups < MaxSetups
  /\ Place(p, "check", "conf")
  /\ env' = [env EXCEPT ![p] = made["conf"] # "absent"]
  /\ setups' = setups + 1
  /\ UNCHANGED <<vars, made, slots, stops>>

AfterConfig(p, f) ==         \* fault: the token is initialized last
  CASE f = "conf" -> Place(p, "check", "pin")
    [] f = "pin" -> Place(p, "check", "config")
    [] OTHER -> Place(p, "show", "config")

\* What follows when file f has been dealt with.
After(p, f) ==
  CASE f = "conf" -> Place(p, "check", "pin")
    [] f = "pin" -> Place(p, "show", "config")
    [] OTHER -> Place(p, "done", "config")

CheckNothing(p) ==           \* fault: a file that is there is written again
  /\ at[p] = "check" /\ Place(p, "open", on[p])
  /\ UNCHANGED <<vars, made, slots, env, setups, stops>>

CheckFirst(p) ==             \* fault: the first file stands for all of them
  /\ at[p] = "check"
  /\ IF made[on[p]] = "absent" THEN Place(p, "open", on[p])
     ELSE IF on[p] = "conf" THEN Place(p, "done", on[p]) ELSE After(p, on[p])
  /\ UNCHANGED <<vars, made, slots, env, setups, stops>>

CheckFile(p) ==
  /\ at[p] = "check"
  /\ IF made[on[p]] = "absent" THEN Place(p, "open", on[p])
                               ELSE After(p, on[p])
  /\ UNCHANGED <<vars, made, slots, env, setups, stops>>

OpenFile(p) ==
  /\ at[p] = "open"
  /\ made' = [made EXCEPT ![on[p]] = "empty"]
  /\ text' = IF on[p] = "config" THEN "whole" ELSE text   \* what is filled in
  /\ Place(p, "fill", on[p])
  /\ UNCHANGED <<file, hsm, pc, cmd, local, count, slots, env, setups, stops>>

\* As in Write, another process may have written config.yaml since.
FillFile(p) ==
  /\ at[p] = "fill"
  /\ made' = [made EXCEPT ![on[p]] = "written"]
  /\ IF on[p] = "config"
     THEN /\ file' = FreshConfig
          /\ text' \in IF made["config"] = "empty" \/ text = "empty"
                       THEN {"whole"} ELSE {"whole", "mixed"}
     ELSE UNCHANGED disk
  /\ After(p, on[p])
  /\ UNCHANGED <<hsm, pc, cmd, local, count, slots, env, setups, stops>>

ShowNothing(p) ==            \* fault: a token is made without looking
  /\ at[p] = "show"
  /\ Enable(p)
  /\ Place(p, "init", on[p])
  /\ UNCHANGED <<vars, made, slots, setups, stops>>

ShowSlots(p) ==
  /\ at[p] = "show"
  /\ Enable(p)
  /\ IF slots = 0 THEN Place(p, "init", on[p]) ELSE Place(p, "check", "config")
  /\ UNCHANGED <<vars, made, slots, setups, stops>>

InitToken(p) ==
  /\ at[p] = "init"
  /\ slots' = slots + 1
  /\ Place(p, "check", "config")
  /\ UNCHANGED <<vars, made, env, setups, stops>>

\* softhsm2-util fails, a directory is not writable, the process is killed.
SetupStops(p) ==
  /\ at[p] \notin Resting /\ stops < MaxStops
  /\ stops' = stops + 1
  /\ slots' \in IF at[p] = "init" THEN {slots, slots + 1} ELSE {slots}
  /\ Place(p, "failed", on[p])
  /\ UNCHANGED <<vars, made, env, setups>>

SetupStep(p) == \/ CheckFile(p) \/ OpenFile(p) \/ FillFile(p)
                \/ ShowSlots(p) \/ InitToken(p)

-----------------------------------------------------------------------------
(* The commands of KeySetup, under the conditions of the set-up.           *)

InvokeKeyCommand(p) ==
  /\ Invoke(p) /\ Rests(p)
  /\ env' = [env EXCEPT ![p] = made["conf"] # "absent"]
  /\ UNCHANGED <<made, slots, at, on, setups, stops>>

Login == {"generate", "selfsign", "delete", "discard", "import"}

\* genkey requires the PIN file; a step that is not failing finds the token,
\* and logs in with a PIN.
KeyCommandStep(p) ==
  /\ Step(p)
  /\ pc[p] = "load" /\ pc'[p] # "failed" =>
       /\ made["config"] = "written"
       /\ cmd[p].op = "genkey" => made["pin"] # "absent"
  /\ pc[p] \in Tools => env[p] /\ slots > 0
  /\ pc[p] \in Login => made["pin"] = "written"
  /\ made' = IF pc[p] = "save" THEN [made EXCEPT !["config"] = "written"]
                               ELSE made
  /\ UNCHANGED <<slots, at, on, env, setups, stops>>

KeyCommandFault(p) == Fault(p) /\ UNCHANGED setupVars

SetupNext ==
  \E p \in Proc : \/ SetupStart(p) \/ SetupStep(p) \/ SetupStops(p)
                  \/ InvokeKeyCommand(p) \/ KeyCommandStep(p)
                  \/ KeyCommandFault(p)

SetupSpec == SetupInit /\ [][SetupNext]_allVars

-----------------------------------------------------------------------------
(* What the set-up must guarantee, where commands do not overlap.          *)

\* `Done' is said only of a set-up that is there, whatever earlier runs were
\* stopped at, and that is usable where none was stopped.
SetupDone ==
  \A p \in Proc : at[p] = "done" =>
    /\ slots = 1
    /\ \A f \in File : /\ made[f] # "absent"
                       /\ stops = 0 => made[f] = "written"

\* However often it is stopped and repeated, there is one token of the name.
OneLocalToken == slots \in {0, 1}

\* `already exists, leaving it untouched': a run takes nothing from a file that
\* is there, and what config.yaml says changes only where a command saves it.
LeavesFiles ==
  /\ \A f \in File : made[f] = "written" => made'[f] = "written"
  /\ file' # file => \E p \in Proc : pc[p] = "write"

FilesUntouched == [][LeavesFiles]_allVars

\* A command that has found its configuration also finds the token it speaks
\* of, with the environment and the PIN file to use it: config.yaml is made
\* last, and SOFTHSM2_CONF is looked for before config.yaml is read.
ToolsReady ==
  \A p \in Proc : pc[p] \notin Ended \cup {"load"} =>
    /\ env[p] /\ slots > 0
    /\ made["conf"] # "absent" /\ made["pin"] # "absent"
    /\ stops = 0 => made["pin"] = "written"

\* The set-up gives the commands nothing but a place to work: with it, they
\* take the steps of KeySetup and no others.
ImplementsKeySetup == Spec

-----------------------------------------------------------------------------
(* Why they hold: the inductive invariants.                                *)

\* The files are made in order, and the token between the last two.
OrderInv ==
  /\ made["pin"] # "absent" => made["conf"] # "absent"
  /\ slots > 0 => made["pin"] # "absent"
  /\ made["config"] # "absent" => slots > 0

Working(p) == pc[p] \notin Ended \cup {"load"}

\* However many terminals there are: what a run has gone past is there.
PastInv ==
  /\ OrderInv
  /\ Loads(file)
  /\ \A p \in Proc :
       /\ at[p] \notin Resting /\ on[p] # "conf" => made["conf"] # "absent"
       /\ at[p] \notin Resting /\ on[p] = "config" => made["pin"] # "absent"
       /\ at[p] \in {"check", "open", "fill"} /\ on[p] = "config" => slots > 0
       /\ at[p] \in {"show", "init"} => on[p] = "config"
       /\ at[p] = "fill" => made[on[p]] # "absent"
       /\ at[p] = "done" => slots > 0 /\ \A f \in File : made[f] # "absent"
       /\ Working(p) => slots > 0

\* Where commands do not overlap: what has been checked stays as it was found.
AloneSetupInv ==
  /\ made["config"] # "written" => file = FreshConfig /\ text = "whole"
  /\ slots \in {0, 1}
  /\ \A p \in Proc :
       /\ pc[p] \in Ended \/ at[p] \in Resting
       /\ pc[p] = "load" /\ made["conf"] # "absent" => env[p]
       /\ Working(p) => env[p] /\ made["config"] = "written"
       /\ at[p] = "open" => made[on[p]] = "absent"
       /\ at[p] = "fill" => made[on[p]] = "empty"
       /\ at[p] = "init" => slots = 0
       /\ stops = 0 => \A f \in File :
            made[f] = "empty" => at[p] = "fill" /\ on[p] = f
=============================================================================
