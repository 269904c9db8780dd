----------------------------- MODULE KillSwitch -----------------------------
(***************************************************************************)
(* shared/kill_switch.py: the kill flag is a singleton of one PROCESS.     *)
(* The API server and the watchdog each hold a flag of their own, and      *)
(* share only the OpenShell sandbox both of them can delete.               *)
(***************************************************************************)
VARIABLES
    killFlag,   \* killFlag[p]: _kill_flag.is_set() in process p
    sandbox     \* the OpenShell sandbox: "ready" or "absent"

killVars == <<killFlag, sandbox>>

Processes == {"api", "watchdog"}

KillTypeOK ==
    /\ killFlag \in [Processes -> BOOLEAN]
    /\ sandbox \in {"ready", "absent"}

KillInit ==
    /\ killFlag = [p \in Processes |-> FALSE]
    /\ sandbox = "ready"

(* _stop_openshell_sandbox: "openshell sandbox delete", whose failure is   *)
(* logged and swallowed, so that the sandbox may survive.                  *)
StopSandbox == sandbox' \in {"absent", sandbox}

(* activate(): an already active switch returns early and does not try to  *)
(* delete the sandbox again.                                               *)
Activate(p) ==
    \/ /\ killFlag[p]
       /\ UNCHANGED killVars
    \/ /\ ~killFlag[p]
       /\ killFlag' = [killFlag EXCEPT ![p] = TRUE]
       /\ StopSandbox

(* reset(): clears the flag, and only the flag.                            *)
Reset(p) == killFlag' = [killFlag EXCEPT ![p] = FALSE]

(* "openshell sandbox create", which may fail.                             *)
CreateSandbox == sandbox' \in {"ready", sandbox}
=============================================================================
