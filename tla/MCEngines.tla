----------------------------- MODULE MCEngines ------------------------------
(***************************************************************************)
(* Four instances checked by one run of TLC: a team that plans two tasks,  *)
(* a team whose host runs an attempt, a workflow, and the model call of a  *)
(* turn.  The scenario is chosen in the initial state; the components of   *)
(* the others stand still.                                                 *)
(***************************************************************************)
EXTENDS MCTeam, MCWorkflow, CallTurn

CONSTANT k2

VARIABLE scenario

attemptVars == <<child, ledger, latest, run>>

(* Two tasks, one of them with two attempts, and no mail.                  *)
Planning ==
    /\ Next
    /\ team'.mail = <<>>
    /\ Len(team'.tasks[k2].attempts) <= 1
    /\ UNCHANGED <<attemptVars, flowVars, turnVars>>

(* One task and its first attempt; a message of somebody else and the      *)
(* report of the attempt.                                                  *)
FirstAttempt ==
    /\ team'.tasks[k2] = NoTask
    /\ Len(team'.tasks[k1].attempts) <= 1
    /\ team'.tasks[k1].attempts = <<>> \/ team'.tasks[k1].status \notin {"ready", "claimed"}
    /\ team'.members[m1] # "disabled"
    /\ Cardinality({i \in DOMAIN team'.mail : team'.mail[i].id = NoAttempt}) <= 1
    /\ \A r \in Runners : run'[r].at = "idle" \/ run'[r].attempt = <<k1, 1>>
Attempting == AttemptNext /\ FirstAttempt /\ UNCHANGED <<flowVars, turnVars>>

Flowing == FlowNext /\ UNCHANGED <<vars, turnVars>>

Calling == TurnNext /\ UNCHANGED <<vars, flowVars>>

EnginesInit ==
    /\ AttemptInit /\ FlowInit /\ TurnInit
    /\ scenario \in {"planning", "attempts", "workflow", "call"}
    /\ scenario # "call" => policy = [mode |-> "discard", replays |-> 0]

EnginesNext ==
    /\ UNCHANGED scenario
    /\ \/ scenario = "planning" /\ Planning
       \/ scenario = "attempts" /\ Attempting
       \/ scenario = "workflow" /\ Flowing
       \/ scenario = "call" /\ Calling

EnginesSpec == EnginesInit /\ [][EnginesNext]_<<vars, flowVars, turnVars, scenario>>
=============================================================================
