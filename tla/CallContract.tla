----------------------------- MODULE CallContract -----------------------------
(***************************************************************************)
(* What a caller of the bridge may rely on, whatever happens to threads,   *)
(* connections and deadlines in between (docs/ARCHITECTURE.md, "It never   *)
(* automatically retries a mutation", and the error taxonomy):             *)
(*   - a command only runs for a call that was made;                       *)
(*   - a mutation runs at most once per call;                              *)
(*   - an ok result means that the command has run;                        *)
(*   - ok and error are final: the mutation does not run after them;       *)
(*   - a refused call never runs at all;                                   *)
(*   - any other failure settles nothing: the command may still run.       *)
(***************************************************************************)
EXTENDS Integers

CONSTANT Calls  \* identities of the calls

VARIABLES phase,    \* what the caller of each call knows
          mutation, \* the call asks for a change of the Live Set
          runs      \* how often the command of each call has begun to run

contractVars == <<phase, mutation, runs>>

Phases == {"new", "open", "ok", "error", "refused", "unknown"}

ContractInit ==
  /\ phase = [i \in Calls |-> "new"]
  /\ mutation = [i \in Calls |-> FALSE]
  /\ runs = [i \in Calls |-> 0]

Begin(i, m) ==
  /\ phase[i] = "new"
  /\ mutation' = [mutation EXCEPT ![i] = m]
  /\ phase' = [phase EXCEPT ![i] = "open"]
  /\ UNCHANGED runs

Run(i) ==
  /\ phase[i] \in Phases \ {"new", "refused"}
  /\ mutation[i] => runs[i] = 0 /\ phase[i] \in {"open", "unknown"}
  /\ runs' = [runs EXCEPT ![i] = @ + 1]
  /\ UNCHANGED <<phase, mutation>>

Return(i, how) ==
  /\ phase[i] = "open"
  /\ how = "ok" => runs[i] > 0
  /\ how = "refused" => runs[i] = 0
  /\ phase' = [phase EXCEPT ![i] = how]
  /\ UNCHANGED <<mutation, runs>>

ContractNext ==
  \E i \in Calls :
    \/ \E m \in BOOLEAN : Begin(i, m)
    \/ Run(i)
    \/ \E how \in {"ok", "error", "refused", "unknown"} : Return(i, how)

ContractSpec == ContractInit /\ [][ContractNext]_contractVars
==============================================================================
