------------------------------ MODULE CommandService ------------------------------
(***************************************************************************)
(* What the control socket promises the caller of send(): a command that   *)
(* resolves has been run by the gateway.  One that is rejected may have    *)
(* been run all the same.  How commands travel is left out.                *)
(***************************************************************************)
EXTENDS Naturals

CONSTANT Cmds

VARIABLES
  outcome,  \* outcome[k]: what the caller of send() knows
  runs      \* runs[k]: how often the gateway has run the command

serviceVars == <<outcome, runs>>

\* What the caller may know of a command.
Outcomes == {"unsent", "waiting", "resolved", "rejected"}

ServiceInit ==
  /\ outcome = [k \in Cmds |-> "unsent"]
  /\ runs = [k \in Cmds |-> 0]

\* A command is given to send(), or refused there; or sent again after it was given up.
Issue(k) ==
  /\ outcome[k] \in {"unsent", "rejected"}
  /\ \E o \in {"waiting", "rejected"} : outcome' = [outcome EXCEPT ![k] = o]
  /\ UNCHANGED runs

\* The gateway runs it, perhaps after its caller has given up.
Run(k) ==
  /\ outcome[k] # "unsent"
  /\ runs' = [runs EXCEPT ![k] = @ + 1]
  /\ UNCHANGED outcome

\* The caller learns that it was run.
Resolve(k) ==
  /\ outcome[k] = "waiting" /\ runs[k] > 0
  /\ outcome' = [outcome EXCEPT ![k] = "resolved"]
  /\ UNCHANGED runs

\* The callers of these commands give up, or are told no.
RejectAll(K) ==
  /\ \A k \in K : outcome[k] = "waiting"
  /\ outcome' = [k \in Cmds |-> IF k \in K THEN "rejected" ELSE outcome[k]]
  /\ UNCHANGED runs

ServiceNext ==
  \/ \E k \in Cmds : Issue(k) \/ Run(k) \/ Resolve(k)
  \/ \E K \in SUBSET Cmds : RejectAll(K)

ServiceSpec == ServiceInit /\ [][ServiceNext]_serviceVars
=================================================================================
