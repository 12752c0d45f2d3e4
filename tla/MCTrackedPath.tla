--------------------------- MODULE MCTrackedPath ---------------------------
(* Instances of the tracked request path for TLC.                           *)
EXTENDS TrackedPath, TLC

CONSTANTS s1, s2, e1, e2, e3

MCScopeOrder == <<s1, s2>>
MCOneScope == <<s1>>
MCBudgets == {[limit |-> 1, window |-> "total", policy |-> "block"]}
U(c, n) == [completeness |-> c, basis |-> "provider_reported", tokens |-> n]
MCUsages == {U("final", 1), U("partial", 1), U("final", 4)}
MCFinal == {U("final", 1)}

\* A process that starts on a ledger with three unfinished executions of earlier
\* ones, each as far as its process got.
RestartIds == e1 :> 1 @@ e2 :> 2 @@ e3 :> 3
Reached == {"prepared", "authorized", "final", "closed"}
RestartRow(scope, at) ==
  [scope |-> scope, ceiling |-> 1, actual |-> 0, settled |-> at = "closed",
   settled_at |-> 0, expires_at |-> Secs(Ttl)]
RestartInit ==
  \E at \in [Executions -> Reached], scope \in [Executions -> Scopes] :
    /\ JobsInit /\ now = 0 /\ budgets = [s \in Scopes |-> NoBudget] /\ dedup = << >>
    /\ last_id = 3 /\ tracked = 1..3 /\ intents = RestartIds
    /\ rows = [i \in 1..3 |-> LET e == CHOOSE e \in Executions : RestartIds[e] = i
                              IN RestartRow(scope[e], at[e])]
    /\ fence = [e \in Executions |->
         [at |-> 0, phase |-> IF at[e] = "final" THEN "authorized" ELSE at[e]]]
    /\ observed = [e \in {d \in Executions : at[d] = "final"} |->
         [usage |-> U("final", 1), charge |-> 1]]
    /\ outbox = << >> /\ permits = [e \in Executions |-> 0] /\ claims = {} /\ last_token = NoToken
    /\ http = [e \in Executions |-> [Idle EXCEPT !.pc = "lost"]]
    /\ sent = [e \in Executions |-> 0]
    /\ recovery = FreshRecovery /\ verdict = "none" /\ poisoned = FALSE
    /\ faults = 0 /\ crashes = 0
RestartSpec == /\ RestartInit /\ [][TrackedNext]_trackedVars
               /\ WF_trackedVars(StartRecovery) /\ WF_trackedVars(Recover)

Symmetry == Permutations(Executions)
=============================================================================
