----------------------------- MODULE MCLearning -----------------------------
(* Instances of Recommender and Remediation.                                     *)
EXTENDS Remediation

MCTools == {"fs.read", "repo.test"}
MCToolOrder == <<"fs.read", "repo.test">>
MCSigs == {"unknown", "go"} \X {"standard"}
MCEstimate == [t \in MCTools |-> IF t = "repo.test" THEN 100 ELSE None]
MCCapability ==
    [t \in MCTools |->
        IF t = "fs.read"
        THEN [risk |-> "low", effects |-> "none", approval |-> FALSE, costHint |-> None,
              timeout |-> 10, family |-> "fs", scope |-> "workspace"]
        ELSE [risk |-> "medium", effects |-> "reversible", approval |-> FALSE,
              costHint |-> "expensive", timeout |-> 300, family |-> "repo", scope |-> "repo"]]
MCAllowed == [s \in Sessions |-> IF s = "a1" THEN {} ELSE MCTools]
MCHints == {[tokens |-> 2, matches |-> [t \in MCTools |-> IF t = "repo.test" THEN 2 ELSE 0]]}
MCSamplePolicies == {[n |-> 60, confidence |-> 90], [n |-> 120, confidence |-> 10]}
MCConfigs ==
    [part : {"pipeline"}, sessions : {{"s"}}, telemetry : {"valkey"}, decisions : {"valkey"},
     policies : {TRUE}]
    \cup
    [part : {"service"}, sessions : {{"s"}}, telemetry : {"valkey"}, decisions : {"valkey"},
     policies : {TRUE}]
    \cup
    [part : {"service"}, sessions : {{"s"}}, telemetry : {"memory"}, decisions : {"memory"},
     policies : {FALSE}]
    \cup
    [part : {"agent"}, sessions : {{"a1", "a2"}}, telemetry : {"none"}, decisions : {"memory"},
     policies : {FALSE}]

MCPlaybooks == [failures |-> <<"fs.read", "repo.test">>, down |-> <<>>]
MCAlerts ==
    [name : {"failures", "down"}, valid : {TRUE}, status : {"firing"}]
    \cup {[name |-> "failures", valid |-> TRUE, status |-> "resolved"],
          [name |-> "unknown", valid |-> TRUE, status |-> "firing"],
          [name |-> "failures", valid |-> FALSE, status |-> "firing"]}
=============================================================================
