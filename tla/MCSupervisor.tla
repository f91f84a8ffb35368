---------------------------- MODULE MCSupervisor ----------------------------
EXTENDS Supervisor

(* infra alone, infra <- api, and the whole catalog infra <- worker <- api. *)
OneDependency == [ s \in { "infra" } |-> {} ]
OneRank == [ s \in { "infra" } |-> 0 ]

TwoServices == { "infra", "api" }
TwoDependencies == [ s \in TwoServices |-> IF s = "api" THEN { "infra" } ELSE {} ]
TwoRanks == [ s \in TwoServices |-> IF s = "api" THEN 1 ELSE 0 ]

Catalog == { "infra", "worker", "api" }
CatalogDependencies ==
  [ s \in Catalog |-> CASE s = "infra" -> {}
                        [] s = "worker" -> { "infra" }
                        [] s = "api" -> { "infra", "worker" } ]
CatalogRanks ==
  [ s \in Catalog |-> CASE s = "infra" -> 0 [] s = "worker" -> 1 [] s = "api" -> 2 ]
=============================================================================
