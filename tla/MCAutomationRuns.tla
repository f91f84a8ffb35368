--------------------------- MODULE MCAutomationRuns ---------------------------
(* Published graphs for AutomationRuns; 1 is the trigger of each.            *)
EXTENDS AutomationRuns

(* an approval, an agent behind it and a way round it *)
Approved == [ type |-> << "trigger", "approval", "agent", "output" >>,
              asks |-> {}, reads |-> {}, retried |-> {},
              edges |-> { << 1, "default", 2 >>, << 2, "approved", 3 >>, << 2, "rejected", 4 >>,
                          << 3, "default", 4 >> } ]
(* a condition, and a tool that asks on one of its sides, listed against     *)
(* their order                                                               *)
Branching == [ type |-> << "trigger", "output", "tool", "condition" >>,
               asks |-> { 3 }, reads |-> {}, retried |-> {},
               edges |-> { << 1, "default", 4 >>, << 4, "true", 3 >>, << 4, "false", 2 >>,
                           << 3, "default", 2 >>, << 3, "error", 2 >> } ]
(* a tool that reads, with a second attempt, before an agent *)
InSequence == [ type |-> << "trigger", "tool", "agent", "output" >>,
                asks |-> {}, reads |-> { 2 }, retried |-> { 2 },
                edges |-> { << 1, "default", 2 >>, << 2, "default", 3 >>, << 3, "default", 4 >> } ]
(* these three do not compile *)
Cyclic == [ type |-> << "trigger", "tool", "tool", "output" >>,
            asks |-> {}, reads |-> {}, retried |-> {},
            edges |-> { << 1, "default", 2 >>, << 2, "default", 3 >>, << 3, "error", 2 >>,
                        << 3, "default", 4 >> } ]
DeadEnd == [ type |-> << "trigger", "tool", "output" >>,
             asks |-> {}, reads |-> {}, retried |-> {},
             edges |-> { << 1, "default", 2 >>, << 1, "default", 3 >> } ]
Repeating == [ type |-> << "trigger", "tool", "output" >>,
               asks |-> {}, reads |-> {}, retried |-> { 2 },
               edges |-> { << 1, "default", 2 >>, << 2, "default", 3 >> } ]

Definitions == { Approved, Branching, InSequence, Cyclic, DeadEnd, Repeating }
===============================================================================
