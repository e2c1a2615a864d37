---------------------------- MODULE MCPipelineRun ----------------------------
(* The pipelines of the runs: each strategy, alone and before own steps,   *)
(* a step of an unimplemented type, two steps of one name.                 *)
EXTENDS PipelineRun

Step(n, t) == [name |-> Named(n), type |-> t]
Linear(steps) == [strategy |-> "", config |-> [none |-> 0], steps |-> steps]

MCPipelines ==
  { Linear(<<Step("build", "shell"), Step("test", "shell"), Step("ship", "shell")>>),
    Linear(<<Step("build", "shell"), Step("notify", "http"), Step("ship", "shell")>>),
    Linear(<<Step("build", "shell"), Step("build", "shell")>>),
    [strategy |-> "blue_green", config |-> [active |-> "blue", inactive |-> "green"],
     steps |-> <<Step("test", "shell")>>],
    [strategy |-> "canary",
     config |-> [candidate |-> "green", stages |-> <<1, 25>>],
     steps |-> <<Step("test", "shell")>>],
    [strategy |-> "recreate", config |-> [none |-> 0], steps |-> <<Step("test", "shell")>>] }
  \cup
  { [strategy |-> "rolling", config |-> [total |-> n, surge |-> s],
     steps |-> <<Step("test", "shell")>>] : n \in {0, 1, 3, 4}, s \in {0, 50, 100} }
=============================================================================
