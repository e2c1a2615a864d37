-------------------------- MODULE DeploymentStrategy --------------------------
(***************************************************************************)
(* internal/pipeline/strategy.go: the planners that turn a pipeline's      *)
(* deployment strategy into the phases that run before its own steps.  A   *)
(* phase keeps its name, the environment it touches, the share of traffic  *)
(* it opens and, for a rolling update, the first and last instance.        *)
(***************************************************************************)
EXTENDS Integers, Sequences

\* Names are a text and a number, 0 where the text alone names the phase or step.
Named(text)       == <<text, 0>>
Phase(name, env)  == [name |-> name, env |-> env, traffic |-> 0, batch |-> <<0, 0>>]
Shift(pct, env)   == [Phase(<<"canary", pct>>, env) EXCEPT !.traffic = pct]
Batch(k, first, last) ==
  [Phase(<<"rolling-batch", k>>, "production") EXCEPT !.batch = <<first, last>>]

BlueGreenPlan(c) ==
  << Phase(Named("deploy-inactive"), c.inactive), Phase(Named("smoke-inactive"), c.inactive),
     Phase(Named("switch-traffic"), c.inactive), Phase(Named("decommission"), c.active) >>

CanaryPlan(c) ==
  << Phase(Named("deploy-candidate"), c.candidate) >>
    \o [i \in 1..Len(c.stages) |-> Shift(c.stages[i], c.candidate)]

\* ceil(total * surge / 100), at least one; a surge of zero or less means 20%.
CeilDiv(n, d)   == (n + d - 1) \div d
Surge(c)        == IF c.surge <= 0 THEN 20 ELSE c.surge
\* Mutant: one more than the floor.
BatchSizeFloor(c) == (c.total * Surge(c)) \div 100 + 1

BatchSize(c)    == LET b == CeilDiv(c.total * Surge(c), 100) IN IF b <= 0 THEN 1 ELSE b

\* The loop over start: the batches that follow the first done instances.
EndOf(n, b, done) == IF done + b > n THEN n ELSE done + b
RangesFrom(n, b) ==
  LET from[done \in 0..n] ==
        IF done = n THEN <<>>
        ELSE <<[first |-> done + 1, last |-> EndOf(n, b, done)]>> \o from[EndOf(n, b, done)]
  IN  from

RollingPlan(c) ==
  LET ranges == IF c.total <= 0 THEN <<>> ELSE RangesFrom(c.total, BatchSize(c))[0]
  IN  [k \in 1..Len(ranges) |-> Batch(k, ranges[k].first, ranges[k].last)]

\* PlanForPipeline; an unknown strategy is an error, which resolveSteps ignores.
PlanForPipeline(p) ==
  CASE p.strategy = "blue_green" -> BlueGreenPlan(p.config)
    [] p.strategy = "canary"     -> CanaryPlan(p.config)
    [] p.strategy = "rolling"    -> RollingPlan(p.config)
    [] OTHER                     -> <<>>

PhaseToStep(ph) == [name |-> ph.name, type |-> "shell"]

\* service.go, resolveSteps: the strategy's phases, then the pipeline's steps.
ResolveSteps(p) ==
  LET phases == PlanForPipeline(p)
  IN  [i \in 1..Len(phases) |-> PhaseToStep(phases[i])] \o p.steps

StepNames(p) == {ResolveSteps(p)[i].name : i \in DOMAIN ResolveSteps(p)}

-----------------------------------------------------------------------------
(***************************************************************************)
(* strategy.go:155-159: a rolling update touches every instance exactly    *)
(* once, in ascending order, never more than max_surge (rounded up) of     *)
(* them at a time, and uses as few batches as that allows.                 *)
(***************************************************************************)
RollingCovers(c) ==
  LET plan == RollingPlan(c)
      n    == Len(plan)
  IN  /\ n > 0 <=> c.total > 0
      /\ n > 0 => plan[1].batch[1] = 1 /\ plan[n].batch[2] = c.total
      /\ \A k \in 2..n : plan[k].batch[1] = plan[k - 1].batch[2] + 1
      /\ \A k \in 1..n :
           LET size == plan[k].batch[2] - plan[k].batch[1] + 1
           IN  /\ size >= 1
               /\ (size - 1) * 100 < c.total * Surge(c)
               /\ k < n => size * 100 >= c.total * Surge(c)
=============================================================================
