----------------------------- MODULE ArmSelector -----------------------------
(***************************************************************************)
(* Which initial route the next annealing run of a solve starts from: the  *)
(* RestartableArmSelector of the adaptive portfolio policies               *)
(* (src/solver/portfolio/policy.rs) and the fixed rotation of the policy   *)
(* Current (src/solver/orchestrator/initializer.rs).  solve_anytime        *)
(* selects an arm, runs it and reports whether it improved the global best *)
(* and how much slot time it reserved, one run at a time.  UCB1 scores and *)
(* Thompson samples are real numbers: their choice ("sampling") is any     *)
(* active arm.  PARALLEL_ALL selects like ROUND_ROBIN, INSTANCE_AWARE like *)
(* WEIGHTED_FAIR.  Policy Current needs no statistics; the model keeps     *)
(* them for it too, so that RotationIsEven can speak of its runs.          *)
(***************************************************************************)
EXTENDS Integers, FiniteSetsExt

CONSTANTS
  ArmCount,        \* the restartable arms are 1..ArmCount, in registration order
  Policies,        \* the policies under study
  Starvations,     \* values of max_starvation_runs under study
  WarmupRuns,      \* racing_warmup_runs
  ShareNum, ShareDen,  \* min_exploration_ratio
  Weight,          \* per arm: its configured weight
  SlotTimes,       \* reserved_slot_ms of a run
  MaxCompleted     \* bound on the number of runs of a solve

Arms == 1..ArmCount
GlobalBest == 0   \* the warm start of policy Current
NoArm == -1

(* PortfolioPolicyConfig::validate *)
ASSUME ConfigAssumption ==
  /\ ArmCount \in Nat \ {0}
  /\ Policies \subseteq {"current", "round_robin", "weighted_fair", "racing", "sampling"}
  /\ Starvations \subseteq Nat \ {0} /\ WarmupRuns \in Nat \ {0}
  /\ ShareNum \in Nat /\ ShareDen \in Nat \ {0} /\ ShareNum <= ShareDen
  /\ Weight \in [Arms -> Nat \ {0}]
  /\ SlotTimes \subseteq Nat
  /\ MaxCompleted \in Nat

VARIABLES
  policy, max_starvation,  \* the configuration, fixed for a solve
  runs,         \* per arm: run_count
  improvements, \* per arm: improvement_count, which is also its reward_sum
  slot_ms,      \* per arm: total_reserved_slot_ms
  pulled,       \* per arm: last_pulled_at
  eliminated,   \* arms racing has removed
  cursor,       \* of the rotation, modulo the number of arms
  completed,    \* total_completed
  target,       \* racing_stage_target
  has_best,     \* a feasible route is known
  running       \* the arm whose run has not returned

selectorVars == <<policy, max_starvation, runs, improvements, slot_ms, pulled, eliminated,
                  cursor, completed, target, has_best, running>>

SelectorInit ==
  /\ policy \in Policies /\ max_starvation \in Starvations
  /\ runs = [a \in Arms |-> 0]
  /\ improvements = [a \in Arms |-> 0]
  /\ slot_ms = [a \in Arms |-> 0]
  /\ pulled = [a \in Arms |-> 0]
  /\ eliminated = {}
  /\ cursor = 0
  /\ completed = 0
  /\ target = WarmupRuns
  /\ has_best \in BOOLEAN
  /\ running = NoArm

-----------------------------------------------------------------------------
Active == Arms \ eliminated

(* The arms that minimise a key, the first of them chosen. *)
First(arms) == Min(arms)
LeastRun == {a \in Active : \A b \in Active : runs[a] <= runs[b]}

(* weighted_virtual_time, compared without a division. *)
LeastVirtualTime ==
  {a \in Active : \A b \in Active : slot_ms[a] * Weight[b] <= slot_ms[b] * Weight[a]}

Unexplored == {a \in Active : runs[a] = 0}

(* Seeded fault: an arm is protected one run late. *)
Starving_late == {a \in Active : completed - pulled[a] > max_starvation}

(* Too many runs of other arms since the last of this one. *)
Starving == {a \in Active : completed - pulled[a] >= max_starvation}

(* The least run arm has less than its share of the exploration ratio. *)
BelowShare(a) ==
  runs[a] * ShareDen * Cardinality(Active) < ShareNum * Max({completed, 1})

(* The next active arm from the cursor on. *)
Distance(a) == (a - 1 - cursor) % ArmCount
NextInRotation == CHOOSE a \in Active : \A b \in Active : Distance(a) <= Distance(b)

Protected == Unexplored # {} \/ Starving # {} \/ BelowShare(First(LeastRun))

protected_arm ==
  IF Unexplored # {} THEN First(Unexplored)
  ELSE IF Starving # {} THEN First(Starving) ELSE First(LeastRun)

-----------------------------------------------------------------------------
Start(a) ==
  /\ running = NoArm /\ completed < MaxCompleted
  /\ running' = a
  /\ UNCHANGED <<policy, max_starvation, runs, improvements, slot_ms, pulled, eliminated,
                 completed, target, has_best>>

(* RestartableArmSelector::select *)
select_protected ==
  /\ policy # "current" /\ Active # {} /\ Protected
  /\ Start(protected_arm)
  /\ UNCHANGED cursor

select_rotation ==
  /\ policy = "round_robin" /\ Active # {} /\ ~Protected
  /\ Start(NextInRotation)
  /\ cursor' = NextInRotation % ArmCount

select_weighted ==
  /\ policy = "weighted_fair" /\ Active # {} /\ ~Protected
  /\ Start(First(LeastVirtualTime))
  /\ UNCHANGED cursor

select_racing ==
  /\ policy = "racing" /\ Active # {} /\ ~Protected
  /\ Start(First(LeastRun))
  /\ UNCHANGED cursor

select_sampling ==
  /\ policy = "sampling" /\ Active # {} /\ ~Protected
  /\ \E a \in Active : Start(a)
  /\ UNCHANGED cursor

(* RoundRobinInitializerSelectionPolicy::select: every arm once, then a    *)
(* warm start from the global best and every arm again.                    *)
rotation(n) ==
  IF n < ArmCount THEN n + 1
  ELSE LET restart == (n - ArmCount) % (ArmCount + 1) IN
       IF restart = 0 /\ has_best THEN GlobalBest ELSE 1 + (Max({restart - 1, 0}) % ArmCount)

select_current ==
  /\ policy = "current"
  /\ Start(rotation(completed))
  /\ UNCHANGED cursor

-----------------------------------------------------------------------------
(* advance_racing_stage: the better half by mean reward survives. *)
Better(r, i, a, b) ==
  \/ i[a] * r[b] > i[b] * r[a]
  \/ i[a] * r[b] = i[b] * r[a] /\ a < b

(* Seeded fault: the worse half stays. *)
Losers_reversed(r, i) ==
  {a \in Active : Cardinality({b \in Active : Better(r, i, a, b)})
                    >= (Cardinality(Active) + 1) \div 2}

Losers(r, i) ==
  {a \in Active : Cardinality({b \in Active : Better(r, i, b, a)})
                    >= (Cardinality(Active) + 1) \div 2}

StageOver(r) == Cardinality(Active) > 1 /\ \A a \in Active : r[a] >= target

(* RestartableArmSelector::observe, when the run of the arm returns. *)
observe(a, reward, slot) ==
  /\ runs' = [runs EXCEPT ![a] = @ + 1]
  /\ improvements' = [improvements EXCEPT ![a] = @ + reward]
  /\ slot_ms' = [slot_ms EXCEPT ![a] = @ + slot]
  /\ pulled' = [pulled EXCEPT ![a] = completed + 1]
  /\ IF policy = "racing" /\ StageOver(runs')
     THEN /\ eliminated' = eliminated \cup Losers(runs', improvements')
          /\ target' = 2 * target
     ELSE UNCHANGED <<eliminated, target>>

run_returns ==
  /\ running # NoArm
  /\ running' = NoArm
  /\ completed' = completed + 1
  /\ \E reward \in {0, 1}, slot \in SlotTimes :
       /\ has_best' = (has_best \/ reward = 1)
       /\ IF running \in Arms
          THEN observe(running, reward, slot)
          ELSE UNCHANGED <<runs, improvements, slot_ms, pulled, eliminated, target>>
  /\ UNCHANGED <<policy, max_starvation, cursor>>

-----------------------------------------------------------------------------
SelectorNext ==
  \/ select_protected \/ select_rotation \/ select_weighted \/ select_racing
  \/ select_sampling \/ select_current \/ run_returns

SelectorSpec == SelectorInit /\ [][SelectorNext]_selectorVars

-----------------------------------------------------------------------------
(* Every variable keeps its type. *)
SelectorTypes ==
  /\ runs \in [Arms -> 0..MaxCompleted] /\ improvements \in [Arms -> 0..MaxCompleted]
  /\ slot_ms \in [Arms -> Nat] /\ pulled \in [Arms -> 0..MaxCompleted]
  /\ eliminated \subseteq Arms /\ cursor \in 0..(ArmCount - 1)
  /\ completed \in 0..MaxCompleted /\ target \in Nat \ {0}
  /\ running \in Arms \cup {GlobalBest, NoArm}

(* Racing never removes its last arm, so select finds one whenever the     *)
(* annealing loop asks, and never the arm whose run is still going on.     *)
AnArmIsLeft == Active # {} /\ running \notin eliminated

(* No active arm waits longer than max_starvation_runs, as long as that is *)
(* at least the number of the other arms.  (With a smaller value the first *)
(* arms, always starved, take all the runs and a later arm gets none.)     *)
NobodyStarves ==
  (policy # "current" /\ max_starvation >= ArmCount - 1) =>
    \A a \in Active : completed - pulled[a] <= max_starvation

(* The rotations treat all arms alike: none gets ahead of another by more  *)
(* than one run, except that the first arm of policy Current also takes    *)
(* the warm starts of a solve that has no route yet.  ROUND_ROBIN needs    *)
(* the starvation limit of NobodyStarves and an exploration ratio of at    *)
(* most a half: above, protected selections leave the cursor behind, and   *)
(* the rotation comes back to arms they have just taken.                   *)
RotationIsEven ==
  (\/ policy = "current"
   \/ /\ policy = "round_robin"
      /\ max_starvation >= ArmCount - 1 /\ 2 * ShareNum <= ShareDen) =>
    \A a, b \in Arms : (policy = "current" /\ a = 1) \/ runs[a] <= runs[b] + 1

(* What racing removes was tried for a whole stage and did no better than  *)
(* anything it keeps, rotations are even, and whatever the policy an arm   *)
(* is left to select.                                                      *)
SelectionIsFair ==
  /\ [][\A a \in eliminated' \ eliminated, b \in Arms \ eliminated' :
         /\ runs'[a] >= target /\ runs'[b] >= target
         /\ improvements'[a] * runs'[b] <= improvements'[b] * runs'[a]]_selectorVars
  /\ [](SelectorTypes /\ AnArmIsLeft /\ RotationIsEven)
=============================================================================
