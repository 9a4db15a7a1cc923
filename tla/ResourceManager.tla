-------------------------- MODULE ResourceManager ---------------------------
(***************************************************************************)
(* ResourceManager (src/solver/portfolio/resources.rs): the CPU slots,     *)
(* runs, external processes and memory that the solver strategies of all   *)
(* jobs share.  A holder is a strategy execution; every iteration of       *)
(* acquire_until happens under the manager's mutex and is one step.  The   *)
(* wait is a timed one (5 ms), so a waiter looks again whether or not a    *)
(* release notifies it.                                                    *)
(***************************************************************************)
EXTENDS Integers, FiniteSets, Functions

CONSTANTS
  Holders,       \* strategy executions
  Requests,      \* the ResourceRequests they may make
  CpuSlots, MaxRuns, MaxProcesses,   \* ResourceLimits
  MemoryLimit,   \* memory_limit_bytes, NoLimit for None
  MaxMemory      \* u64::MAX, where the memory counter saturates

NoLimit == -1

ResourceRequest ==
  [cpu : Nat, threads : Nat, processes : Nat, memory : 0..MaxMemory]

ASSUME HoldersAssumption == IsFiniteSet(Holders)
ASSUME RequestsAssumption == Requests \subseteq ResourceRequest
(* ResourceManager::new refuses limits without a CPU slot or a run. *)
ASSUME LimitsAssumption ==
  /\ CpuSlots \in Nat \ {0} /\ MaxRuns \in Nat \ {0} /\ MaxProcesses \in Nat
  /\ MaxMemory \in Nat /\ MemoryLimit \in {NoLimit} \cup 0..MaxMemory

VARIABLES
  usage,      \* ResourceState.usage
  holder,     \* per execution: where it stands in its acquisition
  request,    \* and what it asked for
  cancelled,  \* executions whose CancellationToken is cancelled
  expired     \* executions whose deadline has passed

vars == <<usage, holder, request, cancelled, expired>>

ResourceUsage ==
  [cpu : 0..CpuSlots, runs : 0..MaxRuns, processes : 0..MaxProcesses,
   memory : 0..MaxMemory]

HolderStates == {"idle", "waiting", "holding", "released", "invalid",
                 "unavailable", "cancelled", "deadline"}

NoRequest == [cpu |-> 0, threads |-> 0, processes |-> 0, memory |-> 0]

Init ==
  /\ usage = [cpu |-> 0, runs |-> 0, processes |-> 0, memory |-> 0]
  /\ holder = [h \in Holders |-> "idle"]
  /\ request = [h \in Holders |-> NoRequest]
  /\ cancelled = {}
  /\ expired = {}

-----------------------------------------------------------------------------
SaturatingAdd(a, b) == IF a + b > MaxMemory THEN MaxMemory ELSE a + b

SaturatingSub(a, b) == IF a < b THEN 0 ELSE a - b

validate_request(r) ==
  /\ r.cpu # 0 /\ r.threads # 0 /\ r.threads <= r.cpu
  /\ r.cpu <= CpuSlots
  /\ r.processes <= MaxProcesses
  /\ MemoryLimit # NoLimit => r.memory <= MemoryLimit

fits(u, r) ==
  /\ u.runs < MaxRuns
  /\ u.cpu + r.cpu <= CpuSlots
  /\ u.processes + r.processes <= MaxProcesses
  /\ MemoryLimit # NoLimit => SaturatingAdd(u.memory, r.memory) <= MemoryLimit

reserve(u, r) ==
  [cpu       |-> u.cpu + r.cpu,
   runs      |-> u.runs + 1,
   processes |-> u.processes + r.processes,
   memory    |-> SaturatingAdd(u.memory, r.memory)]

(* Seeded faults: the run is not given back; threads are given back for    *)
(* slots.                                                                  *)
released_keeps_run(u, r) ==
  [cpu       |-> SaturatingSub(u.cpu, r.cpu),
   runs      |-> u.runs,
   processes |-> SaturatingSub(u.processes, r.processes),
   memory    |-> SaturatingSub(u.memory, r.memory)]

released_threads(u, r) ==
  [cpu       |-> SaturatingSub(u.cpu, r.threads),
   runs      |-> SaturatingSub(u.runs, 1),
   processes |-> SaturatingSub(u.processes, r.processes),
   memory    |-> SaturatingSub(u.memory, r.memory)]

(* What dropping a lease gives back. *)
released(u, r) ==
  [cpu       |-> SaturatingSub(u.cpu, r.cpu),
   runs      |-> SaturatingSub(u.runs, 1),
   processes |-> SaturatingSub(u.processes, r.processes),
   memory    |-> SaturatingSub(u.memory, r.memory)]

-----------------------------------------------------------------------------
Enter(h, r, state) ==
  /\ holder[h] = "idle"
  /\ holder' = [holder EXCEPT ![h] = state]
  /\ request' = [request EXCEPT ![h] = r]
  /\ UNCHANGED <<cancelled, expired>>

Refused(h, r) ==
  /\ ~validate_request(r)
  /\ Enter(h, r, "invalid")
  /\ UNCHANGED usage

try_acquire(h, r) ==
  /\ validate_request(r)
  /\ Enter(h, r, IF fits(usage, r) THEN "holding" ELSE "unavailable")
  /\ usage' = IF fits(usage, r) THEN reserve(usage, r) ELSE usage

acquire_until(h, r) ==
  /\ validate_request(r)
  /\ Enter(h, r, "waiting")
  /\ UNCHANGED usage

Leave(h, state) ==
  /\ holder' = [holder EXCEPT ![h] = state]
  /\ UNCHANGED <<request, cancelled, expired>>

(* An iteration of the loop: cancellation, capacity, deadline, in order. *)
wait_cancelled(h) ==
  /\ holder[h] = "waiting" /\ h \in cancelled
  /\ Leave(h, "cancelled")
  /\ UNCHANGED usage

wait_fits(h) ==
  /\ holder[h] = "waiting" /\ h \notin cancelled
  /\ fits(usage, request[h])
  /\ usage' = reserve(usage, request[h])
  /\ Leave(h, "holding")

(* Seeded fault: the deadline is looked at before the capacity. *)
wait_expired_first(h) ==
  /\ holder[h] = "waiting" /\ h \notin cancelled
  /\ h \in expired
  /\ Leave(h, "deadline")
  /\ UNCHANGED usage

wait_expired(h) ==
  /\ holder[h] = "waiting" /\ h \notin cancelled
  /\ ~fits(usage, request[h])
  /\ h \in expired
  /\ Leave(h, "deadline")
  /\ UNCHANGED usage

(* Drop for ResourceLease, when the execution ends. *)
drop_lease(h) ==
  /\ holder[h] = "holding"
  /\ usage' = released(usage, request[h])
  /\ Leave(h, "released")

-----------------------------------------------------------------------------
(* The environment: somebody cancels the job, time passes. *)
(* The executions of one job share its token. *)
CancelTokens(job) ==
  /\ ~ (job \subseteq cancelled)
  /\ cancelled' = cancelled \cup job
  /\ UNCHANGED <<usage, holder, request, expired>>

DeadlinePasses(h) ==
  /\ h \notin expired
  /\ expired' = expired \cup {h}
  /\ UNCHANGED <<usage, holder, request, cancelled>>

Wait(h) == wait_cancelled(h) \/ wait_fits(h) \/ wait_expired(h)

Acquire(h) ==
  \E r \in Requests : Refused(h, r) \/ try_acquire(h, r) \/ acquire_until(h, r)

Next ==
  \/ \E h \in Holders : Acquire(h) \/ Wait(h) \/ drop_lease(h) \/ DeadlinePasses(h)
  \/ \E job \in SUBSET Holders : CancelTokens(job)

Spec == Init /\ [][Next]_vars

-----------------------------------------------------------------------------
Holding == {h \in Holders : holder[h] = "holding"}

(* What every execution asked for, and what the leases add up to. *)
CpuOf == [h \in Holders |-> request[h].cpu]
ProcessesOf == [h \in Holders |-> request[h].processes]
MemoryOf == [h \in Holders |-> request[h].memory]

Leased(amount) == SumFunctionOnSet(amount, Holding)

(* The usage stays within every limit and its counters never underflow. *)
TypeOK ==
  /\ usage \in ResourceUsage
  /\ holder \in [Holders -> HolderStates]
  /\ request \in [Holders -> ResourceRequest]
  /\ cancelled \subseteq Holders
  /\ expired \subseteq Holders

(* The runs counter counts the leases, so no more than max_concurrent_runs *)
(* executions ever hold one at a time.                                     *)
RunsCounted ==
  usage.runs = Cardinality(Holding) /\ Cardinality(Holding) <= MaxRuns

(* The leases together stay within the CPU slots, the processes and, if a  *)
(* limit below u64::MAX is configured, the memory: the counters are the    *)
(* sums over the leases and the saturating arithmetic never loses any.     *)
LeasesWithinLimits ==
  /\ Leased(CpuOf) = usage.cpu /\ usage.cpu <= CpuSlots
  /\ Leased(ProcessesOf) = usage.processes /\ usage.processes <= MaxProcesses
  /\ MemoryLimit \in 0..(MaxMemory - 1) =>
       /\ Leased(MemoryOf) = usage.memory
       /\ usage.memory <= MemoryLimit

(* A waiter is turned away by its deadline only while another execution    *)
(* holds a lease: capacity given back is never forgotten, and a request    *)
(* that passed validation fits the idle manager.                           *)
DeadlineMeansContention ==
  [][\A h \in Holders : (holder[h] = "waiting" /\ holder'[h] = "deadline")
       => Holding # {}]_vars
=============================================================================
