---------------------------- MODULE TeamProcess_proofs ---------------------------
(*****************************************************************************)
(* Proofs about the process of a team: its variables' types, that no agent   *)
(* escapes the supervisor, how far a team may overspend, and what is true    *)
(* when the process has ended, for any agents, schedules, backoffs, budgets  *)
(* and timeouts.                                                             *)
(*****************************************************************************)
EXTENDS TeamProcess, FiniteFolds, FiniteSetTheorems, TLAPS

-----------------------------------------------------------------------------
(* The inductive invariant.  The supervisor still counts whom it has to       *)
(* handle, or to wake, among its tasks, and they stay ended until it does;    *)
(* when it has ended it has none left.                                       *)
Counted ==
  /\ batch \subseteq tracked /\ \A a \in batch : Finished(a)
  /\ batch # {} => sup \in {"handle", "sleep"}
  /\ sup = "sleep" => asleep \in tracked \ batch /\ status[asleep] = "crashed"
  /\ sup = "ended" => tracked = {}

Closing ==
  process \in {"leaving", "exited"} => sup = "ended" /\ threads = {} /\ ~pidFile

ProcessInv == TypeOK /\ NoOrphanAgent /\ Counted /\ Closing

(* The parts of the type invariant. *)
AgentTypes ==
  /\ status \in [Agents -> {"asleep", "working"} \cup Gone]
  /\ DOMAIN age = Agents /\ \A a \in Agents :
       age[a] \in [Tasks(a) -> Nat] /\ \A t \in Tasks(a) : age[a][t] <= Cadence(a, t)
  /\ DOMAIN due = Agents /\ \A a \in Agents : due[a] \subseteq Tasks(a)
  /\ current \in [Agents -> Nat]
  /\ threads \subseteq Agents

SupTypes ==
  /\ sup \in {"watch", "handle", "sleep", "drain", "ended"}
  /\ tracked \subseteq Agents /\ batch \subseteq Agents
  /\ asleep \in Agents \cup {None}
  /\ wait \in Nat
  /\ restarts \in [Agents -> 0 .. Len(Backoffs)]

BudgetTypes ==
  spent \in Nat /\ warned \in BOOLEAN /\ exhausted \in BOOLEAN /\ alive \in BOOLEAN

ExitTypes ==
  /\ watchdog \in {"off", "armed", "grace", "cancelled"}
  /\ timer \in Nat
  /\ process \in {"up", "leaving", "exited", "forced"}
  /\ reason \in {None, "timeout", "sigint", "timeout_force"}
  /\ pidFile \in BOOLEAN

LEMMA Types ==
  TypeOK <=> /\ AgentTypes /\ SupTypes /\ BudgetTypes /\ ExitTypes
             /\ crashes \in 0 .. MaxCrashes
BY DEF TypeOK, AgentTypes, SupTypes, BudgetTypes, ExitTypes

LEMMA TypesNext ==
  AgentTypes' /\ SupTypes' /\ BudgetTypes' /\ ExitTypes' /\ crashes' \in 0 .. MaxCrashes
    => TypeOK'
BY DEF TypeOK, AgentTypes, SupTypes, BudgetTypes, ExitTypes

LEMMA ScheduleTypes ==
  \A a \in Agents : /\ Tasks(a) \subseteq Nat
                    /\ \A t \in Tasks(a) : Cadence(a, t) \in Nat \ {0}
<1> SUFFICES ASSUME NEW a \in Agents
             PROVE  /\ Tasks(a) \subseteq Nat
                    /\ \A t \in Tasks(a) : Cadence(a, t) \in Nat \ {0}
  OBVIOUS
<1>1. Schedule[a] \in Seq([cadence : Nat \ {0}, words : SUBSET STRING])
  BY TeamProcessAssumption
<1> DEFINE Task == [cadence : Nat \ {0}, words : SUBSET STRING]
<1>4. \A task \in Task : task.cadence \in Nat \ {0}
  OBVIOUS
<1> HIDE DEF Task
<1>2. DOMAIN Schedule[a] \subseteq Nat
  BY <1>1 DEF Task
<1>3. \A t \in DOMAIN Schedule[a] : Schedule[a][t] \in Task
  <2>1. Schedule[a] \in Seq(Task)
    BY <1>1 DEF Task
  <2> QED
    BY <2>1
<1> QED
  BY <1>2, <1>3, <1>4 DEF Tasks, Cadence

LEMMA InitInv == Init => ProcessInv
<1> SUFFICES ASSUME Init PROVE ProcessInv
  OBVIOUS
<1>1. AgentTypes
  <2>1. \A a \in Agents : /\ Overdue(a) \in [Tasks(a) -> Nat]
                          /\ \A t \in Tasks(a) : Overdue(a)[t] <= Cadence(a, t)
    BY ScheduleTypes DEF Overdue
  <2>2. DOMAIN age = Agents /\ \A a \in Agents : age[a] = Overdue(a)
    BY DEF Init
  <2> QED
    BY <2>1, <2>2 DEF Init, AgentTypes, Gone
<1>2. SupTypes
  <2>1. Len(Backoffs) \in Nat /\ 0 \in 0 .. Len(Backoffs)
    BY TeamProcessAssumption
  <2> QED
    BY <2>1 DEF Init, SupTypes
<1>3. BudgetTypes /\ ExitTypes /\ crashes \in 0 .. MaxCrashes
  <2>1. timer \in Nat /\ watchdog \in {"off", "armed"}
    BY TeamProcessAssumption DEF Init
  <2>2. 0 \in 0 .. MaxCrashes
    BY TeamProcessAssumption
  <2> QED
    BY <2>1, <2>2 DEF Init, BudgetTypes, ExitTypes
<1>4. NoOrphanAgent /\ Counted /\ Closing
  BY DEF Init, NoOrphanAgent, Counted, Closing
<1> QED
  BY <1>1, <1>2, <1>3, <1>4, Types DEF ProcessInv

-----------------------------------------------------------------------------
(* The agents *)

(* An agent that goes on to its next task is asleep or at work. *)
LEMMA TakeTypes ==
  ASSUME AgentTypes, NEW a \in Agents, NEW tasks \in SUBSET Tasks(a), Take(a, tasks)
  PROVE  /\ status' \in [Agents -> {"asleep", "working"} \cup Gone]
         /\ status'[a] \in {"asleep", "working"}
         /\ \A b \in Agents : b # a => status'[b] = status[b]
         /\ DOMAIN due' = Agents /\ \A b \in Agents : due'[b] \subseteq Tasks(b)
         /\ current' \in [Agents -> Nat]
<1> DEFINE jobs == {t \in tasks : Route(a, t) # "noop"}
<1>1. jobs \subseteq Tasks(a) /\ jobs \subseteq Nat
  BY ScheduleTypes
<1>2. jobs # {} => Min(jobs) \in Nat
  BY <1>1, MinIsLeast
<1>3. \/ /\ status' = [status EXCEPT ![a] = "asleep"]
         /\ current' = [current EXCEPT ![a] = 0]
         /\ due' = [due EXCEPT ![a] = {}]
      \/ /\ jobs # {} /\ status' = [status EXCEPT ![a] = "working"]
         /\ current' = [current EXCEPT ![a] = Min(jobs)]
         /\ due' = [due EXCEPT ![a] = jobs \ {Min(jobs)}]
  BY DEF Take
<1> HIDE DEF jobs
<1>4. CASE /\ status' = [status EXCEPT ![a] = "asleep"]
           /\ current' = [current EXCEPT ![a] = 0]
           /\ due' = [due EXCEPT ![a] = {}]
  BY <1>4 DEF AgentTypes
<1>5. CASE /\ jobs # {} /\ status' = [status EXCEPT ![a] = "working"]
           /\ current' = [current EXCEPT ![a] = Min(jobs)]
           /\ due' = [due EXCEPT ![a] = jobs \ {Min(jobs)}]
  <2>1. /\ status' \in [Agents -> {"asleep", "working"} \cup Gone]
        /\ status'[a] = "working" /\ \A b \in Agents : b # a => status'[b] = status[b]
    BY <1>5 DEF AgentTypes
  <2>2. DOMAIN due' = Agents /\ \A b \in Agents : due'[b] \subseteq Tasks(b)
    BY <1>1, <1>5 DEF AgentTypes
  <2>3. current' \in [Agents -> Nat]
    BY <1>2, <1>5 DEF AgentTypes
  <2> QED
    BY <2>1, <2>2, <2>3
<1> QED
  BY <1>3, <1>4, <1>5

LEMMA LeavesTypes ==
  ASSUME AgentTypes, NEW a \in Agents, NEW where \in Gone, Leaves(a, where)
  PROVE  /\ status' \in [Agents -> {"asleep", "working"} \cup Gone]
         /\ status'[a] = where
         /\ \A b \in Agents : b # a => status'[b] = status[b]
         /\ DOMAIN due' = Agents /\ \A b \in Agents : due'[b] \subseteq Tasks(b)
         /\ current' \in [Agents -> Nat]
BY DEF Leaves, AgentTypes

LEMMA ChargeTypes ==
  ASSUME BudgetTypes, NEW cost \in Nat, Charge(cost)
  PROVE  BudgetTypes'
<1>1. spent' \in Nat
  BY DEF Charge, BudgetTypes
<1>2. warned' \in BOOLEAN /\ exhausted' \in BOOLEAN /\ alive' \in BOOLEAN
  BY Zenon DEF Charge, BudgetTypes
<1> QED
  BY <1>1, <1>2 DEF BudgetTypes

(* An agent that has not ended is tracked before and after its own step, and  *)
(* no step of it makes a thread once the supervisor has ended.               *)
LEMMA AgentKeeps ==
  ASSUME ProcessInv, NEW a \in Agents, status[a] \notin Gone,
         \A b \in Agents : b # a => status'[b] = status[b],
         threads' \subseteq threads \cup {a},
         UNCHANGED <<supVars, exitVars>>
  PROVE  NoOrphanAgent' /\ Counted' /\ Closing'
<1>0. UNCHANGED <<sup, tracked, batch, asleep, process, pidFile>>
  BY DEF supVars, exitVars
<1>1. a \in tracked /\ batch \subseteq Agents
  BY DEF ProcessInv, NoOrphanAgent, TypeOK
<1>2. a \notin batch
  BY DEF ProcessInv, Counted, Finished, Gone
<1>3. sup = "sleep" => asleep \in Agents /\ asleep # a
  BY DEF ProcessInv, Counted, TypeOK, Gone
<1>4. NoOrphanAgent'
  BY <1>0, <1>1 DEF ProcessInv, NoOrphanAgent
<1>5. Counted'
  BY <1>0, <1>1, <1>2, <1>3 DEF ProcessInv, Counted, Finished
<1>6. sup # "ended"
  BY <1>1 DEF ProcessInv, Counted
<1>7. Closing'
  BY <1>0, <1>6 DEF ProcessInv, Closing
<1> QED
  BY <1>4, <1>5, <1>7

LEMMA AgentsStep ==
  ASSUME ProcessInv, NEW a \in Agents, AgentStep(a) \/ WorkStep(a) \/ ThreadEnds(a)
  PROVE  ProcessInv'
<1>t. AgentTypes /\ SupTypes /\ BudgetTypes /\ ExitTypes /\ crashes \in 0 .. MaxCrashes
  BY Types DEF ProcessInv
<1>u. UNCHANGED <<supVars, exitVars>>
  BY DEF AgentStep, WorkStep, Wake, Stops, EndWork, TimesOut, Crash, ThreadEnds
<1>v. SupTypes' /\ ExitTypes'
  BY <1>t, <1>u DEF supVars, exitVars, SupTypes, ExitTypes
<1>w. \A b \in Agents : due[b] \subseteq Tasks(b)
  BY <1>t DEF AgentTypes
<1>1. CASE Wake(a)
  <2>1. status[a] \notin Gone
    BY <1>1 DEF Wake, Gone
  <2>2. Pending(a) \in SUBSET Tasks(a) /\ Take(a, Pending(a)) /\ threads' = threads
    BY <1>1 DEF Wake, Pending
  <2>3. /\ DOMAIN age' = Agents
        /\ \A b \in Agents : /\ age'[b] \in [Tasks(b) -> Nat]
                             /\ \A t \in Tasks(b) : age'[b][t] <= Cadence(b, t)
    <3>1. age' = [age EXCEPT ![a] = [t \in Tasks(a) |-> IF t \in Pending(a) THEN 0 ELSE age[a][t]]]
      BY <1>1 DEF Wake
    <3>2. DOMAIN age' = Agents /\ \A b \in Agents : b # a => age'[b] = age[b]
      BY <1>t, <3>1 DEF AgentTypes
    <3>3. age'[a] = [t \in Tasks(a) |-> IF t \in Pending(a) THEN 0 ELSE age[a][t]]
      BY <1>t, <3>1 DEF AgentTypes
    <3>4. /\ age'[a] \in [Tasks(a) -> Nat]
          /\ \A t \in Tasks(a) : age'[a][t] <= Cadence(a, t)
      BY <1>t, <3>3, ScheduleTypes DEF AgentTypes
    <3> QED
      BY <1>t, <3>2, <3>4 DEF AgentTypes
  <2>4. AgentTypes'
    BY <1>t, <2>2, <2>3, TakeTypes DEF AgentTypes
  <2>5. BudgetTypes' /\ crashes' \in 0 .. MaxCrashes
    BY <1>t, <1>1 DEF Wake, budgetVars, BudgetTypes
  <2>6. NoOrphanAgent' /\ Counted' /\ Closing'
    BY <1>t, <1>u, <2>1, <2>2, TakeTypes, AgentKeeps
  <2> QED
    BY <1>v, <2>4, <2>5, <2>6, TypesNext DEF ProcessInv
<1>2. CASE Stops(a)
  <2>1. status[a] \notin Gone
    BY <1>2 DEF Stops, Gone
  <2>2. /\ status' = [status EXCEPT ![a] = "stopped"]
        /\ UNCHANGED <<age, due, current, threads, alive, budgetVars, crashes>>
    BY <1>2 DEF Stops
  <2>3. AgentTypes'
    BY <1>t, <2>2 DEF AgentTypes, Tasks, Gone
  <2>4. BudgetTypes' /\ crashes' \in 0 .. MaxCrashes
    BY <1>t, <2>2 DEF budgetVars, BudgetTypes
  <2>5. \A b \in Agents : b # a => status'[b] = status[b]
    BY <1>t, <2>2 DEF AgentTypes
  <2>6. NoOrphanAgent' /\ Counted' /\ Closing'
    BY <1>u, <2>1, <2>2, <2>5, AgentKeeps
  <2> QED
    BY <1>v, <2>3, <2>4, <2>6, TypesNext DEF ProcessInv
<1>3. ASSUME EndWork(a) \/ TimesOut(a) PROVE ProcessInv'
  <2>1. status[a] \notin Gone
    BY <1>3 DEF EndWork, TimesOut, Working, Gone
  <2>2. Take(a, due[a]) /\ age' = age /\ threads' \subseteq threads \cup {a} /\ crashes' = crashes
    BY <1>3 DEF EndWork, TimesOut
  <2>3. AgentTypes'
    BY <1>t, <1>w, <2>2, TakeTypes DEF AgentTypes
  <2>4. BudgetTypes'
    <3>1. CASE UNCHANGED <<budgetVars, alive>>
      BY <1>t, <3>1 DEF budgetVars, BudgetTypes
    <3>2. CASE \E cost \in Costs \cup {0} : Charge(cost)
      BY <1>t, <3>2, ChargeTypes, TeamProcessAssumption
    <3> QED
      BY <1>3, <3>1, <3>2 DEF EndWork, TimesOut
  <2>5. NoOrphanAgent' /\ Counted' /\ Closing'
    BY <1>t, <1>u, <1>w, <2>1, <2>2, TakeTypes, AgentKeeps
  <2> QED
    BY <1>t, <1>v, <2>2, <2>3, <2>4, <2>5, TypesNext DEF ProcessInv
<1>4. CASE Crash(a)
  <2>1. status[a] \notin Gone
    BY <1>4 DEF Crash, Working, Gone
  <2>2. Leaves(a, "crashed") /\ age' = age /\ threads' = threads
    BY <1>4 DEF Crash
  <2>3. AgentTypes'
    BY <1>t, <2>2, LeavesTypes DEF AgentTypes, Gone
  <2>4. BudgetTypes'
    BY <1>t, <1>4, ChargeTypes, TeamProcessAssumption DEF Crash
  <2>5. crashes' \in 0 .. MaxCrashes
    BY <1>t, <1>4, TeamProcessAssumption DEF Crash
  <2>6. \A b \in Agents : b # a => status'[b] = status[b]
    BY <1>t, <2>2, LeavesTypes DEF Gone
  <2>7. NoOrphanAgent' /\ Counted' /\ Closing'
    BY <1>u, <2>1, <2>2, <2>6, AgentKeeps
  <2> QED
    BY <1>v, <2>3, <2>4, <2>5, <2>7, TypesNext DEF ProcessInv
<1>5. CASE ThreadEnds(a)
  <2>1. /\ threads' = threads \ {a}
        /\ UNCHANGED <<status, age, due, current, alive, budgetVars, crashes>>
    BY <1>5 DEF ThreadEnds
  <2>2. AgentTypes'
    BY <1>t, <2>1 DEF AgentTypes
  <2>3. BudgetTypes' /\ crashes' \in 0 .. MaxCrashes
    BY <1>t, <2>1 DEF budgetVars, BudgetTypes
  <2>4. NoOrphanAgent' /\ Counted' /\ Closing'
    BY <1>u, <2>1 DEF supVars, exitVars, ProcessInv, NoOrphanAgent, Counted, Closing, Finished
  <2> QED
    BY <1>v, <2>2, <2>3, <2>4, TypesNext DEF ProcessInv
<1> QED
  BY <1>1, <1>2, <1>3, <1>4, <1>5 DEF AgentStep, WorkStep

-----------------------------------------------------------------------------
(* The supervisor *)

LEMMA BackoffTypes ==
  ASSUME SupTypes, NEW a \in Agents
  PROVE  Backoff(a) \in Nat /\ Min({restarts[a] + 1, Len(Backoffs)}) \in 0 .. Len(Backoffs)
<1>1. Len(Backoffs) \in Nat /\ Len(Backoffs) >= 1 /\ Backoffs \in Seq(Nat)
  BY TeamProcessAssumption
<1>2. restarts[a] \in 0 .. Len(Backoffs)
  BY DEF SupTypes
<1> DEFINE T == {restarts[a] + 1, Len(Backoffs)}
<1>3. T \in SUBSET Nat /\ T # {} /\ Len(Backoffs) \in T /\ \A x \in T : x >= 1
  BY <1>1, <1>2
<1> DEFINE m == Min(T)
<1> HIDE DEF T
<1>4. m \in T /\ \A y \in T : m <= y
  BY <1>3, MinIsLeast
<1> HIDE DEF m
<1>5. m \in 1 .. Len(Backoffs)
  BY <1>1, <1>3, <1>4
<1>6. Backoffs[m] \in Nat /\ m \in 0 .. Len(Backoffs)
  BY <1>1, <1>5
<1> QED
  BY <1>6 DEF Backoff, m, T

LEMMA SupervisorStep ==
  ASSUME ProcessInv, Supervisor
  PROVE  ProcessInv'
<1>t. AgentTypes /\ SupTypes /\ BudgetTypes /\ ExitTypes /\ crashes \in 0 .. MaxCrashes
  BY Types DEF ProcessInv
<1>p. process = "up"
  BY DEF Supervisor, Collect, Handle, Resume, Drain
<1>u. UNCHANGED <<alive, budgetVars, exitVars, crashes>>
  BY DEF Supervisor, Collect, Handle, Resume, Drain
<1>v. BudgetTypes' /\ ExitTypes' /\ crashes' \in 0 .. MaxCrashes
  BY <1>t, <1>u DEF budgetVars, exitVars, BudgetTypes, ExitTypes
<1>w. Closing'
  BY <1>p, <1>u DEF exitVars, Closing
<1>d. DrainGrace \in Nat
  BY TeamProcessAssumption
<1>1. CASE Collect
  <2>1. UNCHANGED <<agentVars, tracked, asleep, restarts>>
    BY <1>1 DEF Collect
  <2>2. AgentTypes'
    BY <1>t, <2>1 DEF agentVars, AgentTypes
  <2>3. /\ sup = "watch" /\ batch = {}
        /\ \/ sup' = "handle" /\ batch' = {a \in tracked : Finished(a)} /\ wait' = wait
           \/ sup' = "drain" /\ batch' = batch /\ wait' = DrainGrace
    <3>1. sup = "watch"
      BY <1>1 DEF Collect
    <3>2. batch = {}
      BY <3>1 DEF ProcessInv, Counted
    <3> QED
      BY <1>1, <3>1, <3>2 DEF Collect
  <2>4. SupTypes'
    BY <1>t, <1>d, <2>1, <2>3 DEF SupTypes
  <2>5. NoOrphanAgent' /\ Counted'
    BY <2>1, <2>3 DEF agentVars, ProcessInv, NoOrphanAgent, Counted, Finished
  <2> QED
    BY <1>v, <1>w, <2>2, <2>4, <2>5, TypesNext DEF ProcessInv
<1>2. CASE Handle
  <2>0. sup = "handle" /\ UNCHANGED agentVars
    BY <1>2 DEF Handle
  <2>1. AgentTypes'
    BY <1>t, <2>0 DEF agentVars, AgentTypes
  <2>2. CASE batch = {} /\ sup' = "watch" /\ UNCHANGED <<tracked, batch, asleep, wait, restarts>>
    <3>1. SupTypes'
      BY <1>t, <2>2 DEF SupTypes
    <3>2. NoOrphanAgent' /\ Counted'
      BY <2>0, <2>2 DEF agentVars, ProcessInv, NoOrphanAgent, Counted, Finished
    <3> QED
      BY <1>v, <1>w, <2>1, <3>1, <3>2, TypesNext DEF ProcessInv
  <2>3. ASSUME NEW a \in batch, status[a] = "crashed", HandleCrash(a)
        PROVE  ProcessInv'
    <3>1. a \in tracked /\ a \in Agents
      BY <1>t, <2>3 DEF ProcessInv, Counted, SupTypes
    <3>2. /\ batch' = batch \ {a} /\ tracked' = tracked /\ sup' = "sleep" /\ asleep' = a
          /\ wait' \in Nat /\ restarts' \in [Agents -> 0 .. Len(Backoffs)]
      <4>1. /\ wait' = Backoff(a)
            /\ restarts' = [restarts EXCEPT ![a] = Min({restarts[a] + 1, Len(Backoffs)})]
        BY <1>t, <2>3, <3>1 DEF HandleCrash, SupTypes
      <4>2. Backoff(a) \in Nat /\ Min({restarts[a] + 1, Len(Backoffs)}) \in 0 .. Len(Backoffs)
        BY <1>t, <3>1, BackoffTypes
      <4>3. restarts' \in [Agents -> 0 .. Len(Backoffs)]
        BY <1>t, <4>1, <4>2 DEF SupTypes
      <4> QED
        BY <2>3, <4>1, <4>2, <4>3 DEF HandleCrash
    <3>3. SupTypes'
      BY <1>t, <3>1, <3>2 DEF SupTypes
    <3>4. NoOrphanAgent' /\ Counted'
      BY <2>0, <2>3, <3>1, <3>2 DEF agentVars, ProcessInv, NoOrphanAgent, Counted, Finished
    <3> QED
      BY <1>v, <1>w, <2>1, <3>3, <3>4, TypesNext DEF ProcessInv
  <2>4. ASSUME NEW a \in batch, batch' = batch \ {a}, tracked' = tracked \ {a},
               UNCHANGED <<sup, asleep, wait, restarts>>
        PROVE  ProcessInv'
    <3>1. Finished(a)
      BY <2>4 DEF ProcessInv, Counted
    <3>2. SupTypes'
      BY <1>t, <2>4 DEF SupTypes
    <3>3. NoOrphanAgent' /\ Counted'
      BY <2>0, <2>4, <3>1 DEF agentVars, ProcessInv, NoOrphanAgent, Counted, Finished, Gone
    <3> QED
      BY <1>v, <1>w, <2>1, <3>2, <3>3, TypesNext DEF ProcessInv
  <2> QED
    BY <1>2, <2>2, <2>3, <2>4 DEF Handle
<1>3. CASE Resume
  <2>1. /\ sup = "sleep" /\ sup' = "handle" /\ asleep' = None
        /\ status' = [status EXCEPT ![asleep] = "asleep"]
        /\ age' = [age EXCEPT ![asleep] = Overdue(asleep)]
        /\ UNCHANGED <<due, current, threads, tracked, batch, wait, restarts>>
    BY <1>3 DEF Resume
  <2>2. asleep \in tracked \ batch /\ asleep \in Agents
    BY <1>t, <2>1 DEF ProcessInv, Counted, SupTypes
  <2>3. /\ Overdue(asleep) \in [Tasks(asleep) -> Nat]
        /\ \A t \in Tasks(asleep) : Overdue(asleep)[t] <= Cadence(asleep, t)
    BY <2>2, ScheduleTypes DEF Overdue
  <2>4. /\ status' \in [Agents -> {"asleep", "working"} \cup Gone]
        /\ \A b \in Agents : b # asleep => status'[b] = status[b]
    BY <1>t, <2>1, <2>2 DEF AgentTypes
  <2>5. /\ DOMAIN age' = Agents
        /\ \A b \in Agents : age'[b] = IF b = asleep THEN Overdue(asleep) ELSE age[b]
    BY <1>t, <2>1, <2>2 DEF AgentTypes
  <2>6. \A b \in Agents : /\ age'[b] \in [Tasks(b) -> Nat]
                          /\ \A t \in Tasks(b) : age'[b][t] <= Cadence(b, t)
    BY <1>t, <2>3, <2>5 DEF AgentTypes
  <2>7. AgentTypes'
    BY <1>t, <2>1, <2>4, <2>5, <2>6 DEF AgentTypes
  <2>8. SupTypes'
    BY <1>t, <2>1 DEF SupTypes
  <2>9. NoOrphanAgent'
    BY <2>1, <2>2, <2>4 DEF ProcessInv, NoOrphanAgent
  <2>10. Counted'
    <3>1. \A b \in batch : b \in Agents /\ b # asleep
      BY <1>t, <2>2 DEF SupTypes
    <3> QED
      BY <2>1, <2>4, <3>1 DEF ProcessInv, Counted, Finished
  <2> QED
    BY <1>v, <1>w, <2>7, <2>8, <2>9, <2>10, TypesNext DEF ProcessInv
<1>4. CASE Drain
  <2>0. /\ sup = "drain" /\ batch = {}
        /\ UNCHANGED <<age, batch, asleep, restarts>>
    <3>1. sup = "drain" /\ UNCHANGED <<age, batch, asleep, restarts>>
      BY <1>4 DEF Drain
    <3> QED
      BY <3>1 DEF ProcessInv, Counted
  <2>1. ASSUME NEW a \in tracked, tracked' = tracked \ {a}, wait' = DrainGrace, sup' = sup,
               \/ Finished(a) /\ UNCHANGED <<status, due, current, threads>>
               \/ /\ Leaves(a, "cancelled")
                  /\ threads' = IF status[a] = "working" THEN threads \cup {a} ELSE threads
        PROVE  ProcessInv'
    <3>0. a \in Agents
      BY <1>t DEF SupTypes
    <3>1. /\ AgentTypes' /\ status'[a] \in Gone
          /\ \A b \in Agents : b # a => status'[b] = status[b]
      <4>1. CASE Finished(a) /\ UNCHANGED <<status, due, current, threads>>
        BY <1>t, <2>0, <4>1 DEF AgentTypes, Finished, Gone
      <4>2. CASE /\ Leaves(a, "cancelled")
                 /\ threads' = IF status[a] = "working" THEN threads \cup {a} ELSE threads
        <5>1. "cancelled" \in Gone
          BY DEF Gone
        <5>2. threads' \subseteq Agents
          BY <1>t, <3>0, <4>2 DEF AgentTypes
        <5> QED
          BY <1>t, <2>0, <3>0, <4>2, <5>1, <5>2, LeavesTypes DEF AgentTypes
      <4> QED
        BY <2>1, <4>1, <4>2
    <3>2. SupTypes'
      BY <1>t, <1>d, <2>0, <2>1 DEF SupTypes
    <3>3. NoOrphanAgent' /\ Counted'
      BY <2>0, <2>1, <3>1 DEF ProcessInv, NoOrphanAgent, Counted
    <3> QED
      BY <1>v, <1>w, <3>1, <3>2, <3>3, TypesNext DEF ProcessInv
  <2>2. CASE /\ tracked = {} /\ sup' = "ended"
             /\ UNCHANGED <<tracked, wait, status, due, current, threads>>
    <3>1. AgentTypes' /\ SupTypes'
      BY <1>t, <2>0, <2>2 DEF AgentTypes, SupTypes
    <3>2. NoOrphanAgent' /\ Counted'
      BY <2>0, <2>2 DEF ProcessInv, NoOrphanAgent, Counted
    <3> QED
      BY <1>v, <1>w, <3>1, <3>2, TypesNext DEF ProcessInv
  <2> QED
    BY <1>4, <2>1, <2>2 DEF Drain
<1> QED
  BY <1>1, <1>2, <1>3, <1>4 DEF Supervisor

-----------------------------------------------------------------------------
(* Time, signals and the end *)

LEMMA OtherSteps ==
  ASSUME ProcessInv, Tick \/ Sigint \/ Ending \/ Watchdog \/ UNCHANGED vars
  PROVE  ProcessInv'
<1>t. AgentTypes /\ SupTypes /\ BudgetTypes /\ ExitTypes /\ crashes \in 0 .. MaxCrashes
  BY Types DEF ProcessInv
<1>u. UNCHANGED <<status, due, current, threads, sup, tracked, batch, asleep, restarts,
                  budgetVars, crashes>>
  BY DEF Tick, Sigint, Ending, Leave, WriteResult, Watchdog, WatchdogFires, WatchdogForces,
         vars, agentVars, supVars
<1>n. NoOrphanAgent' /\ Counted'
  BY <1>u DEF ProcessInv, NoOrphanAgent, Counted, Finished
<1>1. CASE Tick
  <2>1. /\ \A a \in Agents : age'[a] = Older(a) /\ DOMAIN age' = Agents
        /\ UNCHANGED <<alive, watchdog, process, reason, pidFile>>
    BY <1>1 DEF Tick
  <2>2. \A a \in Agents : /\ Older(a) \in [Tasks(a) -> Nat]
                          /\ \A t \in Tasks(a) : Older(a)[t] <= Cadence(a, t)
    BY <1>t, ScheduleTypes DEF AgentTypes, Older
  <2>3. AgentTypes'
    <3>1. DOMAIN age' = Agents
      BY <1>1 DEF Tick
    <3> QED
      BY <1>t, <1>u, <2>1, <2>2, <3>1 DEF AgentTypes
  <2>4. wait' \in Nat /\ timer' \in Nat
    BY <1>t, <1>1 DEF Tick, SupTypes, ExitTypes
  <2>5. SupTypes' /\ BudgetTypes' /\ ExitTypes'
    BY <1>t, <1>u, <2>1, <2>4 DEF SupTypes, budgetVars, BudgetTypes, ExitTypes
  <2>6. Closing'
    BY <1>u, <2>1 DEF ProcessInv, Closing
  <2> QED
    BY <1>t, <1>u, <1>n, <2>3, <2>5, <2>6, TypesNext DEF ProcessInv
<1>2. ASSUME Sigint \/ Ending \/ Watchdog \/ UNCHANGED vars PROVE ProcessInv'
  <2>1. UNCHANGED <<age, wait>>
    BY <1>2 DEF Sigint, Ending, Leave, WriteResult, Watchdog, WatchdogFires, WatchdogForces,
                vars, agentVars, supVars
  <2>2. AgentTypes' /\ SupTypes'
    BY <1>t, <1>u, <2>1 DEF AgentTypes, SupTypes
  <2>3. BudgetTypes'
    <3>1. alive' = alive \/ alive' = FALSE
      BY <1>2 DEF Sigint, Ending, Leave, WriteResult, Watchdog, WatchdogFires, WatchdogForces, vars
    <3> QED
      BY <1>t, <1>u, <3>1 DEF budgetVars, BudgetTypes
  <2>4. ExitTypes' /\ Closing'
    <3>1. CASE Sigint \/ UNCHANGED vars
      BY <1>t, <1>u, <3>1 DEF Sigint, vars, exitVars, ExitTypes, ProcessInv, Closing
    <3>2. CASE Leave
      BY <1>t, <1>u, <3>2 DEF Leave, ExitTypes, Closing
    <3>3. CASE WriteResult
      BY <1>t, <1>u, <3>3 DEF WriteResult, ExitTypes, ProcessInv, Closing
    <3>4. CASE WatchdogFires
      BY <1>t, <1>u, <3>4, TeamProcessAssumption
         DEF WatchdogFires, ExitTypes, ProcessInv, Closing
    <3>5. CASE WatchdogForces
      BY <1>t, <1>u, <3>5 DEF WatchdogForces, ExitTypes, Closing
    <3> QED
      BY <1>2, <3>1, <3>2, <3>3, <3>4, <3>5 DEF Ending, Watchdog
  <2> QED
    BY <1>t, <1>u, <1>n, <2>2, <2>3, <2>4, TypesNext DEF ProcessInv
<1> QED
  BY <1>1, <1>2

-----------------------------------------------------------------------------
(* The budget *)

(* The pulling tasks of the agents' wake-ups that are not run to their end.   *)
(* Once the budget is spent nobody wakes for another.                        *)
InHand ==
  {work \in Pulling : /\ status[work[1]] = "working"
                      /\ work[2] = current[work[1]] \/ work[2] \in due[work[1]]}

(* No wake-up runs a task twice.  When the limit is reached the team is       *)
(* stopped, and what is in hand is all that can still be charged.            *)
OncePerWake ==
  \A a \in Agents :
    current[a] \notin due[a] /\ (status[a] = "working" => current[a] \in Tasks(a))

Owed(n) == n * Max(Costs)

BudgetHolds ==
  MaxUsd > 0 =>
    /\ ~exhausted => spent < MaxUsd
    /\ exhausted => /\ ~alive
                    /\ spent + Owed(Cardinality(InHand)) < MaxUsd + Owed(Cardinality(Pulling))

(* A most expensive run costs Max(Costs). *)
LEMMA MaxIsMost == Max(Costs) \in Nat /\ \A cost \in Costs \cup {0} : cost <= Max(Costs)
<1>1. \E most \in Costs : \A cost \in Costs : most >= cost
  BY TeamProcessAssumption
<1>2. Max(Costs) \in Costs /\ \A cost \in Costs : Max(Costs) >= cost
  BY <1>1 DEF Max
<1>3. Costs \subseteq Nat
  BY TeamProcessAssumption
<1> DEFINE most == Max(Costs)
<1>4. most \in Costs /\ \A cost \in Costs : most >= cost
  BY <1>2
<1> HIDE DEF most
<1>5. most \in Nat /\ \A cost \in Costs \cup {0} : cost <= most
  BY <1>3, <1>4
<1> QED
  BY <1>5 DEF most

(* What more runs may cost. *)
LEMMA OwedGrows ==
  \A m, n \in Nat : /\ Owed(n) \in Nat
                    /\ Owed(n + 1) = Owed(n) + Max(Costs)
                    /\ m <= n => Owed(m) <= Owed(n)
<1> SUFFICES ASSUME NEW m \in Nat, NEW n \in Nat
             PROVE  /\ n * Max(Costs) \in Nat
                    /\ (n + 1) * Max(Costs) = n * Max(Costs) + Max(Costs)
                    /\ m <= n => m * Max(Costs) <= n * Max(Costs)
  BY DEF Owed
<1> DEFINE most == Max(Costs)
<1>1. most \in Nat
  BY MaxIsMost
<1> HIDE DEF most
<1>2. n * most \in Nat /\ (n + 1) * most = n * most + most
  BY <1>1
<1>3. ASSUME m <= n PROVE m * most <= n * most
  BY <1>1, <1>3
<1> QED
  BY <1>2, <1>3 DEF most

(* A finite team with finite schedules has finitely many tasks. *)
LEMMA PullingIsFinite ==
  IsFiniteSet(Pulling) /\ \A work \in Pulling : work[1] \in Agents /\ work[2] \in Tasks(work[1])
<1> DEFINE Own(a) == {a} \X Tasks(a)
<1>1. \A a \in Agents : IsFiniteSet(Own(a))
  <2> SUFFICES ASSUME NEW a \in Agents PROVE IsFiniteSet(Own(a))
    OBVIOUS
  <2>1. Schedule[a] \in Seq([cadence : Nat \ {0}, words : SUBSET STRING])
    BY TeamProcessAssumption
  <2>2. Tasks(a) = 1 .. Len(Schedule[a]) /\ Len(Schedule[a]) \in Nat
    BY <2>1 DEF Tasks
  <2>3. IsFiniteSet(Tasks(a)) /\ IsFiniteSet({a})
    <3>1. \A n \in Nat : IsFiniteSet(1 .. n)
      BY FS_Interval
    <3>2. IsFiniteSet({a})
      BY FS_Singleton, Zenon
    <3> QED
      BY <2>2, <3>1, <3>2
  <2>4. IsFiniteSet({a} \X Tasks(a))
    BY <2>3, FS_Product, Zenon
  <2> QED
    BY <2>4
<1> DEFINE all == {Own(a) : a \in Agents}
<1>2. IsFiniteSet(all)
  <2> DEFINE own == [a \in Agents |-> Own(a)]
  <2>1. own \in Surjection(Agents, all)
    BY DEF Surjection
  <2> HIDE DEF own, all
  <2> QED
    BY <2>1, FS_Surjection, TeamProcessAssumption
<1>3. \A T \in all : IsFiniteSet(T)
  BY <1>1
<1>4. IsFiniteSet(UNION all)
  BY <1>2, <1>3, FS_UNION
<1>5. Pulling \subseteq UNION all
  BY DEF Pulling
<1>6. \A work \in Pulling : work[1] \in Agents /\ work[2] \in Tasks(work[1])
  BY DEF Pulling
<1> QED
  BY <1>4, <1>5, <1>6, FS_Subset

(* Fewer runs in hand, or one of them charged, keep the bound. *)
LEMMA FewerInHand ==
  ASSUME NEW X \in SUBSET Pulling, NEW Y \in SUBSET X
  PROVE  /\ Cardinality(X) \in Nat /\ Cardinality(Y) \in Nat
         /\ Owed(Cardinality(Y)) <= Owed(Cardinality(X))
         /\ \A work \in X : work \notin Y =>
              Owed(Cardinality(Y)) + Max(Costs) <= Owed(Cardinality(X))
<1>1. IsFiniteSet(X) /\ IsFiniteSet(Y) /\ Cardinality(Y) <= Cardinality(X)
  BY PullingIsFinite, FS_Subset
<1>2. Cardinality(X) \in Nat /\ Cardinality(Y) \in Nat
  BY <1>1, FS_CardinalityType
<1>3. ASSUME NEW work \in X, work \notin Y
      PROVE  Owed(Cardinality(Y)) + Max(Costs) <= Owed(Cardinality(X))
  <2>1. IsFiniteSet(X \ {work}) /\ Cardinality(X \ {work}) = Cardinality(X) - 1
    BY <1>1, FS_RemoveElement
  <2>2. Cardinality(Y) <= Cardinality(X \ {work})
    BY <1>3, <2>1, FS_Subset
  <2>3. Cardinality(Y) + 1 <= Cardinality(X) /\ Cardinality(Y) + 1 \in Nat
    BY <1>2, <2>1, <2>2
  <2> QED
    BY <1>2, <2>3, OwedGrows
<1> QED
  BY <1>1, <1>2, <1>3, OwedGrows

LEMMA HandIsPulling == InHand \subseteq Pulling /\ InHand' \subseteq Pulling
BY DEF InHand

(* A step that charges nothing keeps the bound if it begins nothing either,   *)
(* unless the budget is not spent.                                           *)
LEMMA NothingCharged ==
  ASSUME BudgetTypes, BudgetHolds, UNCHANGED <<spent, exhausted>>, ~alive => ~alive',
         exhausted => InHand' \subseteq InHand \/ MaxUsd = 0
  PROVE  BudgetHolds'
<1> SUFFICES ASSUME MaxUsd > 0, exhausted
             PROVE  ~alive' /\ spent' + Owed(Cardinality(InHand')) < MaxUsd + Owed(Cardinality(Pulling))
  BY DEF BudgetHolds
<1>0. MaxUsd \in Nat
  BY TeamProcessAssumption
<1>1. ~alive /\ spent + Owed(Cardinality(InHand)) < MaxUsd + Owed(Cardinality(Pulling))
  BY DEF BudgetHolds
<1> DEFINE now == InHand  next == InHand'
<1>2. now \subseteq Pulling /\ next \subseteq now
  BY <1>0, HandIsPulling
<1>3. spent + Owed(Cardinality(now)) < MaxUsd + Owed(Cardinality(Pulling))
  BY <1>1
<1>6. spent' = spent /\ spent \in Nat
  BY DEF BudgetTypes
<1> HIDE DEF now, next
<1>4. /\ Cardinality(now) \in Nat /\ Cardinality(next) \in Nat /\ Cardinality(Pulling) \in Nat
      /\ Owed(Cardinality(next)) <= Owed(Cardinality(now))
  BY <1>2, FewerInHand
<1>5. /\ Owed(Cardinality(now)) \in Nat /\ Owed(Cardinality(next)) \in Nat
      /\ Owed(Cardinality(Pulling)) \in Nat
  BY <1>4, OwedGrows
<1>7. spent' + Owed(Cardinality(next)) < MaxUsd + Owed(Cardinality(Pulling))
  BY <1>0, <1>3, <1>4, <1>5, <1>6
<1> QED
  BY <1>1, <1>7 DEF next

(* A run is charged when it leaves the hand. *)
LEMMA RunCharged ==
  ASSUME BudgetTypes, BudgetHolds, NEW cost \in Costs \cup {0}, Charge(cost),
         NEW work \in InHand, InHand' \subseteq InHand \ {work}
  PROVE  BudgetHolds'
<1> SUFFICES ASSUME MaxUsd > 0
             PROVE  /\ ~exhausted' => spent' < MaxUsd
                    /\ exhausted' => /\ ~alive'
                                     /\ spent' + Owed(Cardinality(InHand'))
                                          < MaxUsd + Owed(Cardinality(Pulling))
  BY DEF BudgetHolds
<1>0. MaxUsd \in Nat /\ spent \in Nat /\ cost \in Nat /\ cost <= Max(Costs) /\ Max(Costs) \in Nat
  BY TeamProcessAssumption, MaxIsMost DEF BudgetTypes
<1>1. /\ spent' = spent + cost
      /\ exhausted' <=> exhausted \/ spent' >= MaxUsd
      /\ exhausted' /\ (exhausted => ~alive) => ~alive'
  <2>1. exhausted' = (exhausted \/ (MaxUsd > 0 /\ spent' >= MaxUsd))
    BY DEF Charge
  <2>2. exhausted' <=> exhausted \/ spent' >= MaxUsd
    BY <2>1
  <2>3. alive' = (alive /\ ~(exhausted' /\ ~exhausted))
    BY DEF Charge
  <2>4. exhausted' /\ (exhausted => ~alive) => ~alive'
    BY <2>3, Zenon
  <2> QED
    BY <2>2, <2>4 DEF Charge
<1>2. ~exhausted' => spent' < MaxUsd
  BY <1>0, <1>1
<1>3. exhausted' => ~alive'
  BY <1>1 DEF BudgetHolds
<1> DEFINE now == InHand  next == InHand'
<1>4. now \subseteq Pulling /\ next \subseteq now /\ work \in now /\ work \notin next
  BY HandIsPulling
<1>5. /\ ~exhausted => spent < MaxUsd
      /\ exhausted => spent + Owed(Cardinality(now)) < MaxUsd + Owed(Cardinality(Pulling))
  BY DEF BudgetHolds
<1> HIDE DEF now, next
<1>6. /\ Cardinality(now) \in Nat /\ Cardinality(next) \in Nat /\ Cardinality(Pulling) \in Nat
      /\ Owed(Cardinality(next)) + Max(Costs) <= Owed(Cardinality(now))
      /\ Owed(Cardinality(now)) <= Owed(Cardinality(Pulling))
  BY <1>4, FewerInHand
<1>7. /\ Owed(Cardinality(now)) \in Nat /\ Owed(Cardinality(next)) \in Nat
      /\ Owed(Cardinality(Pulling)) \in Nat
  BY <1>6, OwedGrows
<1>8. spent' + Owed(Cardinality(next)) < MaxUsd + Owed(Cardinality(Pulling))
  <2>1. CASE exhausted
    BY <1>0, <1>1, <1>5, <1>6, <1>7, <2>1
  <2>2. CASE ~exhausted
    BY <1>0, <1>1, <1>5, <1>6, <1>7, <2>2
  <2> QED
    BY <2>1, <2>2
<1> QED
  BY <1>2, <1>3, <1>8 DEF next

(* The task an agent awaits leaves the hand when it goes on to what is due,   *)
(* and nothing comes in.                                                     *)
LEMMA TaskLeavesHand ==
  ASSUME AgentTypes, OncePerWake, NEW a \in Agents,
         \/ status[a] = "working" /\ Take(a, due[a])
         \/ \E where \in Gone : Leaves(a, where)
  PROVE  InHand' \subseteq InHand \ {<<a, current[a]>>}
<1> SUFFICES ASSUME NEW work \in InHand'
             PROVE  work \in InHand /\ work # <<a, current[a]>>
  OBVIOUS
<1>0. /\ work \in Pulling /\ status'[work[1]] = "working"
      /\ work[2] = current'[work[1]] \/ work[2] \in due'[work[1]]
  BY DEF InHand
<1>1. work[1] \in Agents /\ current[a] \notin due[a]
  BY <1>0, PullingIsFinite DEF OncePerWake
<1>2. \A b \in Agents : b # a => status'[b] = status[b] /\ current'[b] = current[b] /\ due'[b] = due[b]
  BY DEF AgentTypes, Take, Leaves
<1>3. status'[a] = "working" =>
        status[a] = "working" /\ due'[a] \subseteq due[a] /\ current'[a] \in due[a]
  <2>1. ASSUME status[a] = "working", Take(a, due[a]), status'[a] = "working"
        PROVE  due'[a] \subseteq due[a] /\ current'[a] \in due[a]
    <3> DEFINE jobs == {t \in due[a] : Route(a, t) # "noop"}
    <3>1. jobs # {} /\ current' = [current EXCEPT ![a] = Min(jobs)]
                    /\ due' = [due EXCEPT ![a] = jobs \ {Min(jobs)}]
      BY <2>1 DEF Take, AgentTypes
    <3>2. jobs \subseteq due[a] /\ jobs \subseteq Nat
      BY ScheduleTypes DEF AgentTypes
    <3> HIDE DEF jobs
    <3>3. Min(jobs) \in jobs
      BY <3>1, <3>2, MinIsLeast
    <3> QED
      BY <3>1, <3>2, <3>3 DEF AgentTypes
  <2>2. ASSUME NEW where \in Gone, Leaves(a, where) PROVE status'[a] # "working"
    BY <2>2 DEF Leaves, AgentTypes, Gone
  <2> QED
    BY <2>1, <2>2
<1>4. CASE work[1] = a
  BY <1>0, <1>1, <1>3, <1>4 DEF InHand
<1>5. CASE work[1] # a
  BY <1>0, <1>1, <1>2, <1>5 DEF InHand
<1> QED
  BY <1>4, <1>5

(* Whatever an agent begins is in its schedule, each task once. *)
LEMMA TakesOnce ==
  ASSUME AgentTypes, OncePerWake, NEW a \in Agents, NEW tasks \in SUBSET Tasks(a),
         Take(a, tasks) \/ \E where \in Gone : Leaves(a, where)
  PROVE  OncePerWake'
<1> DEFINE jobs == {t \in tasks : Route(a, t) # "noop"}
<1>1. jobs \subseteq Tasks(a) /\ jobs \subseteq Nat
  BY ScheduleTypes
<1>2. \A b \in Agents : b # a => status'[b] = status[b] /\ current'[b] = current[b] /\ due'[b] = due[b]
  BY DEF AgentTypes, Take, Leaves
<1>3. current'[a] \notin due'[a] /\ (status'[a] = "working" => current'[a] \in Tasks(a))
  <2>1. CASE /\ current' = [current EXCEPT ![a] = 0] /\ due' = [due EXCEPT ![a] = {}]
             /\ \E where \in Gone \cup {"asleep"} : status' = [status EXCEPT ![a] = where]
    BY <2>1 DEF AgentTypes, Gone
  <2>2. CASE /\ jobs # {} /\ current' = [current EXCEPT ![a] = Min(jobs)]
             /\ due' = [due EXCEPT ![a] = jobs \ {Min(jobs)}]
    <3> HIDE DEF jobs
    <3>1. Min(jobs) \in jobs
      BY <1>1, <2>2, MinIsLeast
    <3> QED
      BY <1>1, <2>2, <3>1 DEF AgentTypes
  <2> QED
    BY <2>1, <2>2 DEF Take, Leaves
<1> QED
  BY <1>2, <1>3 DEF OncePerWake

LEMMA BudgetStep ==
  ASSUME ProcessInv, OncePerWake, BudgetHolds, [Next]_vars
  PROVE  OncePerWake' /\ BudgetHolds'
<1>t. AgentTypes /\ SupTypes /\ BudgetTypes
  BY Types DEF ProcessInv
<1>w. \A a \in Agents : due[a] \subseteq Tasks(a)
  BY <1>t DEF AgentTypes
<1>n. ASSUME UNCHANGED <<spent, exhausted, due, current>>, ~alive => ~alive',
             \A a \in Agents : status'[a] # status[a] => status'[a] # "working"
      PROVE  OncePerWake' /\ BudgetHolds'
  <2>1. OncePerWake'
    BY <1>n DEF OncePerWake
  <2>2. InHand' \subseteq InHand
    BY <1>n, PullingIsFinite DEF InHand
  <2> QED
    BY <1>t, <1>n, <2>1, <2>2, NothingCharged
<1>1. CASE Tick \/ Collect \/ Handle \/ Sigint \/ Ending \/ Watchdog \/ UNCHANGED vars
  <2>1. UNCHANGED <<spent, exhausted, due, current, status>>
    BY <1>1 DEF Tick, Collect, Handle, Sigint, Ending, Leave, WriteResult, Watchdog,
                WatchdogFires, WatchdogForces, vars, agentVars, budgetVars
  <2>2. ~alive => ~alive'
    BY <1>1 DEF Tick, Collect, Handle, Sigint, Ending, Leave, WriteResult, Watchdog,
                WatchdogFires, WatchdogForces, vars
  <2> QED
    BY <1>n, <2>1, <2>2
<1>2. CASE Resume
  <2>1. UNCHANGED <<spent, exhausted, due, current, alive>> /\ status' = [status EXCEPT ![asleep] = "asleep"]
    BY <1>2 DEF Resume, budgetVars
  <2>2. \A a \in Agents : status'[a] # status[a] => status'[a] # "working"
    BY <1>t, <2>1 DEF AgentTypes
  <2> QED
    BY <1>n, <2>1, <2>2
<1>3. CASE Drain
  <2>1. UNCHANGED <<spent, exhausted, alive>>
    BY <1>3 DEF Drain, budgetVars
  <2>2. CASE UNCHANGED <<status, due, current>>
    BY <1>n, <2>1, <2>2
  <2>3. ASSUME NEW a \in tracked, Leaves(a, "cancelled") PROVE OncePerWake' /\ BudgetHolds'
    <3>1. a \in Agents /\ "cancelled" \in Gone
      BY <1>t DEF SupTypes, Gone
    <3>2. OncePerWake'
      BY <1>t, <1>w, <2>3, <3>1, TakesOnce
    <3>3. InHand' \subseteq InHand
      BY <1>t, <2>3, <3>1, TaskLeavesHand
    <3> QED
      BY <1>t, <2>1, <3>2, <3>3, NothingCharged
  <2> QED
    BY <1>3, <2>2, <2>3 DEF Drain
<1>4. ASSUME NEW a \in Agents, Stops(a) \/ ThreadEnds(a) PROVE OncePerWake' /\ BudgetHolds'
  <2>1. /\ UNCHANGED <<spent, exhausted, due, current, alive>>
        /\ status' = status \/ status' = [status EXCEPT ![a] = "stopped"]
    BY <1>4 DEF Stops, ThreadEnds, budgetVars
  <2>2. \A b \in Agents : status'[b] # status[b] => status'[b] # "working"
    BY <1>t, <2>1 DEF AgentTypes
  <2> QED
    BY <1>n, <2>1, <2>2
<1>5. ASSUME NEW a \in Agents, Wake(a) PROVE OncePerWake' /\ BudgetHolds'
  <2>1. alive /\ UNCHANGED <<spent, exhausted, alive>> /\ Take(a, Pending(a))
    BY <1>5 DEF Wake, budgetVars
  <2>2. OncePerWake'
    BY <1>t, <2>1, TakesOnce DEF Pending
  <2>3. MaxUsd > 0 => ~exhausted
    BY <2>1 DEF BudgetHolds
  <2>4. MaxUsd = 0 \/ MaxUsd > 0
    BY TeamProcessAssumption
  <2> QED
    BY <1>t, <2>1, <2>2, <2>3, <2>4, NothingCharged
<1>6. ASSUME NEW a \in Agents, EndWork(a) \/ TimesOut(a) \/ Crash(a)
      PROVE  OncePerWake' /\ BudgetHolds'
  <2>1. /\ status[a] = "working" /\ current[a] \in Tasks(a)
        /\ Take(a, due[a]) \/ \E where \in Gone : Leaves(a, where)
    BY <1>6 DEF EndWork, TimesOut, Crash, Working, OncePerWake, Gone
  <2>2. OncePerWake'
    BY <1>t, <1>w, <2>1, TakesOnce
  <2>3. InHand' \subseteq InHand \ {<<a, current[a]>>}
    BY <1>t, <2>1, TaskLeavesHand
  <2>4. CASE UNCHANGED <<budgetVars, alive>>
    BY <1>t, <2>2, <2>3, <2>4, NothingCharged DEF budgetVars
  <2>5. ASSUME Pulls(a), NEW cost \in Costs \cup {0}, Charge(cost) PROVE BudgetHolds'
    <3>1. <<a, current[a]>> \in InHand
      BY <2>1, <2>5 DEF InHand, Pulling, Pulls
    <3> QED
      BY <1>t, <2>3, <2>5, <3>1, RunCharged
  <2> QED
    BY <1>6, <2>2, <2>4, <2>5 DEF EndWork, TimesOut, Crash
<1> QED
  BY <1>1, <1>2, <1>3, <1>4, <1>5, <1>6, Zenon
     DEF Next, Supervisor, AgentStep, WorkStep

-----------------------------------------------------------------------------
(* The theorems *)

(* The invariant holds whatever crashes, is stopped, times out or is killed. *)
THEOREM ProcessInvariance == Spec => []ProcessInv
<1>1. ProcessInv /\ [Next]_vars => ProcessInv'
  BY AgentsStep, SupervisorStep, OtherSteps DEF Next
<1> QED
  BY InitInv, <1>1, PTL DEF Spec

(* Every variable of the process keeps its type. *)
THEOREM TypeCorrect == Spec => []TypeOK
<1>1. ProcessInv => TypeOK
  BY DEF ProcessInv
<1> QED
  BY <1>1, ProcessInvariance, PTL

(* No agent runs behind the supervisor's back, through any crashes, restarts  *)
(* and stops.                                                                *)
THEOREM EveryAgentIsTracked == Spec => []NoOrphanAgent
<1>1. ProcessInv => NoOrphanAgent
  BY DEF ProcessInv
<1> QED
  BY <1>1, ProcessInvariance, PTL

(* What is charged exceeds the limit by no more than one run of each task     *)
(* that pulls, whatever the runs cost and whoever crashes, is restarted or    *)
(* is in mid-wake-up when the limit is reached.                              *)
THEOREM OverspendBounded == Spec => []OverspendIsBounded
<1>1. Init => OncePerWake /\ BudgetHolds
  <2> SUFFICES ASSUME Init PROVE OncePerWake /\ BudgetHolds
    OBVIOUS
  <2>1. OncePerWake
    BY DEF Init, OncePerWake
  <2>2. BudgetHolds
    BY DEF Init, BudgetHolds
  <2> QED
    BY <2>1, <2>2
<1>2. ProcessInv /\ OncePerWake /\ BudgetHolds /\ [Next]_vars => OncePerWake' /\ BudgetHolds'
  BY BudgetStep
<1>3. ProcessInv /\ BudgetHolds => OverspendIsBounded
  <2> SUFFICES ASSUME ProcessInv, BudgetHolds, MaxUsd > 0
               PROVE  spent < MaxUsd + Owed(Cardinality(Pulling))
    BY DEF OverspendIsBounded, Owed
  <2>0. spent \in Nat /\ MaxUsd \in Nat
    BY Types, TeamProcessAssumption DEF ProcessInv, BudgetTypes
  <2> DEFINE now == InHand
  <2>1. now \subseteq Pulling
    BY HandIsPulling
  <2>2. /\ ~exhausted => spent < MaxUsd
        /\ exhausted => spent + Owed(Cardinality(now)) < MaxUsd + Owed(Cardinality(Pulling))
    BY DEF BudgetHolds
  <2> HIDE DEF now
  <2>3. Owed(Cardinality(now)) \in Nat /\ Owed(Cardinality(Pulling)) \in Nat
    BY <2>1, FewerInHand, OwedGrows
  <2>4. CASE exhausted
    BY <2>0, <2>2, <2>3, <2>4
  <2>5. CASE ~exhausted
    BY <2>0, <2>2, <2>3, <2>5
  <2> QED
    BY <2>4, <2>5
<1> QED
  BY <1>1, <1>2, <1>3, ProcessInvariance, PTL DEF Spec

(* A process that ends by itself leaves no agent, no thread and no pid.txt. *)
THEOREM ExitsAreClean == Spec => []ExitIsClean
<1>1. ProcessInv => ExitIsClean
  BY DEF ProcessInv, ExitIsClean, NoOrphanAgent, Counted, Closing
<1> QED
  BY <1>1, ProcessInvariance, PTL
=============================================================================
