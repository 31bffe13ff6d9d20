------------------------------ MODULE TeamProcess --------------------------------
(*****************************************************************************)
(* The process of `orgos start': agents that wake by their HEARTBEAT.md, the *)
(* supervisor that restarts the ones that crash, the budget that stops the   *)
(* team when it is spent, and the watchdog thread that ends the process when *)
(* the team does not stop by itself.                                         *)
(*                                                                           *)
(* Time is counted in ticks and saturates: a scheduled task only knows for   *)
(* how long it has not fired, up to its cadence.  Everything but the         *)
(* watchdog and the threads in which agents await their work runs on one     *)
(* event loop, so each handler is one action up to its next await.           *)
(*****************************************************************************)
EXTENDS Integers, Sequences, FiniteSets, FiniteSetsExt

CONSTANTS
  Agents, DeliveryAgents, Customer,  \* is_delivery_agent, the customer's role
  Schedule,      \* agent -> its ScheduledTasks: [cadence, words] in file order
  PullCadence,   \* the longest cadence at which the board is checked
  Costs,         \* what a run may cost
  MaxUsd,        \* --max-usd, 0 for no budget
  Timeouts,      \* --timeout-seconds, 0 for no watchdog
  Grace,         \* grace_seconds of the watchdog
  DrainGrace,    \* how long the supervisor waits for an agent it stops
  Backoffs,      \* restart_backoffs
  MaxCrashes,    \* bound: crashes in a behaviour
  None

ASSUME TeamProcessAssumption ==
  /\ IsFiniteSet(Agents)
  /\ DeliveryAgents \subseteq Agents /\ Customer \subseteq Agents \ DeliveryAgents
  /\ Schedule \in [Agents -> Seq([cadence : Nat \ {0}, words : SUBSET STRING])]
  /\ PullCadence \in Nat
  /\ Costs \subseteq Nat /\ \E most \in Costs : \A cost \in Costs : cost <= most
  /\ MaxUsd \in Nat /\ Timeouts \subseteq Nat /\ Grace \in Nat /\ DrainGrace \in Nat
  /\ Backoffs \in Seq(Nat) /\ Backoffs # <<>>
  /\ MaxCrashes \in Nat
  /\ None \notin Agents

VARIABLES
  status,    \* agent -> where its task is
  age,       \* agent -> task -> ticks since it fired; its cadence when overdue
  due,       \* agent -> the due tasks of this wake-up still to be run
  current,   \* agent -> the task it awaits, 0 when none
  threads,   \* agents whose work goes on in a thread nobody awaits
  alive,     \* TeamSupervisor._alive; the agents' flags fall with it
  sup,       \* the supervisor: watch, handle, sleep, drain or ended
  tracked,   \* the agents in the supervisor's tasks
  batch,     \* the finished agents still to be handled
  asleep,    \* the crashed agent whose backoff is slept out, or None
  wait,      \* ticks left of that backoff, or of an agent's drain
  restarts,  \* agent -> restart_counts, up to Len(Backoffs)
  spent,     \* _spent of the budget
  warned, exhausted,
  watchdog,  \* off, armed, grace or cancelled
  timer,     \* ticks until the watchdog's next step
  process,   \* up, leaving, exited or forced
  reason,    \* reason_stopped of campaign_result.json, or None
  pidFile,   \* pid.txt exists
  crashes

agentVars == <<status, age, due, current, threads>>
supVars == <<sup, tracked, batch, asleep, wait, restarts>>
budgetVars == <<spent, warned, exhausted>>
exitVars == <<watchdog, timer, process, reason, pidFile>>
vars == <<agentVars, alive, supVars, budgetVars, exitVars, crashes>>

Tasks(a) == DOMAIN Schedule[a]
Cadence(a, t) == Schedule[a][t].cadence

-----------------------------------------------------------------------------
(* Which ceremony a scheduled task is: the first rule all of whose word sets  *)
(* are mentioned in its text.                                                *)

Rules == <<
  [ceremony |-> "boundary",   mentions |-> {{"sprint"}, {"open", "close", "start", "boundary", "planning"}}],
  [ceremony |-> "acceptance", mentions |-> {{"accept", "acceptance"}, {"story", "stories", "review", "merged"}}],
  [ceremony |-> "retro",      mentions |-> {{"retrospective"}}],
  [ceremony |-> "replan",     mentions |-> {{"replan"}}],
  [ceremony |-> "retro",      mentions |-> {{"retro"}}],
  [ceremony |-> "replan",     mentions |-> {{"backlog", "spec"}}],
  [ceremony |-> "elevation",  mentions |-> {{"elevate", "elevation", "reclaim", "stuck"}}],
  [ceremony |-> "noop",       mentions |-> {{"customer", "review"}, {"increment", "shipped", "spec", "reject"}}],
  [ceremony |-> "poker",      mentions |-> {{"poker", "refinement"}}],
  [ceremony |-> "pr_feedback", mentions |-> {{"pr"}, {"comment", "comments", "feedback", "review"}}]>>

Ceremonies == {Rules[i].ceremony : i \in DOMAIN Rules} \cup {"pull", "customer", "noop"}

Applies(i, words) == \A some \in Rules[i].mentions : words \cap some # {}

CeremonyOf(words) ==
  IF \E i \in DOMAIN Rules : Applies(i, words)
    THEN Rules[Min({i \in DOMAIN Rules : Applies(i, words)})].ceremony
    ELSE "noop"

(* _bounded gives up waiting for these; poker, the sprint boundary and the PR  *)
(* feedback are awaited for as long as they take.                            *)
Bounded == {"pull", "acceptance", "retro", "replan", "elevation", "customer"}

(* Delivery agents pull on short cadences, the customer's role comes first.   *)
(* (For other roles a customer review returns at once.)                       *)
Route(a, t) ==
  LET task == Schedule[a][t]
  IN IF a \in DeliveryAgents /\ task.cadence <= PullCadence
        /\ task.words \cap {"board", "story", "check"} # {} THEN "pull"
     ELSE IF a \in Customer THEN "customer"
     ELSE CeremonyOf(task.words)

-----------------------------------------------------------------------------
(* The team boots, the budget and the watchdog with it. *)

Overdue(a) == [t \in Tasks(a) |-> Cadence(a, t)]

Init ==
  /\ status = [a \in Agents |-> "asleep"]
  /\ age = [a \in Agents |-> Overdue(a)]
  /\ due = [a \in Agents |-> {}]
  /\ current = [a \in Agents |-> 0]
  /\ threads = {}
  /\ alive = TRUE
  /\ sup = "watch" /\ tracked = Agents /\ batch = {} /\ asleep = None /\ wait = 0
  /\ restarts = [a \in Agents |-> 0]
  /\ spent = 0 /\ warned = FALSE /\ exhausted = FALSE
  /\ timer \in Timeouts
  /\ watchdog = IF timer > 0 THEN "armed" ELSE "off"
  /\ process = "up" /\ reason = None /\ pidFile = TRUE
  /\ crashes = 0

Running == process \in {"up", "leaving"}

(* A second or so passes. *)
Older(a) ==
  [t \in Tasks(a) |-> IF age[a][t] < Cadence(a, t) THEN age[a][t] + 1 ELSE age[a][t]]

Tick ==
  /\ Running
  /\ age' = [a \in Agents |-> Older(a)]
  /\ wait' = IF wait > 0 THEN wait - 1 ELSE 0
  /\ timer' = IF watchdog \in {"armed", "grace"} /\ timer > 0 THEN timer - 1 ELSE timer
  /\ UNCHANGED <<status, due, current, threads, alive, sup, tracked, batch, asleep,
                 restarts, budgetVars, watchdog, process, reason, pidFile, crashes>>

-----------------------------------------------------------------------------
(* AsyncAgent.loop *)

(* Mutant of Pending: only the first overdue task of the file. *)
PendingFirst(a) ==
  {t \in Tasks(a) : age[a][t] >= Cadence(a, t)
                    /\ \A u \in 1 .. t - 1 : age[a][u] < Cadence(a, u)}

(* HeartbeatScheduler.pending: the due tasks, which are marked as fired now. *)
Pending(a) == {t \in Tasks(a) : age[a][t] >= Cadence(a, t)}

(* The next of the tasks to be run; one without a ceremony is only logged,    *)
(* and the agent sleeps when none is left.                                   *)
Take(a, tasks) ==
  LET jobs == {t \in tasks : Route(a, t) # "noop"}
  IN IF jobs = {}
       THEN /\ status' = [status EXCEPT ![a] = "asleep"]
            /\ current' = [current EXCEPT ![a] = 0]
            /\ due' = [due EXCEPT ![a] = {}]
       ELSE /\ status' = [status EXCEPT ![a] = "working"]
            /\ current' = [current EXCEPT ![a] = Min(jobs)]
            /\ due' = [due EXCEPT ![a] = jobs \ {Min(jobs)}]

Wake(a) ==
  /\ Running /\ status[a] = "asleep" /\ alive /\ Pending(a) # {}
  /\ age' = [age EXCEPT ![a] = [t \in Tasks(a) |-> IF t \in Pending(a) THEN 0 ELSE @[t]]]
  /\ Take(a, Pending(a))
  /\ UNCHANGED <<threads, alive, supVars, budgetVars, exitVars, crashes>>

(* The loop ends only here: a stopped agent first runs what is still due. *)
Stops(a) ==
  /\ Running /\ status[a] = "asleep" /\ ~alive
  /\ status' = [status EXCEPT ![a] = "stopped"]
  /\ UNCHANGED <<age, due, current, threads, alive, supVars, budgetVars, exitVars, crashes>>

(* Mutant of Charge: the latch is set, the team is not stopped.               *)
ChargeStopsNobody(cost) ==
  /\ spent' = spent + cost
  /\ warned' = (warned \/ (MaxUsd > 0 /\ 100 * spent' >= 80 * MaxUsd))
  /\ exhausted' = (exhausted \/ (MaxUsd > 0 /\ spent' >= MaxUsd))
  /\ UNCHANGED alive

(* BudgetTracker.charge: two latches, the second of which stops the team.     *)
Charge(cost) ==
  /\ spent' = spent + cost
  /\ warned' = (warned \/ (MaxUsd > 0 /\ 100 * spent' >= 80 * MaxUsd))
  /\ exhausted' = (exhausted \/ (MaxUsd > 0 /\ spent' >= MaxUsd))
  /\ alive' = (alive /\ ~(exhausted' /\ ~exhausted))

Working(a) == Running /\ status[a] = "working"
Pulls(a) == Route(a, current[a]) = "pull"
IsBounded(a) == status[a] = "working" /\ Route(a, current[a]) \in Bounded

Leaves(a, where) ==
  /\ status' = [status EXCEPT ![a] = where]
  /\ current' = [current EXCEPT ![a] = 0]
  /\ due' = [due EXCEPT ![a] = {}]

(* A pull that found nothing costs nothing; a run that ended is charged.      *)
(* Ceremonies are not charged.                                               *)
EndWork(a) ==
  /\ Working(a)
  /\ Take(a, due[a])
  /\ \/ Pulls(a) /\ \E cost \in Costs \cup {0} : Charge(cost)
     \/ ~Pulls(a) /\ UNCHANGED <<budgetVars, alive>>
  /\ UNCHANGED <<age, threads, supVars, exitVars, crashes>>

(* The agent goes on, the thread does too, and its tokens are charged as 0. *)
TimesOut(a) ==
  /\ Working(a) /\ IsBounded(a)
  /\ Take(a, due[a])
  /\ threads' = threads \cup {a}
  /\ UNCHANGED <<age, alive, supVars, budgetVars, exitVars, crashes>>

(* A run is charged, and then the board refuses its commit. *)
Crash(a) ==
  /\ Working(a) /\ Pulls(a) /\ crashes < MaxCrashes
  /\ crashes' = crashes + 1
  /\ \E cost \in Costs : Charge(cost)
  /\ Leaves(a, "crashed")
  /\ UNCHANGED <<age, threads, supVars, exitVars>>

ThreadEnds(a) ==
  /\ Running /\ a \in threads
  /\ threads' = threads \ {a}
  /\ UNCHANGED <<status, age, due, current, alive, supVars, budgetVars, exitVars, crashes>>

-----------------------------------------------------------------------------
(* TeamSupervisor.run *)

Finished(a) == status[a] \in {"crashed", "stopped"}

(* asyncio.wait returns what has finished; without agents, or once stopped,   *)
(* the loop ends.                                                            *)
Collect ==
  /\ process = "up" /\ sup = "watch"
  /\ IF alive /\ tracked # {}
       THEN /\ \E a \in tracked : Finished(a)
            /\ batch' = {a \in tracked : Finished(a)}
            /\ sup' = "handle" /\ UNCHANGED wait
       ELSE /\ sup' = "drain" /\ wait' = DrainGrace /\ UNCHANGED batch
  /\ UNCHANGED <<tracked, asleep, restarts, agentVars, alive, budgetVars, exitVars, crashes>>

Backoff(a) == Backoffs[Min({restarts[a] + 1, Len(Backoffs)})]

(* Mutant of HandleCrash: the agent is dropped from the tasks while it waits. *)
HandleCrashUntracked(a) ==
  /\ batch' = batch \ {a} /\ tracked' = tracked \ {a}
  /\ sup' = "sleep" /\ asleep' = a /\ wait' = Backoff(a)
  /\ restarts' = [restarts EXCEPT ![a] = Min({@ + 1, Len(Backoffs)})]

(* Mutant of HandleCrash: an agent is not started after its last backoff. *)
HandleCrashGivesUp(a) ==
  /\ batch' = batch \ {a}
  /\ restarts' = [restarts EXCEPT ![a] = Min({@ + 1, Len(Backoffs)})]
  /\ IF restarts[a] + 1 < Len(Backoffs)
       THEN sup' = "sleep" /\ asleep' = a /\ wait' = Backoff(a) /\ UNCHANGED tracked
       ELSE tracked' = tracked \ {a} /\ UNCHANGED <<sup, asleep, wait>>

(* The backoff is slept out inside the loop: nothing else is collected.       *)
HandleCrash(a) ==
  /\ batch' = batch \ {a} /\ UNCHANGED tracked
  /\ sup' = "sleep" /\ asleep' = a /\ wait' = Backoff(a)
  /\ restarts' = [restarts EXCEPT ![a] = Min({@ + 1, Len(Backoffs)})]

Handle ==
  /\ process = "up" /\ sup = "handle"
  /\ \/ /\ batch = {} /\ sup' = "watch"
        /\ UNCHANGED <<tracked, batch, asleep, wait, restarts>>
     \/ \E a \in batch :
          \/ status[a] = "crashed" /\ alive /\ HandleCrash(a)
          \/ /\ status[a] = "stopped" \/ ~alive
             /\ batch' = batch \ {a} /\ tracked' = tracked \ {a}
             /\ UNCHANGED <<sup, asleep, wait, restarts>>
  /\ UNCHANGED <<agentVars, alive, budgetVars, exitVars, crashes>>

(* The agent starts again, its tasks unfired, even if the team was stopped    *)
(* during the backoff: its own flag then ends it at once.                     *)
Resume ==
  /\ process = "up" /\ sup = "sleep" /\ wait = 0
  /\ status' = [status EXCEPT ![asleep] = "asleep"]
  /\ age' = [age EXCEPT ![asleep] = Overdue(asleep)]
  /\ sup' = "handle" /\ asleep' = None
  /\ UNCHANGED <<due, current, threads, alive, tracked, batch, wait, restarts,
                 budgetVars, exitVars, crashes>>

(* The stopped agents are awaited one after the other; one that hangs is      *)
(* cancelled, and leaves its thread behind.  (The order of the dict is a      *)
(* choice.)                                                                  *)
Drain ==
  /\ process = "up" /\ sup = "drain"
  /\ \/ \E a \in tracked :
          /\ tracked' = tracked \ {a} /\ wait' = DrainGrace /\ UNCHANGED sup
          /\ \/ Finished(a) /\ UNCHANGED <<status, due, current, threads>>
             \/ /\ ~Finished(a) /\ wait = 0
                /\ Leaves(a, "cancelled")
                /\ threads' = IF status[a] = "working" THEN threads \cup {a} ELSE threads
     \/ tracked = {} /\ sup' = "ended" /\ UNCHANGED <<tracked, wait, status, due, current, threads>>
  /\ UNCHANGED <<age, alive, batch, asleep, restarts, budgetVars, exitVars, crashes>>

-----------------------------------------------------------------------------
(* How the process ends *)

Sigint ==
  /\ process = "up" /\ alive
  /\ alive' = FALSE
  /\ UNCHANGED <<agentVars, supVars, budgetVars, exitVars, crashes>>

(* Mutant of Leave: the pool's threads are not awaited. *)
LeaveAtOnce ==
  /\ process = "up" /\ sup = "ended"
  /\ process' = "leaving" /\ pidFile' = FALSE
  /\ watchdog' = IF watchdog = "armed" THEN "cancelled" ELSE watchdog
  /\ UNCHANGED <<agentVars, alive, supVars, budgetVars, timer, reason, crashes>>

(* asyncio.run returns only when every pool thread has ended. *)
Leave ==
  /\ process = "up" /\ sup = "ended" /\ threads = {}
  /\ process' = "leaving" /\ pidFile' = FALSE
  /\ watchdog' = IF watchdog = "armed" THEN "cancelled" ELSE watchdog
  /\ UNCHANGED <<agentVars, alive, supVars, budgetVars, timer, reason, crashes>>

WriteResult ==
  /\ process = "leaving"
  /\ process' = "exited"
  /\ reason' = IF watchdog = "off" THEN "sigint" ELSE "timeout"
  /\ UNCHANGED <<agentVars, alive, supVars, budgetVars, watchdog, timer, pidFile, crashes>>

(* Mutant of WatchdogForces: it joins the pool's threads. *)
WatchdogJoins ==
  /\ Running /\ watchdog = "grace" /\ timer = 0 /\ threads = {}
  /\ process' = "forced" /\ reason' = "timeout_force" /\ pidFile' = FALSE
  /\ UNCHANGED <<agentVars, alive, supVars, budgetVars, watchdog, timer, crashes>>

(* The watchdog is an OS thread: stop, grace, os._exit.                       *)
WatchdogFires ==
  /\ Running /\ watchdog = "armed" /\ timer = 0
  /\ alive' = FALSE
  /\ watchdog' = "grace" /\ timer' = Grace
  /\ UNCHANGED <<agentVars, supVars, budgetVars, process, reason, pidFile, crashes>>

WatchdogForces ==
  /\ Running /\ watchdog = "grace" /\ timer = 0
  /\ process' = "forced" /\ reason' = "timeout_force" /\ pidFile' = FALSE
  /\ UNCHANGED <<agentVars, alive, supVars, budgetVars, watchdog, timer, crashes>>

-----------------------------------------------------------------------------
(* The specification *)

AgentStep(a) == Wake(a) \/ Stops(a)
WorkStep(a) == EndWork(a) \/ TimesOut(a) \/ Crash(a)
Supervisor == Collect \/ Handle \/ Resume \/ Drain
Ending == Leave \/ WriteResult
Watchdog == WatchdogFires \/ WatchdogForces

(* A process that has ended takes no step. *)
Next ==
  \/ Tick \/ Supervisor \/ Sigint \/ Ending \/ Watchdog
  \/ \E a \in Agents : AgentStep(a) \/ WorkStep(a) \/ ThreadEnds(a)

(* The event loop serves every task, what is awaited with a timeout ends, and *)
(* time passes.  Nothing makes a pool thread end, or what is awaited without. *)
Fairness ==
  /\ WF_vars(Tick) /\ WF_vars(Supervisor) /\ WF_vars(Ending) /\ WF_vars(Watchdog)
  /\ \A a \in Agents : WF_vars(AgentStep(a)) /\ WF_vars(IsBounded(a) /\ WorkStep(a))

Spec == Init /\ [][Next]_vars /\ Fairness

-----------------------------------------------------------------------------
(* Properties *)

Gone == {"crashed", "stopped", "cancelled"}

(* The variables have their types. *)
TypeOK ==
  /\ status \in [Agents -> {"asleep", "working"} \cup Gone]
  /\ DOMAIN age = Agents /\ \A a \in Agents :
       age[a] \in [Tasks(a) -> Nat] /\ \A t \in Tasks(a) : age[a][t] <= Cadence(a, t)
  /\ DOMAIN due = Agents /\ \A a \in Agents : due[a] \subseteq Tasks(a)
  /\ current \in [Agents -> Nat]
  /\ threads \subseteq Agents
  /\ alive \in BOOLEAN
  /\ sup \in {"watch", "handle", "sleep", "drain", "ended"}
  /\ tracked \subseteq Agents /\ batch \subseteq Agents
  /\ asleep \in Agents \cup {None}
  /\ wait \in Nat
  /\ restarts \in [Agents -> 0 .. Len(Backoffs)]
  /\ spent \in Nat /\ warned \in BOOLEAN /\ exhausted \in BOOLEAN
  /\ watchdog \in {"off", "armed", "grace", "cancelled"}
  /\ timer \in Nat
  /\ process \in {"up", "leaving", "exited", "forced"}
  /\ reason \in {None, "timeout", "sigint", "timeout_force"}
  /\ pidFile \in BOOLEAN
  /\ crashes \in 0 .. MaxCrashes

(* No agent runs behind the supervisor's back: whoever has not ended is in    *)
(* its tasks, through crashes, backoffs and restarts in mid-stop              *)
(* (supervisor.py:42-84).                                                    *)
NoOrphanAgent == \A a \in Agents : status[a] \notin Gone => a \in tracked

(* The scheduled tasks that execute stories, the only work that is charged. *)
Pulling ==
  {work \in UNION {{a} \X Tasks(a) : a \in Agents} : Route(work[1], work[2]) = "pull"}

(* The budget stops the team in time: what is charged exceeds --max-usd by no *)
(* more than one run of each task that pulls, the one in flight or the one    *)
(* already due when it was spent (budget.py:85-91, agent_loop.py:138-163).    *)
OverspendIsBounded ==
  MaxUsd > 0 => spent < MaxUsd + Cardinality(Pulling) * Max(Costs)

(* A process that ended by itself leaves no agent and no thread at work, and  *)
(* no pid.txt for `orgos stop' to signal (cli.py:636-645).                    *)
ExitIsClean ==
  process = "exited" =>
    /\ ~pidFile /\ threads = {}
    /\ \A a \in Agents : status[a] \in Gone

(* A stopped team ends, however its agents, a backoff of the supervisor or a  *)
(* thread that never returns stand in the way, when a timeout was given       *)
(* (cli.py:537-582: "guarantee exit").                                       *)
StopEnds == (~alive /\ watchdog # "off") ~> process \in {"exited", "forced"}

(* A crashed agent is back at work, unless the team is being stopped          *)
(* (supervisor.py:50-75), though the supervisor sleeps out one backoff after  *)
(* the other.                                                                *)
CrashesAreMended == \A a \in Agents : status[a] = "crashed" ~> status[a] # "crashed" \/ ~alive

(* A scheduled task that is overdue fires, in whatever order the tasks before *)
(* it come and however long they take, unless its agent hangs for good in a   *)
(* ceremony without a timeout (heartbeat_scheduler.py:82-88,                  *)
(* agent_loop.py:33-62, 344).                                                *)
OverdueTasksFire ==
  \A a \in Agents : \A t \in Tasks(a) :
    []<>(status[a] # "working" \/ IsBounded(a)) =>
      (age[a][t] = Cadence(a, t) ~> age[a][t] = 0 \/ ~alive)
=============================================================================
