--------------------------------- MODULE Worktrees -------------------------------
(*****************************************************************************)
(* Delivery and merging together with their git side: every delivery agent   *)
(* has a worktree and a branch of its own (agile/team_workspace.py), in      *)
(* which its executors commit (agile/coding_executor.py) and in which the    *)
(* merge worker rebases (agile/merge_queue.py _attempt_merge).               *)
(*                                                                           *)
(* A branch is its history, a sequence of commits; two heads are equal when  *)
(* the histories are.  A commit is named by the executor run that made it,   *)
(* also after a rebase.  An executor run commits at most once: it may commit *)
(* more often, but always to the same branch.                                *)
(*                                                                           *)
(* The board is moved by delivery and merging only.  Module ScrumTeam has    *)
(* the ceremonies, but no branches.                                          *)
(*****************************************************************************)
EXTENDS Delivery, SequencesExt

CONSTANT MaxRuns   \* bound: executor runs in a behaviour

ASSUME WorktreesAssumption == MaxRuns \in Nat

VARIABLES
  integ,      \* the integration branch
  branch,     \* actor -> its agent branch, checked out in its worktree
  run,        \* actor -> its executor run and the head it started from
  late,       \* <<actor, run>> for runs that were given up on but go on
  runStory,   \* history: the story of each executor run so far
  rebased,    \* the worker is past the rebase of the request it is merging
  made,       \* history: all commits ever made
  dropped,    \* history: the commits a conflict threw away
  delivered   \* history: story -> the commit of its last successful run, 0 if none

gitVars == <<integ, branch, run, late, runStory, rebased, made, dropped, delivered>>

vars == <<boardVars, mergeVars, deliveryVars, gitVars>>

NoRun == [id |-> 0, base |-> <<>>]

(* A team starts, or resumes, with a refined backlog. *)
Init ==
  /\ state = [s \in Stories |-> "ready"]
  /\ assignee = [s \in Stories |-> None]
  /\ attempts = [s \in Stories |-> 0]
  /\ committed = {}
  /\ activation = [s \in Stories |-> "never"]
  /\ sprintOf = [s \in Stories |-> 0]
  /\ MergeInit
  /\ DeliveryInit
  /\ integ = <<>>
  /\ branch = [a \in Actors |-> <<>>]
  /\ run = [a \in Actors |-> NoRun]
  /\ late = {}
  /\ runStory = <<>>
  /\ rebased = FALSE
  /\ made = {}
  /\ dropped = {}
  /\ delivered = [s \in Stories |-> 0]

-----------------------------------------------------------------------------
(* Executors. *)

(* The executor notes the head before it starts.  Nothing brings the branch   *)
(* up to date with integration first.                                        *)
StartRun(a, s) ==
  /\ Len(runStory) < MaxRuns
  /\ Pull(a, s, 0)
  /\ runStory' = Append(runStory, s)
  /\ run' = [run EXCEPT ![a] = [id |-> Len(runStory) + 1, base |-> branch[a]]]
  /\ UNCHANGED <<integ, branch, late, rebased, made, dropped, delivered>>

(* A run that was given up on goes on in its thread (the agent waits 300 s,   *)
(* the executor gives its command 900 s), in the same worktree.               *)
Commit(a, r) ==
  /\ \/ work[a] # None /\ r = run[a].id
     \/ <<a, r>> \in late
  /\ r \notin made
  /\ branch' = [branch EXCEPT ![a] = Append(@, r)]
  /\ made' = made \cup {r}
  /\ UNCHANGED <<boardVars, mergeVars, deliveryVars, integ, run, late, runStory, rebased,
                 dropped, delivered>>

(* Success is a head other than the one noted, whoever moved it. *)
RunSucceeds(a) ==
  /\ CommitLanded(a)
  /\ branch[a] # run[a].base
  /\ delivered' = [delivered EXCEPT ![work[a]] = IF run[a].id \in made THEN run[a].id ELSE 0]
  /\ run' = [run EXCEPT ![a] = NoRun]
  /\ UNCHANGED <<integ, branch, late, runStory, rebased, made, dropped>>

(* An unchanged head, an exit code or an exception.  In the last two cases a  *)
(* commit may have been made; it stays on the branch.                        *)
RunFails(a) ==
  /\ \E hard \in BOOLEAN : NoCommit(a, hard)
  /\ run' = [run EXCEPT ![a] = NoRun]
  /\ UNCHANGED <<integ, branch, late, runStory, rebased, made, dropped, delivered>>

(* wait_for gives up on the thread, which goes on. *)
RunTimesOut(a) ==
  /\ NoCommit(a, FALSE)
  /\ late' = late \cup {<<a, run[a].id>>}
  /\ run' = [run EXCEPT ![a] = NoRun]
  /\ UNCHANGED <<integ, branch, runStory, rebased, made, dropped, delivered>>

-----------------------------------------------------------------------------
(* The merge worker. *)

Merged == ToSet(integ)

(* Where an agent's branch left integration: as many commits as the two have  *)
(* in common.  What follows is not merged yet.                               *)
ForkPoint(a) ==
  Cardinality({n \in 1 .. Len(branch[a]) :
                 n <= Len(integ) /\ SubSeq(branch[a], 1, n) = SubSeq(integ, 1, n)})

Unmerged(a) == SubSeq(branch[a], ForkPoint(a) + 1, Len(branch[a]))

TakeRequest == Dequeue /\ UNCHANGED <<deliveryVars, gitVars>>

(* Mutants of Rebase: the step is skipped; the reset that belongs to a         *)
(* conflict is always done.                                                   *)
RebaseSkipped ==
  /\ worker.phase = "merging" /\ ~rebased
  /\ rebased' = TRUE
  /\ UNCHANGED <<boardVars, mergeVars, deliveryVars, integ, branch, run, late, runStory,
                 made, dropped, delivered>>

RebaseAndReset ==
  /\ worker.phase = "merging" /\ ~rebased
  /\ branch' = [branch EXCEPT ![worker.req.actor] = integ]
  /\ rebased' = TRUE
  /\ UNCHANGED <<boardVars, mergeVars, deliveryVars, integ, run, late, runStory, made,
                 dropped, delivered>>

(* git rebase --autostash, clean or resolved by merge_resolver.  It runs in    *)
(* the agent's worktree, where the agent's next executor may be at work.      *)
Rebase ==
  LET a == worker.req.actor IN
  /\ worker.phase = "merging" /\ ~rebased
  /\ branch' = [branch EXCEPT ![a] = integ \o Unmerged(a)]
  /\ rebased' = TRUE
  /\ UNCHANGED <<boardVars, mergeVars, deliveryVars, integ, run, late, runStory, made,
                 dropped, delivered>>

(* The rebase fails: a commit conflicts and is not resolved, or anything else *)
(* is wrong (a lock file, the autostash).  Then rebase --abort, and           *)
(* reset --hard to integration.  Every unmerged commit of the branch goes,    *)
(* the ones of stories whose requests are still waiting included.             *)
RebaseConflict ==
  LET a == worker.req.actor IN
  /\ worker.phase = "merging" /\ ~rebased
  /\ MergeConflict
  /\ branch' = [branch EXCEPT ![a] = integ]
  /\ dropped' = dropped \cup ToSet(Unmerged(a))
  /\ UNCHANGED <<deliveryVars, integ, run, late, runStory, rebased, made, delivered>>

(* Any other failure blocks the story and leaves the branches: no worktree to *)
(* rebase in, a reset that fails like the rebase before it, a failing         *)
(* checkout of integration, a fast-forward that is refused.                   *)
MergeFails ==
  /\ MergeConflict
  /\ rebased' = FALSE
  /\ UNCHANGED <<deliveryVars, integ, branch, run, late, runStory, made, dropped, delivered>>

(* Mutant of FastForward: nothing is merged. *)
FastForwardNothing ==
  /\ rebased
  /\ MergeCompleted
  /\ rebased' = FALSE
  /\ UNCHANGED <<deliveryVars, integ, branch, run, late, runStory, made, dropped, delivered>>

(* merge --ff-only, of whatever the branch holds by now. *)
FastForward ==
  /\ rebased
  /\ IsPrefix(integ, branch[worker.req.actor])
  /\ MergeCompleted
  /\ integ' = branch[worker.req.actor]
  /\ rebased' = FALSE
  /\ UNCHANGED <<deliveryVars, branch, run, late, runStory, made, dropped, delivered>>

(* The gate returns the story to ready; its commit stays on integration. *)
CollectionCheck ==
  /\ GateOK \/ GateBroken
  /\ UNCHANGED <<deliveryVars, gitVars>>

-----------------------------------------------------------------------------
Next ==
  \/ \E a \in Actors :
       \/ \E s \in Stories : StartRun(a, s)
       \/ \E r \in 1 .. Len(runStory) : Commit(a, r)
       \/ RunSucceeds(a)
       \/ RunFails(a)
       \/ RunTimesOut(a)
  \/ TakeRequest
  \/ Rebase
  \/ RebaseConflict
  \/ MergeFails
  \/ FastForward
  \/ CollectionCheck

Spec == Init /\ [][Next]_vars

-----------------------------------------------------------------------------
GitTypeOK ==
  /\ integ \in Seq(Nat)
  /\ branch \in [Actors -> Seq(Nat)]
  /\ run \in [Actors -> [id : Nat, base : Seq(Nat)]]
  /\ late \in SUBSET (Actors \X Nat)
  /\ runStory \in Seq(Stories)
  /\ rebased \in BOOLEAN
  /\ made \in SUBSET Nat
  /\ dropped \in SUBSET Nat
  /\ delivered \in [Stories -> Nat]

(* "Fast-forward is guaranteed after a clean rebase" (_attempt_merge), although *)
(* executors of the same agent, late ones too, commit to the branch meanwhile. *)
FastForwardGuaranteed ==
  rebased => IsPrefix(integ, branch[worker.req.actor])

(* No commit is on integration twice, and every commit ever made is on         *)
(* integration, on some agent's branch, or was thrown away by a conflict; what *)
(* is on integration is never thrown away.                                    *)
CommitsAccounted ==
  /\ \A i, j \in 1 .. Len(integ) : integ[i] = integ[j] => i = j
  /\ made \subseteq Merged \cup dropped \cup UNION {ToSet(branch[a]) : a \in Actors}
  /\ dropped \cap Merged = {}

(* A story reported merged has the commit of its last run on integration,     *)
(* unless that run made none or a conflict threw it away (both happen).       *)
HandedOverIsMerged ==
  \A s \in Stories :
    state[s] = "pending_acceptance" /\ delivered[s] # 0 =>
      delivered[s] \in Merged \cup dropped

(* The merge worker rewrites the branch of the agent whose request it serves, *)
(* and no other: to everybody else's branch commits are only added.           *)
OtherBranchesAreLeft ==
  [][\A a \in Actors :
       a # worker.req.actor => IsPrefix(branch[a], branch'[a])]_vars
=============================================================================
