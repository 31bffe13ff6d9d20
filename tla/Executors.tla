-------------------------------- MODULE Executors --------------------------------
(*****************************************************************************)
(* What happens inside the worktree of one delivery agent while its executor *)
(* runs (agile/coding_executor.py, agile/spawn_executor.py,                  *)
(* agile/mock_executor.py), from the head it starts from to the result it    *)
(* reports, and how the result is then judged: by the definition of done for *)
(* an architecture story, and by its acceptance criteria (agile/ac_gate.py). *)
(*                                                                           *)
(* Runs follow one another here, and there is one branch, which integration  *)
(* takes as it is; module Worktrees has the runs that go on after they were  *)
(* given up, the rebases and the merges that fail.                           *)
(*                                                                           *)
(* A commit is [files, cites]: the runs whose files it has, and the stories  *)
(* whose decision it records.  The nth commit of the branch has the sha n.   *)
(*****************************************************************************)
EXTENDS Integers, Sequences, FiniteSets

CONSTANTS
  Stories,
  Architecture,   \* the stories of type architecture
  Graded,         \* the stories with acceptance criteria
  Graders,        \* what the grading spawn may answer: [verdicts, accept]
  None,
  MaxRuns,        \* bound: executor runs in a behaviour
  MaxPerRun       \* bound: commits of an agent in one run

ASSUME ExecutorsAssumption ==
  /\ Architecture \subseteq Stories /\ Graded \subseteq Stories
  /\ None \notin Stories \cup Graders
  /\ \A g \in Graders :
       /\ g.verdicts \subseteq {"MET", "UNMET", "UNCERTAIN"}
       /\ g.accept \in BOOLEAN
  /\ MaxRuns \in Nat /\ MaxPerRun \in Nat

Kinds == {"cli", "spawn", "mock"}   \* claude and copilot differ in their command line

VARIABLES
  kind,       \* the executor of the team
  phase,      \* idle, working, returned, failed (a bad exit code) or decision
  story,      \* the story of the present run
  n,          \* its number
  base,       \* the baseline: the head it started from
  history,    \* the branch
  dirty,      \* [files, cites] that are in the worktree and not committed
  sha,        \* story -> its commit_sha, 0 without
  how,        \* story -> how that commit came about
  state,      \* story -> ready, review, pending_acceptance, done or blocked
  merged,     \* how many commits of the branch integration has
  answer      \* what the last grading spawn answered; None when it failed

vars ==
  <<kind, phase, story, n, base, history, dirty, sha, how, state, merged, answer>>

Clean == [files |-> {}, cites |-> {}]
Tip == Len(history)
Cited(upTo) == UNION {history[i].cites : i \in 1 .. upTo}

Init ==
  /\ kind \in Kinds
  /\ phase = "idle" /\ story = None /\ n = 0 /\ base = 0
  /\ history = <<>> /\ dirty = Clean
  /\ sha = [s \in Stories |-> 0]
  /\ how = [s \in Stories |-> "none"]
  /\ state = [s \in Stories |-> "ready"]
  /\ merged = 0 /\ answer = None

-----------------------------------------------------------------------------
(* The agent in the worktree *)

Begin(s) ==
  /\ phase = "idle" /\ n < MaxRuns /\ state[s] = "ready"
  /\ story' = s /\ n' = n + 1
  /\ base' = Tip
  /\ phase' = "working"
  /\ UNCHANGED <<kind, history, dirty, sha, how, state, merged, answer>>

Writes ==
  /\ phase = "working" /\ kind # "mock"
  /\ \/ n \notin dirty.files /\ dirty' = [dirty EXCEPT !.files = @ \cup {n}]
     \/ /\ story \in Architecture \ dirty.cites
        /\ dirty' = [dirty EXCEPT !.cites = @ \cup {story}]
  /\ UNCHANGED <<kind, phase, story, n, base, history, sha, how, state, merged, answer>>

(* git add -A, git commit: whatever is in the worktree, an earlier run's too. *)
CommitAll ==
  /\ dirty # Clean
  /\ history' = Append(history, dirty)
  /\ dirty' = Clean

Commits ==
  /\ phase = "working" /\ kind # "mock" /\ Tip - base < MaxPerRun
  /\ CommitAll
  /\ UNCHANGED <<kind, phase, story, n, base, sha, how, state, merged, answer>>

Ends ==
  /\ phase = "working" /\ kind # "mock"
  /\ phase' \in IF kind = "cli" THEN {"returned", "failed"} ELSE {"returned"}
  /\ UNCHANGED <<kind, story, n, base, history, dirty, sha, how, state, merged, answer>>

-----------------------------------------------------------------------------
(* The executor's result *)

Fails ==
  /\ phase' = "idle" /\ story' = None /\ base' = 0
  /\ UNCHANGED <<sha, how, state, merged>>

Succeeds(commit, manner) ==
  /\ phase' = "idle" /\ story' = None /\ base' = 0
  /\ sha' = [sha EXCEPT ![story] = commit]
  /\ how' = [how EXCEPT ![story] = manner]
  /\ state' = [state EXCEPT ![story] = "review"]
  /\ UNCHANGED merged

(* A timeout, or whatever a spawn raises: the head is not looked at. *)
Raises ==
  /\ phase = "working" /\ kind # "mock"
  /\ Fails
  /\ UNCHANGED <<kind, n, history, dirty, answer>>

(* Mutant of Advanced: any commit of the branch counts. *)
AdvancedEver == Tip # 0

(* HEAD has advanced past the baseline. *)
Advanced == Tip # base

(* ClaudeCodeExecutor and CopilotCliExecutor: with a bad exit code the commit *)
(* stays on the branch and does not count.                                   *)
CliResult ==
  /\ kind = "cli" /\ phase \in {"returned", "failed"}
  /\ IF Advanced /\ phase = "returned" THEN Succeeds(Tip, "own") ELSE Fails
  /\ UNCHANGED <<kind, n, history, dirty, answer>>

(* SpawnCodingExecutor.  What the agent wrote and did not commit is committed *)
(* for it, and then nothing more is looked at; that commit may fail.         *)
WipCommit ==
  /\ kind = "spawn" /\ phase = "returned" /\ ~Advanced
  /\ \/ CommitAll /\ Succeeds(Tip + 1, "wip")
     \/ Fails /\ UNCHANGED <<history, dirty>>
  /\ UNCHANGED <<kind, n, answer>>

(* Mutant of SpawnResult: the agent is trusted with the decision. *)
SpawnResultAsIs ==
  /\ kind = "spawn" /\ phase = "returned" /\ Advanced
  /\ Succeeds(Tip, "own")
  /\ UNCHANGED <<kind, n, history, dirty, answer>>

SpawnResult ==
  /\ kind = "spawn" /\ phase = "returned" /\ Advanced
  /\ IF story \in Architecture
     THEN phase' = "decision" /\ UNCHANGED <<story, base, sha, how, state, merged>>
     ELSE Succeeds(Tip, "own")
  /\ UNCHANGED <<kind, n, history, dirty, answer>>

(* The file DECISIONS.md of the worktree, committed or not, cites the story. *)
Recorded(s) == s \in Cited(Tip) \cup dirty.cites

(* _ensure_arch_wiki_entry: an entry in the file is enough, committed or not; *)
(* else a stub in a commit of its own, which may fail and leaves the stub     *)
(* uncommitted then.                                                         *)
EnsureDecision ==
  LET stub == [files |-> {}, cites |-> dirty.cites \cup {story}]
  IN /\ phase = "decision"
     /\ \/ /\ Recorded(story)
           /\ Succeeds(Tip, IF story \in Cited(Tip) THEN "own" ELSE "unrecorded")
           /\ UNCHANGED <<history, dirty>>
        \/ /\ ~Recorded(story)
           /\ history' = Append(history, stub)
           /\ dirty' = [dirty EXCEPT !.cites = {}]
           /\ Succeeds(Tip + 1, "stub")
        \/ /\ ~Recorded(story)
           /\ dirty' = [dirty EXCEPT !.cites = @ \cup {story}]
           /\ Succeeds(Tip, "unrecorded")
           /\ UNCHANGED history
     /\ UNCHANGED <<kind, n, answer>>

(* MockExecutor: the file of a story is the same each time it is written, and *)
(* a decision is appended each time.  Nothing to commit is a failure.        *)
Mock ==
  LET files == IF \E i \in 1 .. Tip : story \in history[i].files THEN {} ELSE {story}
      cites == {story} \cap Architecture
      left == [files |-> dirty.files \cup files, cites |-> dirty.cites \cup cites]
  IN /\ kind = "mock" /\ phase = "working"
     /\ \/ /\ left # Clean
           /\ history' = Append(history, left) /\ dirty' = Clean
           /\ Succeeds(Tip + 1, "own")
        \/ Fails /\ dirty' = left /\ UNCHANGED history
     /\ UNCHANGED <<kind, n, answer>>

-----------------------------------------------------------------------------
(* Acceptance *)

(* The merge queue takes the branch over (module Worktrees). *)
Merge(s) ==
  /\ state[s] = "review"
  /\ state' = [state EXCEPT ![s] = "pending_acceptance"]
  /\ merged' = Tip
  /\ UNCHANGED <<kind, phase, story, n, base, history, dirty, sha, how, answer>>

(* The definition of done: an architecture story has a decision in integration. *)
Undone(s) == s \in Architecture /\ s \notin Cited(merged)

BlockUndone(s) ==
  /\ state[s] = "pending_acceptance"
  /\ Undone(s)
  /\ state' = [state EXCEPT ![s] = "blocked"]
  /\ answer' = None
  /\ UNCHANGED <<kind, phase, story, n, base, history, dirty, sha, how, merged>>

(* Mutant of Accepts: the grader's own conclusion decides. *)
AcceptsAsTold(g) == g = None \/ g.accept

(* Any criterion that is UNMET rejects and none accepts, whatever the grader   *)
(* concludes itself; its conclusion counts when it graded no criterion.  A    *)
(* grader that fails, or whose answer cannot be parsed, accepts.             *)
Accepts(g) ==
  \/ g = None
  \/ g.verdicts # {} /\ "UNMET" \notin g.verdicts
  \/ g.verdicts = {} /\ g.accept

(* A rejected story goes back with its feedback, and without its commit; it   *)
(* is blocked when its attempts are used up, or when the feedback cannot be   *)
(* written, before or after its commit was taken from it.                    *)
Reject(s) ==
  \E to \in {"ready", "blocked"}, keep \in BOOLEAN :
    /\ to = "ready" => ~keep
    /\ state' = [state EXCEPT ![s] = to]
    /\ sha' = IF keep THEN sha ELSE [sha EXCEPT ![s] = 0]
    /\ how' = IF keep THEN how ELSE [how EXCEPT ![s] = "none"]

(* grade_acceptance_criteria, in the batch of the product owner, which grades *)
(* two stories and accepts the others ungraded.                              *)
Grade(s) ==
  /\ state[s] = "pending_acceptance" /\ ~Undone(s)
  /\ \E g \in IF s \in Graded THEN Graders \cup {None} ELSE {None} :
       /\ answer' = g
       /\ IF Accepts(g)
          THEN state' = [state EXCEPT ![s] = "done"] /\ UNCHANGED <<sha, how>>
          ELSE Reject(s)
  /\ UNCHANGED <<kind, phase, story, n, base, history, dirty, merged>>

Next ==
  \/ \E s \in Stories : Begin(s) \/ Merge(s) \/ BlockUndone(s) \/ Grade(s)
  \/ Writes \/ Commits \/ Ends \/ Raises
  \/ CliResult \/ WipCommit \/ SpawnResult \/ EnsureDecision \/ Mock

Spec == Init /\ [][Next]_vars

-----------------------------------------------------------------------------
(* Properties *)

(* The variables have their types. *)
TypeOK ==
  /\ kind \in Kinds
  /\ phase \in {"idle", "working", "returned", "failed", "decision"}
  /\ story \in Stories \cup {None} /\ (phase = "idle" <=> story = None)
  /\ n \in 0 .. MaxRuns /\ base \in 0 .. Tip
  /\ \A i \in 1 .. Tip :
       history[i] # Clean /\ history[i].files \subseteq 1 .. n \cup Stories
  /\ dirty.cites \subseteq Architecture
  /\ sha \in [Stories -> 0 .. Tip]
  /\ state \in [Stories -> {"ready", "review", "pending_acceptance", "done", "blocked"}]
  /\ merged \in 0 .. Tip

(* Every story that waits for its merge or for acceptance, or was accepted,   *)
(* has a commit of its own on the branch: after a timeout, a bad exit code, a *)
(* rejection, or with the files of an earlier run in the worktree, no executor *)
(* reports a commit that an earlier run reported (coding_executor.py:190,     *)
(* spawn_executor.py:313).                                                   *)
SuccessIsNew ==
  \A s \in Stories :
    state[s] \in {"review", "pending_acceptance", "done"} =>
      /\ sha[s] \in 1 .. Tip
      /\ \A t \in Stories \ {s} : sha[t] # sha[s]

(* Under the spawn executor the definition of done stops an architecture story *)
(* for two reasons only: it was committed for its agent, before the entry was *)
(* looked at (spawn_executor.py:313-352), or its entry was in the worktree but *)
(* in no commit when it was handed over, and then it is still there or in a   *)
(* later commit.                                                             *)
DecisionIsRecorded ==
  \A s \in Architecture :
    kind = "spawn" /\ state[s] = "pending_acceptance" /\ Undone(s) =>
      \/ how[s] = "wip"
      \/ how[s] = "unrecorded" /\ s \in Cited(Tip) \cup dirty.cites

(* A story is only sent back, or blocked for its criteria, on evidence -- an   *)
(* UNMET criterion, or the grader's conclusion when it graded none -- and     *)
(* never accepted against it (ac_gate.py:283-287).                           *)
JudgedOnEvidence ==
  [][\A s \in Stories :
       state[s] = "pending_acceptance" /\ answer' # None =>
         /\ state'[s] \in {"ready", "blocked"} =>
              \/ "UNMET" \in answer'.verdicts
              \/ answer'.verdicts = {} /\ ~answer'.accept
         /\ state'[s] = "done" => "UNMET" \notin answer'.verdicts]_vars
=============================================================================
