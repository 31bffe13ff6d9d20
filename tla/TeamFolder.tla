------------------------------- MODULE TeamFolder --------------------------------
(*****************************************************************************)
(* The folder and the git branches of a team (agile/team_workspace.py), one  *)
(* git command or file at a time: a process that is killed, or whose git      *)
(* command fails, leaves what its last command left.  A folder counts as a   *)
(* team's once it has a manifest.                                            *)
(*****************************************************************************)
EXTENDS Integers, FiniteSets

CONSTANTS
  Agents        \* the agents of --architects, --testers, ... and the coordinators

VARIABLES
  manifest,     \* manifest.json exists
  branch,       \* git knows the branch team/<id>/integration
  tree,         \* integration/ is a worktree
  agentBranches, agentTrees,   \* the agents' branches and worktrees
  cut           \* some create or reset was cut short, or went on over a failure

folderVars == <<manifest, branch, tree, agentBranches, agentTrees, cut>>

FolderInit ==
  /\ manifest = FALSE /\ branch = FALSE /\ tree = FALSE
  /\ agentBranches = {} /\ agentTrees = {}
  /\ cut = FALSE

(* `git worktree add -b' refuses a branch or a directory that exists. *)
CanAddIntegration == ~branch /\ ~tree
CanAddAgent(a) == branch /\ a \notin agentBranches

(* create, up to the baseline commit. *)
AddIntegration ==
  /\ CanAddIntegration
  /\ branch' = TRUE /\ tree' = TRUE
  /\ UNCHANGED <<manifest, agentBranches, agentTrees, cut>>

WriteManifest ==
  /\ manifest' = TRUE
  /\ UNCHANGED <<branch, tree, agentBranches, agentTrees, cut>>

(* ensure_agent_workspace, for an agent without a worktree. *)
AddAgent(a) ==
  /\ a \notin agentTrees /\ CanAddAgent(a)
  /\ agentBranches' = agentBranches \cup {a} /\ agentTrees' = agentTrees \cup {a}
  /\ UNCHANGED <<manifest, branch, tree, cut>>

(* Mutant of RemoveAgent: the branch is forgotten. *)
RemoveAgentTree(a) ==
  /\ a \in agentTrees
  /\ agentTrees' = agentTrees \ {a}
  /\ UNCHANGED <<manifest, branch, tree, agentBranches, cut>>

(* reset: an agent's worktree is removed and then its branch deleted; without *)
(* a worktree the branch is not looked at.  CutShort is the same when one of  *)
(* the two commands fails, which is ignored.                                 *)
RemoveAgent(a) ==
  /\ a \in agentTrees
  /\ agentTrees' = agentTrees \ {a} /\ agentBranches' = agentBranches \ {a}
  /\ UNCHANGED <<manifest, branch, tree, cut>>

RemoveTree ==
  /\ tree' = FALSE
  /\ UNCHANGED <<manifest, branch, agentBranches, agentTrees, cut>>

DeleteBranch ==
  /\ branch' = FALSE
  /\ UNCHANGED <<manifest, tree, agentBranches, agentTrees, cut>>

(* rmtree of the folder, as far as the manifest is concerned, and as far as   *)
(* the worktrees are that git did not remove.                                *)
RemoveManifest ==
  /\ manifest' = FALSE
  /\ UNCHANGED <<branch, tree, agentBranches, agentTrees, cut>>

RemoveTreesLeft ==
  /\ agentTrees' = {}
  /\ UNCHANGED <<manifest, branch, tree, agentBranches, cut>>

(* create raises at a git command after its worktree (check=True), and undoes *)
(* nothing; reset goes on when the branch cannot be deleted (check=False).   *)
GitFails ==
  /\ cut' = TRUE
  /\ UNCHANGED <<manifest, branch, tree, agentBranches, agentTrees>>

(* A create or reset is killed, perhaps between a worktree and its branch. *)
CutShort ==
  /\ cut' = TRUE
  /\ agentTrees' \in {agentTrees} \cup {agentTrees \ {a} : a \in agentTrees}
  /\ UNCHANGED <<manifest, branch, tree, agentBranches>>

FolderTypeOK ==
  /\ manifest \in BOOLEAN /\ branch \in BOOLEAN /\ tree \in BOOLEAN /\ cut \in BOOLEAN
  /\ agentBranches \subseteq Agents /\ agentTrees \subseteq Agents
=============================================================================
