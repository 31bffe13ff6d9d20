--------------------------------- MODULE Campaign --------------------------------
(*****************************************************************************)
(* A team from `orgos start' to `orgos ship': start opens or creates the     *)
(* team's folder, decomposes the goal when the board has nothing left to do, *)
(* and lets the team work until it is stopped; start again resumes, start    *)
(* --fresh and reset delete.  Deliver and ship look at the same board from   *)
(* another process.                                                          *)
(*                                                                           *)
(* The command that owns the team runs step by step and may be killed        *)
(* between any two steps.  Two such commands at once are not modelled.       *)
(*****************************************************************************)
EXTENDS Shipping, TeamFolder

CONSTANTS
  Specs,        \* the spec files: sequences of [title, deps], positions from 1
  Answers,      \* what the product owner may answer: plans, positions from 0
  MaxTurns      \* bound: stories retried and resumed in a behaviour

ASSUME CampaignAssumption ==
  /\ IsFiniteSet(Agents) /\ IsFiniteSet(Titles)
  /\ MaxDrafts \in Nat \ {0} /\ MaxPlans \in Nat \ {0}
  /\ Within \subseteq Titles \X Titles
  /\ \A a \in Titles : <<a, a>> \notin Earlier
  /\ \A a, b, c \in Titles : <<a, b>> \in Earlier /\ <<b, c>> \in Earlier
                             => <<a, c>> \in Earlier
  /\ MaxIgnored \in Nat
  /\ MinDelivered \in 0 .. 100 /\ MinPassRate \in 0 .. 100
  /\ Suites \subseteq [installs : BOOLEAN, ends : BOOLEAN,
                       passed : Nat, failed : Nat, unparsable : Nat]
  /\ \A plan \in Specs : plan \in Seq([title : Titles, deps : SUBSET Int])
  /\ \A plan \in Answers :
       plan \in Seq([title : Titles, deps : SUBSET Int, names : SUBSET Ids])
  /\ \A plan \in Specs \cup Answers : Len(plan) <= MaxDrafts
  /\ MaxTurns \in Nat /\ MaxStories \in Nat

VARIABLES
  spec,      \* what the spec file declares; empty without one
  step,      \* where the owning command is
  fresh,     \* a start --fresh that is still resetting
  turns      \* stories retried and resumed so far

commandVars == <<spec, step, fresh, turns>>
vars == <<folderVars, backlogVars, shipVars, commandVars>>

Steps == {"idle", "create", "manifest", "agents", "seed", "draft", "link", "run",
          "wipe", "folder"}

Init ==
  /\ FolderInit /\ BacklogInit /\ ShipInit
  /\ spec \in Specs
  /\ step = "idle" /\ fresh = FALSE
  /\ turns = 0

Elsewhere == UNCHANGED <<spec, turns>>

-----------------------------------------------------------------------------
(* orgos start *)

Start(anew) ==
  /\ step = "idle"
  /\ fresh' = (anew /\ manifest)
  /\ step' = CASE ~manifest -> "create"
               [] manifest /\ anew -> "wipe"
               [] OTHER -> "agents"
  /\ UNCHANGED <<folderVars, backlogVars, shipVars, spec, turns>>

(* A git command that fails ends the start with an exception: the first one   *)
(* before it made anything, a later one with the branch and the worktree     *)
(* there and no manifest.                                                    *)
Create ==
  /\ step = "create"
  /\ \/ AddIntegration /\ step' = "manifest"
     \/ step' = "idle" /\ UNCHANGED folderVars
  /\ UNCHANGED <<backlogVars, shipVars, fresh>> /\ Elsewhere

Register ==
  /\ step = "manifest"
  /\ \/ WriteManifest /\ step' = "agents"
     \/ GitFails /\ step' = "idle"
  /\ UNCHANGED <<backlogVars, shipVars, fresh>> /\ Elsewhere

Equip ==
  /\ step = "agents"
  /\ \/ /\ \E a \in Agents : AddAgent(a)
        /\ UNCHANGED step
     \/ /\ \E a \in Agents \ agentTrees : ~CanAddAgent(a)
        /\ step' = "idle" /\ UNCHANGED folderVars
     \/ /\ agentTrees = Agents
        /\ step' = "seed" /\ UNCHANGED folderVars
  /\ UNCHANGED <<backlogVars, shipVars, fresh>> /\ Elsewhere

(* Mutant of Unfinished: a story in progress does not count. *)
UnfinishedBeforeWork == In({"draft", "refinement", "ready"})

Unfinished == In({"draft", "refinement", "ready", "in_progress"})

(* Whatever is raised in a decomposition is a warning, and the team starts. *)
DecompositionFails == step' = "run" /\ EndPlan

(* The board is seeded when nothing on it is waiting or in progress; stories  *)
(* in review or waiting for acceptance do not count as unfinished.  The       *)
(* stories of the spec are taken as they are; otherwise the product owner     *)
(* answers, or fails to, and the team starts without a backlog.              *)
Seed ==
  /\ step = "seed"
  /\ \/ Unfinished # {} /\ step' = "run" /\ UNCHANGED backlogVars
     \/ Unfinished = {} /\ DecompositionFails
     \/ /\ Unfinished = {} /\ Len(drafted) < MaxPlans
        /\ IF spec # <<>> THEN BeginPlan(FromSpec(spec))
           ELSE \E plan \in Answers : BeginPlan(plan)
        /\ step' = "draft"
  /\ UNCHANGED <<folderVars, shipVars, fresh>> /\ Elsewhere

Draft ==
  /\ step = "draft"
  /\ \/ DraftNext /\ Disturb /\ UNCHANGED step
     \/ ~MoreToDraft /\ step' = "link" /\ UNCHANGED <<backlogVars, shipVars>>
     \/ DecompositionFails /\ UNCHANGED shipVars
  /\ UNCHANGED <<folderVars, fresh>> /\ Elsewhere

Link ==
  /\ step = "link"
  /\ \/ /\ \E i \in DOMAIN created :
             /\ LinkNext(i)
             /\ \A k \in 1 .. i - 1 : created[k] \in linked
        /\ UNCHANGED step
     \/ /\ \A i \in DOMAIN created : created[i] \in linked
        /\ step' = "run" /\ EndPlan
     \/ DecompositionFails
  /\ UNCHANGED <<folderVars, shipVars, fresh>> /\ Elsewhere

-----------------------------------------------------------------------------
(* The team at work *)

Progress(s) ==
  /\ step = "run"
  /\ Forward(s)
  /\ Disturb
  /\ UNCHANGED <<folderVars, commandVars>>

Setback(s) ==
  /\ step = "run" /\ turns < MaxTurns
  /\ turns' = turns + 1
  /\ Back(s)
  /\ Disturb
  /\ UNCHANGED <<folderVars, spec, step, fresh>>

-----------------------------------------------------------------------------
(* orgos reset, and the first half of start --fresh *)

Reset ==
  /\ step = "idle" /\ manifest
  /\ step' = "wipe"
  /\ UNCHANGED <<folderVars, backlogVars, shipVars, spec, fresh, turns>>

(* The agents' worktrees that are there, each with its branch after it, then  *)
(* the integration worktree (which rmtree removes when git does not), and its *)
(* branch.  What a failing command leaves is left.                           *)
Wipe ==
  /\ step = "wipe"
  /\ \/ /\ \/ \E a \in agentTrees : RemoveAgent(a)
           \/ agentTrees # {} /\ CutShort
           \/ (agentTrees = {} \/ cut) /\ tree /\ RemoveTree
        /\ UNCHANGED step
     \/ /\ (agentTrees = {} \/ cut) /\ ~tree
        /\ DeleteBranch \/ GitFails
        /\ step' = "folder"
  /\ UNCHANGED <<backlogVars, shipVars, fresh>> /\ Elsewhere

(* rmtree comes to the manifest, the worktrees and the board in any order. *)
Delete ==
  /\ step = "folder"
  /\ \/ manifest /\ RemoveManifest /\ UNCHANGED <<backlogVars, shipVars, step>>
     \/ /\ agentTrees # {} /\ RemoveTreesLeft
        /\ UNCHANGED <<backlogVars, shipVars, step>>
     \/ OnBoard # {} /\ RemoveBoard /\ Disturb /\ UNCHANGED <<folderVars, step>>
     \/ /\ ~manifest /\ agentTrees = {} /\ OnBoard = {}
        /\ step' = IF fresh THEN "create" ELSE "idle"
        /\ UNCHANGED <<folderVars, backlogVars, shipVars>>
  /\ fresh' = (fresh /\ step' = "folder")
  /\ Elsewhere

(* The owning process ends, at a signal or killed. *)
Stop ==
  /\ step # "idle"
  /\ step' = "idle" /\ fresh' = FALSE
  /\ \/ step \in {"manifest", "wipe", "folder"} /\ CutShort
     \/ step \notin {"manifest", "wipe", "folder"} /\ UNCHANGED folderVars
  /\ EndPlan
  /\ UNCHANGED shipVars /\ Elsewhere

-----------------------------------------------------------------------------
(* orgos ship, of a team with a manifest; orgos deliver only reads (BuildReport) *)

Ship ==
  /\ \/ manifest /\ \E t \in [force : BOOLEAN, verify : BOOLEAN] : BeginShip(spec, t)
     \/ Verify(tree)
     \/ manifest /\ tree /\ Push
     \/ ~(manifest /\ tree) /\ PushFails
     \/ OpenPR
  /\ UNCHANGED <<folderVars, backlogVars, commandVars>>

Command ==
  Create \/ Register \/ Equip \/ Seed \/ Draft \/ Link \/ Wipe \/ Delete

Next ==
  \/ \E anew \in BOOLEAN : Start(anew)
  \/ Reset \/ Command \/ Stop \/ Ship
  \/ \E s \in Ids : Progress(s) \/ Setback(s)

Spec == Init /\ [][Next]_vars

-----------------------------------------------------------------------------
(* Properties *)

(* The variables have their types. *)
TypeOK ==
  /\ FolderTypeOK /\ BacklogTypeOK /\ ShipTypeOK
  /\ spec \in Specs
  /\ step \in Steps /\ fresh \in BOOLEAN
  /\ turns \in 0 .. MaxTurns

(* A team's folder is whole between two commands: it has a manifest exactly   *)
(* when git has its branch and worktree, and without one it leaves no branch, *)
(* worktree or story behind, so that the next start succeeds.  This needs     *)
(* every create and reset to have run to its end: one that was killed, or     *)
(* whose git command failed after the worktree was added or while it removed  *)
(* one, leaves an id that can neither be created nor be reset                 *)
(* (team_workspace.py:163, 189-214, 298-330).                                 *)
FolderIsWhole ==
  step = "idle" /\ ~cut =>
    /\ (manifest <=> branch) /\ (manifest <=> tree)
    /\ agentTrees = agentBranches
    /\ ~manifest => agentTrees = {} /\ OnBoard = {}

(* A story depends only on stories of its own decomposition, whatever ids     *)
(* earlier ones have taken; one that comes from a spec only on those the spec *)
(* names, and never on itself, through the spec's positions from 1, the       *)
(* plan's from 0 and the appended ids (spec_parser.py:187,                    *)
(* goal_decomposer.py:499-515).  A product owner that names ids instead of    *)
(* positions can make a story depend on itself.                              *)
DependenciesAreNamed ==
  \A s \in linked : \A d \in deps[s] :
    /\ d \in OnBoard /\ origin[d] = origin[s]
    /\ spec # <<>> => d # s /\ d.pos + 1 \in spec[s.pos + 1].deps

(* No story of a decomposition that ran to its end is worked on before what   *)
(* the spec names as its dependencies is done; a decomposition that is killed *)
(* leaves drafts without dependencies, and the next start goes on with them   *)
(* (cli.py:433, goal_decomposer.py:499).                                      *)
SpecOrderIsKept ==
  [][\A s \in linked :
       spec # <<>> /\ column[s] = "ready" /\ column'[s] = "in_progress" =>
         \A p \in spec[s.pos + 1].deps \cap (1 .. Len(spec)) :
           p = s.pos + 1
           \/ \E d \in In({"done"}) : d.pos = p - 1 /\ origin[d] = origin[s]]_vars

(* Whatever is started, killed and started again, a story on the board stays  *)
(* the story it is until the folder is deleted: no decomposition takes its id *)
(* (goal_decomposer.py:482-484).                                              *)
StoriesAreKept ==
  [][\A s \in OnBoard :
       step # "folder" =>
         origin'[s] = origin[s] /\ (step = "draft" => column'[s] = column[s])]_vars

(* A backlog is not drafted beside one that is being worked on: while a       *)
(* decomposition runs, whatever it did not draft itself is done, blocked, in  *)
(* review or waiting for acceptance (cli.py:433).  A restart whose last       *)
(* stories are in review does draft them anew.                               *)
OneBacklogAtATime ==
  step \in {"draft", "link"} =>
    \A s \in OnBoard \ In({"done", "blocked", "review", "pending_acceptance"}) :
      origin[s] = Len(drafted)

(* Enough of what the spec declares is there: for so many of its stories the  *)
(* board has a done story of the same title, or of one that contains it or is *)
(* contained in it, and no done story counts for two.                        *)
Delivered ==
  /\ spec # <<>> \/ MinDelivered = 0
  /\ \E some \in SUBSET (DOMAIN spec) : \E story \in [some -> In({"done"})] :
       /\ 100 * Cardinality(some) >= MinDelivered * Len(spec)
       /\ \A i \in some : \/ story[i].title = spec[i].title
                          \/ Alike(story[i].title, spec[i].title)
       /\ \A i, j \in some : i # j => story[i] # story[j]

(* What is pushed without --force is delivered at that moment, although the   *)
(* receipt is older and the team has gone on working since; and the tests it  *)
(* was verified by, if it could be verified, passed often enough (cli.py:1027, *)
(* 1050).  The one thing the ship does not notice is a done story lost after  *)
(* the receipt, blocked again or deleted with its folder: then moved holds.   *)
(* That nothing was merged after the tests is not promised.                  *)
ShippedIsDelivered ==
  [][shipping = "push" /\ shipping' = "open" /\ ~terms.force =>
       /\ moved \/ Delivered
       /\ terms.verify => Passes(verdict)]_vars
=============================================================================
