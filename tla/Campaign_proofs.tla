------------------------------ MODULE Campaign_proofs ----------------------------
(*****************************************************************************)
(* Proofs about a team's folder and its backlog, from start to reset, for    *)
(* any agents, spec files and answers of the product owner, and any number   *)
(* of stories and decompositions, killed at any step.                        *)
(*****************************************************************************)
EXTENDS Campaign, FiniteFolds, FiniteSetTheorems, TLAPS

-----------------------------------------------------------------------------
(* The invariant *)

(* As long as nothing was cut short, each step of a command finds the folder  *)
(* that the steps before it leave.                                           *)
Empty == ~branch /\ ~tree /\ agentTrees = {} /\ agentBranches = {}

FolderInv ==
  /\ FolderTypeOK
  /\ step \in Steps /\ fresh \in BOOLEAN
  /\ ~cut =>
       /\ step \in {"idle", "create", "manifest"} /\ ~manifest => OnBoard = {}
       /\ step = "idle" => \/ manifest /\ branch /\ tree /\ agentTrees = agentBranches
                           \/ ~manifest /\ Empty
       /\ step = "create" => ~manifest /\ Empty
       /\ step = "manifest" => /\ ~manifest /\ branch /\ tree
                               /\ agentTrees = {} /\ agentBranches = {}
       /\ step \in {"agents", "seed", "draft", "link", "run"} =>
            manifest /\ branch /\ tree /\ agentTrees = agentBranches
       /\ step = "wipe" => manifest /\ branch /\ agentTrees = agentBranches
       /\ step = "folder" => Empty

Drafts == [title : Titles, deps : SUBSET Int, names : SUBSET Ids]
Declared == [title : Titles, deps : SUBSET Int]

(* The stories of a plan are numbered as they are drafted, and what was       *)
(* appended to an id is less than the number of its plan: the id a story is   *)
(* given is free.                                                            *)
BoardTypes ==
  /\ column \in [Ids -> Flow!Columns]
  /\ deps \in [Ids -> SUBSET Ids]
  /\ drafted \in Seq(Seq(Drafts)) /\ Len(drafted) <= MaxPlans
  /\ origin \in [Ids -> Nat]
  /\ linked \subseteq Ids
  /\ created \in Seq(Ids)
  /\ spec \in Specs

Numbered ==
  /\ \A s \in OnBoard : s.suffix < origin[s] /\ origin[s] <= Len(drafted)
  /\ step \in {"draft", "link"} =>
       /\ Len(drafted) >= 1 /\ Len(Plan) <= MaxDrafts
       /\ spec # <<>> => Plan = FromSpec(spec)
       /\ Len(created) <= Len(Plan)
       /\ \A k \in DOMAIN created : /\ created[k] \in OnBoard /\ created[k].pos = k - 1
                                    /\ origin[created[k]] = Len(drafted)
       /\ \A s \in OnBoard : origin[s] = Len(drafted) => s.pos < Len(created)
  /\ step = "link" => Len(created) = Len(Plan)
  /\ OneBacklogAtATime

(* A linked story depends on all that the spec names, and on nothing else.    *)
Linked(s) ==
  /\ s \in OnBoard
  /\ \A d \in deps[s] : d \in OnBoard /\ origin[d] = origin[s]
  /\ spec # <<>> =>
       /\ s.pos + 1 \in DOMAIN spec
       /\ \A d \in deps[s] : d # s /\ d.pos + 1 \in spec[s.pos + 1].deps
       /\ \A p \in spec[s.pos + 1].deps \cap (1 .. Len(spec)) :
            p = s.pos + 1 \/ \E d \in deps[s] : d.pos = p - 1

AllLinked == \A s \in linked : Linked(s)

CampaignInv == FolderInv /\ BoardTypes /\ Numbered /\ AllLinked

-----------------------------------------------------------------------------
(* Plans and ids *)

LEMMA PlanTypes ==
  ASSUME NEW plan
  PROVE  /\ plan \in Specs => plan \in Seq(Declared) /\ Len(plan) <= MaxDrafts
         /\ plan \in Answers => plan \in Seq(Drafts) /\ Len(plan) <= MaxDrafts
BY CampaignAssumption DEF Drafts, Declared

LEMMA SpecPlan ==
  ASSUME NEW s \in Specs
  PROVE  /\ FromSpec(s) \in Seq(Drafts) /\ Len(FromSpec(s)) = Len(s)
         /\ Len(FromSpec(s)) <= MaxDrafts
         /\ \A i \in DOMAIN s : FromSpec(s)[i].deps =
              {d - 1 : d \in {e \in s[i].deps : e \in 1 .. Len(s) /\ e # i}}
         /\ \A i \in DOMAIN s : FromSpec(s)[i].names = {}
<1>1. s \in Seq(Declared) /\ Len(s) <= MaxDrafts /\ Len(s) \in Nat /\ DOMAIN s = 1 .. Len(s)
  BY PlanTypes
<1>2. \A i \in DOMAIN s : s[i] \in Declared
  BY <1>1
<1> DEFINE Row(i) == [title |-> s[i].title, names |-> {},
                      deps |-> {d - 1 : d \in {e \in s[i].deps : e \in 1 .. Len(s) /\ e # i}}]
<1>3. \A i \in DOMAIN s : Row(i) \in Drafts
  <2> SUFFICES ASSUME NEW i \in DOMAIN s PROVE Row(i) \in Drafts
    OBVIOUS
  <2>1. s[i].title \in Titles /\ s[i].deps \subseteq Int
    BY <1>2 DEF Declared
  <2>2. {d - 1 : d \in {e \in s[i].deps : e \in 1 .. Len(s) /\ e # i}} \subseteq Int
    BY <1>1, <2>1
  <2> QED
    BY <2>1, <2>2 DEF Drafts
<1>4. FromSpec(s) = [i \in 1 .. Len(s) |-> Row(i)]
  BY <1>1 DEF FromSpec
<1>5. FromSpec(s) \in Seq(Drafts) /\ Len(FromSpec(s)) = Len(s)
  <2> HIDE DEF Row
  <2> QED
    BY <1>1, <1>3, <1>4
<1>6. \A i \in DOMAIN s :
        /\ FromSpec(s)[i].deps = {d - 1 : d \in {e \in s[i].deps : e \in 1 .. Len(s) /\ e # i}}
        /\ FromSpec(s)[i].names = {}
  BY <1>1, <1>4
<1> QED
  BY <1>1, <1>5, <1>6

(* The id for the next draft is no story's, and keeps the numbering. *)
LEMMA FreshIdIsFree ==
  ASSUME BoardTypes, Numbered, step = "draft", Len(created) < Len(Plan)
  PROVE  LET s == FreshId(Plan[Len(created) + 1])
         IN s \in Ids /\ s \notin OnBoard /\ s.pos = Len(created) /\ s.suffix < Len(drafted)
<1> DEFINE draft == Plan[Len(created) + 1]
<1> DEFINE taken == {s \in OnBoard : s.pos = Len(created) /\ s.title = draft.title}
<1> DEFINE open == {n \in 0 .. MaxPlans - 1 : \A s \in taken : s.suffix # n}
<1>n. MaxPlans \in Nat /\ MaxDrafts \in Nat
  BY CampaignAssumption
<1>1. Len(drafted) \in Nat /\ Len(drafted) >= 1 /\ Len(drafted) <= MaxPlans
      /\ Len(created) \in Nat /\ Plan \in Seq(Drafts) /\ Len(Plan) <= MaxDrafts
  BY DEF BoardTypes, Numbered, Plan
<1>2. draft.title \in Titles
  <2>1. draft \in Drafts
    BY <1>1
  <2> QED
    BY <2>1 DEF Drafts
<1>3. \A s \in taken : /\ s.suffix \in Nat /\ s.suffix < origin[s] /\ origin[s] \in Nat
                       /\ origin[s] <= Len(drafted) /\ origin[s] # Len(drafted)
  <2> SUFFICES ASSUME NEW s \in taken
               PROVE  /\ s.suffix \in Nat /\ s.suffix < origin[s] /\ origin[s] \in Nat
                      /\ origin[s] <= Len(drafted) /\ origin[s] # Len(drafted)
    OBVIOUS
  <2>1. s \in Ids /\ s \in OnBoard /\ s.pos = Len(created)
    BY DEF OnBoard
  <2>2. s.suffix \in Nat
    BY <1>n, <2>1 DEF Ids
  <2>3. origin[s] \in Nat /\ s.suffix < origin[s] /\ origin[s] <= Len(drafted)
    BY <2>1 DEF BoardTypes, Numbered
  <2>4. origin[s] = Len(drafted) => s.pos < Len(created)
    BY <2>1 DEF Numbered
  <2> QED
    BY <1>1, <2>1, <2>2, <2>3, <2>4
<1>4. \A s \in taken : s.suffix < Len(drafted) - 1
  BY <1>1, <1>3
<1>5. Len(drafted) - 1 \in open
  <2>1. Len(drafted) - 1 \in 0 .. MaxPlans - 1
    BY <1>1, <1>n
  <2>2. \A s \in taken : s.suffix # Len(drafted) - 1
    <3> HIDE DEF taken
    <3> QED
      BY <1>1, <1>3, <1>4
  <2> QED
    BY <2>1, <2>2
<1>6. open \in SUBSET Nat /\ open # {}
  <2>1. 0 .. MaxPlans - 1 \subseteq Nat
    BY <1>n
  <2> HIDE DEF taken
  <2> QED
    BY <1>5, <2>1
<1> DEFINE m == Min(open)
<1>7. m \in open /\ \A y \in open : m <= y
  <2> HIDE DEF open
  <2> QED
    BY <1>6, MinIsLeast
<1> DEFINE s == [pos |-> Len(created), title |-> draft.title, suffix |-> m]
<1>8. FreshId(draft) = s
  BY DEF FreshId
<1> HIDE DEF m
<1>9. m \in 0 .. MaxPlans - 1 /\ m < Len(drafted) /\ \A t \in taken : t.suffix # m
  <2>1. m \in 0 .. MaxPlans - 1 /\ \A t \in taken : t.suffix # m
    BY <1>7
  <2>2. m <= Len(drafted) - 1
    BY <1>5, <1>7
  <2> HIDE DEF taken, open
  <2> QED
    BY <1>1, <1>n, <2>1, <2>2
<1>10. Len(created) \in 0 .. MaxDrafts - 1
  BY <1>1, <1>n
<1>11. s \in Ids /\ s.pos = Len(created) /\ s.suffix = m
  BY <1>2, <1>9, <1>10 DEF Ids
<1>12. s \notin OnBoard
  <2> SUFFICES ASSUME s \in OnBoard PROVE FALSE
    OBVIOUS
  <2>1. s \in taken
    OBVIOUS
  <2> QED
    BY <1>9, <1>11, <2>1
<1> QED
  BY <1>8, <1>9, <1>11, <1>12 DEF draft

LEMMA InitInv == Init => CampaignInv
<1> SUFFICES ASSUME Init PROVE CampaignInv
  OBVIOUS
<1>1. OnBoard = {} /\ linked = {}
  BY DEF Init, BacklogInit, OnBoard
<1>2. FolderInv
  BY <1>1 DEF Init, FolderInit, FolderInv, FolderTypeOK, Empty, Steps
<1>3. BoardTypes
  <2>1. /\ column \in [Ids -> Flow!Columns] /\ deps \in [Ids -> SUBSET Ids]
        /\ origin \in [Ids -> Nat]
    BY DEF Init, BacklogInit, Flow!Columns
  <2>2. drafted = <<>> /\ created = <<>> /\ spec \in Specs
    BY DEF Init, BacklogInit
  <2> QED
    BY <1>1, <2>1, <2>2, CampaignAssumption DEF BoardTypes
<1>4. Numbered
  BY <1>1 DEF Init, Numbered, OneBacklogAtATime
<1> QED
  BY <1>1, <1>2, <1>3, <1>4 DEF CampaignInv, AllLinked

-----------------------------------------------------------------------------
(* The folder *)

(* The team's work moves stories, and takes none off the board. *)
LEMMA MoveKeepsBoard ==
  ASSUME BoardTypes, NEW s \in Ids, Forward(s) \/ Back(s)
  PROVE  /\ column' \in [Ids -> Flow!Columns] /\ OnBoard' = OnBoard
         /\ UNCHANGED <<deps, drafted, origin, linked, created>>
         /\ \A t \in Ids : column[t] = "ready" /\ column'[t] = "in_progress" =>
              t = s /\ Flow!Claim(s)
<1>1. PICK from \in SUBSET (Flow!Columns \ {"absent"}), to \in Flow!Columns \ {"absent"} :
        Flow!MoveTo(s, from, to) /\ (to = "in_progress" => Flow!Claim(s))
  BY DEF Forward, Back, Flow!Refine, Flow!Vote, Flow!Claim, Flow!Commit, Flow!Merge, Flow!Accept,
         Flow!Block, Flow!Retry, Flow!Resume, Flow!Columns
<1>2. /\ column[s] \in from /\ column[s] # "absent"
      /\ column' = [column EXCEPT ![s] = to]
      /\ UNCHANGED <<deps, drafted, origin, linked, created>>
  BY <1>1 DEF Flow!MoveTo, Forward, Back, OthersStay
<1>3. \A t \in Ids : column'[t] = IF t = s THEN to ELSE column[t]
  BY <1>2 DEF BoardTypes
<1>4. column' \in [Ids -> Flow!Columns]
  BY <1>1, <1>2 DEF BoardTypes
<1>5. OnBoard' = OnBoard
  BY <1>1, <1>2, <1>3 DEF OnBoard
<1>6. \A t \in Ids : column[t] = "ready" /\ column'[t] = "in_progress" => t = s /\ Flow!Claim(s)
  <2> SUFFICES ASSUME NEW t \in Ids, column[t] = "ready", column'[t] = "in_progress"
               PROVE  t = s /\ Flow!Claim(s)
    OBVIOUS
  <2>1. t = s /\ to = "in_progress"
    BY <1>3
  <2> QED
    BY <1>1, <2>1
<1> QED
  BY <1>2, <1>4, <1>5, <1>6

LEMMA FolderStep ==
  ASSUME FolderInv, BoardTypes, [Next]_vars
  PROVE  FolderInv'
<1>1. ASSUME NEW anew \in BOOLEAN, Start(anew) PROVE FolderInv'
  BY <1>1 DEF Start, folderVars, backlogVars, FolderInv, FolderTypeOK, Empty, OnBoard, Steps
<1>2. CASE Reset
  BY <1>2 DEF Reset, folderVars, backlogVars, FolderInv, FolderTypeOK, Empty, OnBoard, Steps
<1>3. CASE Create
  <2>0. step = "create" /\ fresh' = fresh /\ OnBoard' = OnBoard
    BY <1>3 DEF Create, backlogVars, OnBoard
  <2>1. CASE AddIntegration /\ step' = "manifest"
    BY <2>0, <2>1 DEF AddIntegration, FolderInv, FolderTypeOK, Empty, Steps
  <2>2. CASE step' = "idle" /\ UNCHANGED folderVars
    BY <2>0, <2>2 DEF folderVars, FolderInv, FolderTypeOK, Empty, Steps
  <2> QED
    BY <1>3, <2>1, <2>2 DEF Create
<1>4. CASE Register
  <2>0. step = "manifest" /\ fresh' = fresh
    BY <1>4 DEF Register
  <2>1. CASE WriteManifest /\ step' = "agents"
    BY <2>0, <2>1 DEF WriteManifest, FolderInv, FolderTypeOK, Steps
  <2>2. CASE GitFails /\ step' = "idle"
    BY <2>0, <2>2 DEF GitFails, FolderInv, FolderTypeOK, Steps
  <2> QED
    BY <1>4, <2>1, <2>2 DEF Register
<1>5. CASE Equip
  <2>1. CASE UNCHANGED folderVars
    BY <1>5, <2>1 DEF Equip, folderVars, backlogVars, FolderInv, FolderTypeOK, Empty, OnBoard, Steps
  <2>2. CASE (\E a \in Agents : AddAgent(a)) /\ UNCHANGED step
    BY <1>5, <2>2 DEF Equip, AddAgent, backlogVars, FolderInv, FolderTypeOK, Steps
  <2> QED
    BY <1>5, <2>1, <2>2 DEF Equip
<1>6. ASSUME Seed \/ Draft \/ Link PROVE FolderInv'
  <2>1. /\ step \in {"seed", "draft", "link"} /\ step' \in {"draft", "link", "run"}
        /\ UNCHANGED <<folderVars, fresh>>
    BY <1>6 DEF Seed, Draft, Link, DecompositionFails, BeginPlan
  <2> QED
    BY <2>1 DEF folderVars, FolderInv, FolderTypeOK, Steps
<1>7. ASSUME NEW s \in Ids, Progress(s) \/ Setback(s) PROVE FolderInv'
  <2>1. step = "run" /\ step' = "run" /\ UNCHANGED <<folderVars, fresh>>
    BY <1>7 DEF Progress, Setback, commandVars
  <2> QED
    BY <2>1 DEF folderVars, FolderInv, FolderTypeOK, Steps
<1>8. CASE Wipe
  <2>1. step = "wipe" /\ step' \in {"wipe", "folder"} /\ fresh' = fresh
    BY <1>8 DEF Wipe
  <2>2. CASE (\E a \in agentTrees : RemoveAgent(a)) /\ UNCHANGED step
    <3>1. PICK a \in agentTrees : RemoveAgent(a) /\ UNCHANGED step
      BY <2>2
    <3>2. agentTrees' \subseteq Agents /\ agentBranches' \subseteq Agents
          /\ UNCHANGED <<manifest, branch, tree, cut>>
      BY <3>1 DEF RemoveAgent, FolderInv, FolderTypeOK
    <3>3. agentTrees = agentBranches => agentTrees' = agentBranches'
      BY <3>1 DEF RemoveAgent
    <3> QED
      BY <2>1, <3>1, <3>2, <3>3 DEF FolderInv, FolderTypeOK
  <2>3. CASE tree /\ RemoveTree /\ UNCHANGED step
    BY <2>1, <2>3 DEF RemoveTree, FolderInv, FolderTypeOK
  <2>4. CASE (agentTrees = {} \/ cut) /\ ~tree /\ DeleteBranch /\ step' = "folder"
    BY <2>1, <2>4 DEF DeleteBranch, FolderInv, FolderTypeOK, Empty, Steps
  <2>5. CASE CutShort /\ UNCHANGED step
    <3>1. agentTrees' \subseteq Agents /\ cut' = TRUE
          /\ UNCHANGED <<manifest, branch, tree, agentBranches>>
      BY <2>5 DEF CutShort, FolderInv, FolderTypeOK
    <3> QED
      BY <2>1, <3>1 DEF FolderInv, FolderTypeOK, Steps
  <2>6. CASE GitFails /\ step' = "folder"
    BY <2>1, <2>6 DEF GitFails, FolderInv, FolderTypeOK, Steps
  <2> QED
    BY <1>8, <2>2, <2>3, <2>4, <2>5, <2>6 DEF Wipe
<1>9. CASE Delete
  <2>0. step = "folder" /\ fresh' \in BOOLEAN
    BY <1>9 DEF Delete
  <2>1. CASE RemoveManifest /\ UNCHANGED step
    BY <2>0, <2>1 DEF RemoveManifest, FolderInv, FolderTypeOK, Empty
  <2>2. CASE RemoveBoard /\ UNCHANGED <<folderVars, step>>
    BY <2>0, <2>2 DEF folderVars, FolderInv, FolderTypeOK, Empty
  <2>4. CASE RemoveTreesLeft /\ UNCHANGED step
    BY <2>0, <2>4 DEF RemoveTreesLeft, FolderInv, FolderTypeOK, Empty
  <2>3. CASE /\ ~manifest /\ OnBoard = {} /\ step' = IF fresh THEN "create" ELSE "idle"
             /\ UNCHANGED <<folderVars, backlogVars>>
    <3>1. OnBoard' = {}
      BY <2>3 DEF backlogVars, OnBoard
    <3> QED
      BY <2>0, <2>3, <3>1 DEF folderVars, FolderInv, FolderTypeOK, Empty, Steps
  <2> QED
    BY <1>9, <2>1, <2>2, <2>3, <2>4 DEF Delete
<1>10. CASE Stop
  <2>0. step' = "idle" /\ fresh' = FALSE /\ step \in Steps
    BY <1>10 DEF Stop, FolderInv
  <2>1. CASE CutShort
    <3>1. agentTrees' \subseteq Agents /\ cut' = TRUE
          /\ UNCHANGED <<manifest, branch, tree, agentBranches>>
      BY <2>1 DEF CutShort, FolderInv, FolderTypeOK
    <3> QED
      BY <2>0, <3>1 DEF FolderInv, FolderTypeOK, Steps
  <2>2. CASE step \notin {"manifest", "wipe", "folder"} /\ UNCHANGED folderVars
    <3>1. OnBoard' = OnBoard
      BY <1>10 DEF Stop, EndPlan, OnBoard
    <3> QED
      BY <2>0, <2>2, <3>1 DEF folderVars, FolderInv, FolderTypeOK, Empty, Steps
  <2> QED
    BY <1>10, <2>1, <2>2 DEF Stop
<1>11. ASSUME Ship \/ UNCHANGED vars PROVE FolderInv'
  <2>1. UNCHANGED <<folderVars, backlogVars, commandVars>>
    BY <1>11 DEF Ship, vars
  <2> QED
    BY <2>1 DEF folderVars, backlogVars, commandVars, FolderInv, FolderTypeOK, Empty, OnBoard
<1> QED
  BY <1>1, <1>2, <1>3, <1>4, <1>5, <1>6, <1>7, <1>8, <1>9, <1>10, <1>11 DEF Next, Command

-----------------------------------------------------------------------------
(* The backlog *)

(* Outside of a decomposition only the stories' own numbering matters. *)
LEMMA AtRest ==
  ASSUME Numbered, step' \notin {"draft", "link"},
         OnBoard' = OnBoard, UNCHANGED <<origin, drafted>>
  PROVE  Numbered'
BY DEF Numbered, OneBacklogAtATime

LEMMA SameLinks ==
  ASSUME AllLinked, OnBoard' = OnBoard, UNCHANGED <<deps, origin, linked, spec>>
  PROVE  AllLinked'
BY DEF AllLinked, Linked

(* What leaves the board and its numbering alone. *)
LEMMA QuietStep ==
  ASSUME CampaignInv, OnBoard' = OnBoard, column' \in [Ids -> Flow!Columns],
         UNCHANGED <<deps, origin, linked, spec, drafted>>,
         created' \in Seq(Ids), step' \notin {"draft", "link"}
  PROVE  BoardTypes' /\ Numbered' /\ AllLinked'
<1>1. BoardTypes'
  BY DEF CampaignInv, BoardTypes
<1> QED
  BY <1>1, AtRest, SameLinks DEF CampaignInv

LEMMA SeedStep ==
  ASSUME CampaignInv, Seed
  PROVE  BoardTypes' /\ Numbered' /\ AllLinked'
<1>1. CASE UNCHANGED backlogVars /\ step' = "run"
  <2>1. OnBoard' = OnBoard /\ spec' = spec
    BY <1>1 DEF Seed, Elsewhere, backlogVars, OnBoard
  <2> QED
    BY <1>1, <2>1, QuietStep DEF backlogVars, CampaignInv, BoardTypes
<1>2. CASE DecompositionFails
  <2>1. OnBoard' = OnBoard /\ spec' = spec /\ column' = column /\ created' \in Seq(Ids)
        /\ step' = "run"
    BY <1>2 DEF Seed, Elsewhere, DecompositionFails, EndPlan, OnBoard
  <2> QED
    BY <1>2, <2>1, QuietStep DEF DecompositionFails, EndPlan, CampaignInv, BoardTypes
<1>3. ASSUME Unfinished = {}, Len(drafted) < MaxPlans, step' = "draft",
             NEW plan, BeginPlan(plan), plan \in Seq(Drafts), Len(plan) <= MaxDrafts,
             spec # <<>> => plan = FromSpec(spec)
      PROVE  BoardTypes' /\ Numbered' /\ AllLinked'
  <2>1. /\ drafted' = Append(drafted, plan) /\ created' = <<>> /\ spec' = spec
        /\ UNCHANGED <<column, deps, origin, linked>> /\ OnBoard' = OnBoard
    BY <1>3 DEF Seed, Elsewhere, BeginPlan, OnBoard
  <2>2. /\ drafted' \in Seq(Seq(Drafts)) /\ Len(drafted') = Len(drafted) + 1
        /\ drafted'[Len(drafted')] = plan /\ Len(drafted) \in Nat
    BY <1>3, <2>1 DEF CampaignInv, BoardTypes
  <2>3. Len(drafted') <= MaxPlans
    BY <1>3, <2>2, CampaignAssumption
  <2>4. BoardTypes'
    BY <2>1, <2>2, <2>3 DEF CampaignInv, BoardTypes
  <2>5. \A s \in OnBoard : origin[s] \in Nat /\ s.suffix < origin[s] /\ origin[s] <= Len(drafted)
    BY DEF CampaignInv, BoardTypes, Numbered, OnBoard
  <2>6. \A s \in OnBoard : /\ s.suffix < origin[s]
                           /\ origin[s] <= Len(drafted') /\ origin[s] # Len(drafted')
    BY <2>2, <2>5
  <2>7. Plan' = plan
    BY <2>2 DEF Plan
  <2>8. OneBacklogAtATime'
    <3>1. \A s \in OnBoard : column[s] \in {"done", "blocked", "review", "pending_acceptance"}
      BY <1>3 DEF CampaignInv, BoardTypes, Unfinished, In, OnBoard, Flow!Columns
    <3> QED
      BY <2>1, <3>1 DEF OneBacklogAtATime, In, OnBoard
  <2>9. Numbered'
    <3>1. Len(created') = 0 /\ DOMAIN created' = {} /\ Len(plan) \in Nat /\ Len(drafted') >= 1
      BY <1>3, <2>1, <2>2
    <3> QED
      BY <1>3, <2>1, <2>6, <2>7, <2>8, <3>1 DEF Numbered
  <2>10. AllLinked'
    BY <2>1, SameLinks DEF CampaignInv
  <2> QED
    BY <2>4, <2>9, <2>10
<1>4. CASE /\ Unfinished = {} /\ Len(drafted) < MaxPlans /\ step' = "draft"
           /\ IF spec # <<>> THEN BeginPlan(FromSpec(spec))
              ELSE \E plan \in Answers : BeginPlan(plan)
  <2>1. CASE spec # <<>>
    <3>1. FromSpec(spec) \in Seq(Drafts) /\ Len(FromSpec(spec)) <= MaxDrafts
      BY SpecPlan DEF CampaignInv, BoardTypes
    <3> QED
      BY <1>3, <1>4, <2>1, <3>1
  <2>2. CASE spec = <<>>
    <3>1. PICK plan \in Answers : BeginPlan(plan)
      BY <1>4, <2>2
    <3>2. plan \in Seq(Drafts) /\ Len(plan) <= MaxDrafts
      BY PlanTypes
    <3> QED
      BY <1>3, <1>4, <2>2, <3>1, <3>2
  <2> QED
    BY <2>1, <2>2
<1> QED
  BY <1>1, <1>2, <1>4 DEF Seed

LEMMA DraftStep ==
  ASSUME CampaignInv, Draft
  PROVE  BoardTypes' /\ Numbered' /\ AllLinked'
<1>0. step = "draft" /\ spec' = spec /\ spec \in Specs
  BY DEF Draft, Elsewhere, CampaignInv, BoardTypes
<1>t. /\ Len(created) \in Nat /\ Len(drafted) \in Nat /\ created \in Seq(Ids)
      /\ Len(created) <= Len(Plan) /\ Len(Plan) \in Nat
  <2>1. drafted \in Seq(Seq(Drafts)) /\ Len(drafted) >= 1
    BY <1>0 DEF CampaignInv, BoardTypes, Numbered
  <2>2. Plan \in Seq(Drafts)
    BY <2>1 DEF Plan
  <2> QED
    BY <1>0, <2>1, <2>2 DEF CampaignInv, BoardTypes, Numbered
<1>1. CASE DraftNext /\ UNCHANGED step
  <2> DEFINE s == FreshId(Plan[Len(created) + 1])
  <2>1. Len(created) < Len(Plan)
    BY <1>1 DEF DraftNext, MoreToDraft
  <2>2. s \in Ids /\ s \notin OnBoard /\ s.pos = Len(created) /\ s.suffix < Len(drafted)
    BY <1>0, <2>1, FreshIdIsFree DEF CampaignInv
  <2>3. /\ column' = [column EXCEPT ![s] = "draft"]
        /\ origin' = [origin EXCEPT ![s] = Len(drafted)]
        /\ created' = Append(created, s)
        /\ UNCHANGED <<deps, drafted, linked>>
    BY <1>1 DEF DraftNext
  <2> HIDE DEF s
  <2>4. /\ column' \in [Ids -> Flow!Columns] /\ origin' \in [Ids -> Nat]
        /\ \A t \in Ids : column'[t] = IF t = s THEN "draft" ELSE column[t]
        /\ \A t \in Ids : origin'[t] = IF t = s THEN Len(drafted) ELSE origin[t]
    BY <1>t, <2>2, <2>3 DEF CampaignInv, BoardTypes, Flow!Columns
  <2>5. /\ created' \in Seq(Ids) /\ Len(created') = Len(created) + 1
        /\ DOMAIN created' = 1 .. Len(created) + 1
        /\ created'[Len(created) + 1] = s
        /\ \A k \in 1 .. Len(created) : created'[k] = created[k]
    BY <1>t, <2>2, <2>3
  <2>6. OnBoard' = OnBoard \cup {s} /\ OnBoard \subseteq Ids
    BY <2>2, <2>4 DEF OnBoard
  <2>7. BoardTypes'
    BY <1>0, <2>3, <2>4, <2>5 DEF CampaignInv, BoardTypes
  <2>8. Plan' = Plan
    BY <2>3 DEF Plan
  <2>9. \A t \in OnBoard : origin'[t] = origin[t] /\ column'[t] = column[t] /\ t # s
    BY <2>2, <2>4, <2>6
  <2>10. \A t \in OnBoard' : t.suffix < origin'[t] /\ origin'[t] <= Len(drafted)
    BY <1>t, <2>2, <2>4, <2>6, <2>9 DEF CampaignInv, Numbered
  <2>11. \A k \in DOMAIN created' : /\ created'[k] \in OnBoard' /\ created'[k].pos = k - 1
                                    /\ origin'[created'[k]] = Len(drafted)
    <3> SUFFICES ASSUME NEW k \in 1 .. Len(created) + 1
                 PROVE  /\ created'[k] \in OnBoard' /\ created'[k].pos = k - 1
                        /\ origin'[created'[k]] = Len(drafted)
      BY <2>5
    <3>1. CASE k = Len(created) + 1
      BY <1>t, <2>2, <2>4, <2>5, <2>6, <3>1
    <3>2. CASE k # Len(created) + 1
      <4>1. k \in 1 .. Len(created) /\ k \in DOMAIN created
        BY <1>t, <3>2
      <4>2. /\ created[k] \in OnBoard /\ created[k].pos = k - 1
            /\ origin[created[k]] = Len(drafted)
        BY <1>0, <4>1 DEF CampaignInv, Numbered
      <4> QED
        BY <2>5, <2>6, <2>9, <4>1, <4>2
    <3> QED
      BY <3>1, <3>2
  <2>12. \A t \in OnBoard' : origin'[t] = Len(drafted) => t.pos < Len(created')
    <3>1. \A t \in OnBoard : origin[t] = Len(drafted) => t.pos < Len(created)
      BY <1>0 DEF CampaignInv, Numbered
    <3>2. \A t \in OnBoard : t.pos \in Int
      BY <2>6, CampaignAssumption DEF Ids
    <3> QED
      BY <1>t, <2>2, <2>5, <2>6, <2>9, <3>1, <3>2
  <2>13. OneBacklogAtATime'
    <3>1. \A t \in OnBoard : column[t] \in {"done", "blocked", "review", "pending_acceptance"} \/ origin[t] = Len(drafted)
      BY <1>0, <2>6 DEF CampaignInv, Numbered, OneBacklogAtATime, In
    <3>2. \A t \in OnBoard' : column'[t] \in {"done", "blocked", "review", "pending_acceptance"} \/ origin'[t] = Len(drafted)
      BY <2>2, <2>4, <2>6, <2>9, <3>1
    <3> QED
      BY <2>3, <2>6, <3>2 DEF OneBacklogAtATime, In, OnBoard
  <2>14. Numbered'
    <3>1. Len(drafted) >= 1 /\ Len(Plan) <= MaxDrafts /\ (spec # <<>> => Plan = FromSpec(spec))
      BY <1>0 DEF CampaignInv, Numbered
    <3>2. Len(created') <= Len(Plan)
      BY <1>t, <2>1, <2>5
    <3> QED
      BY <1>0, <1>1, <2>3, <2>8, <2>10, <2>11, <2>12, <2>13, <3>1, <3>2 DEF Numbered
  <2>15. AllLinked'
    <3> SUFFICES ASSUME NEW t \in linked PROVE Linked(t)'
      BY <2>3 DEF AllLinked
    <3>1. Linked(t)
      BY DEF CampaignInv, AllLinked
    <3>2. t \in OnBoard /\ \A d \in deps[t] : d \in OnBoard
      BY <3>1 DEF Linked
    <3> QED
      BY <1>0, <2>3, <2>6, <2>9, <3>1, <3>2 DEF Linked
  <2> QED
    BY <2>7, <2>14, <2>15
<1>2. CASE ~MoreToDraft /\ step' = "link" /\ UNCHANGED backlogVars
  <2>1. Len(created) = Len(Plan)
    BY <1>t, <1>2 DEF MoreToDraft
  <2>2. /\ UNCHANGED <<column, deps, drafted, origin, linked, created>>
        /\ OnBoard' = OnBoard /\ Plan' = Plan
    BY <1>2 DEF backlogVars, OnBoard, Plan
  <2>3. BoardTypes' /\ AllLinked'
    BY <1>0, <2>2, SameLinks DEF CampaignInv, BoardTypes
  <2>4. OneBacklogAtATime'
    BY <1>0, <2>2 DEF CampaignInv, Numbered, OneBacklogAtATime, In, OnBoard
  <2>5. Numbered'
    BY <1>0, <1>2, <2>1, <2>2, <2>4 DEF CampaignInv, Numbered
  <2> QED
    BY <2>3, <2>5
<1>3. CASE DecompositionFails
  <2>1. OnBoard' = OnBoard /\ column' = column /\ created' \in Seq(Ids) /\ step' = "run"
    BY <1>3 DEF DecompositionFails, EndPlan, OnBoard
  <2> QED
    BY <1>0, <1>3, <2>1, QuietStep DEF DecompositionFails, EndPlan, CampaignInv, BoardTypes
<1> QED
  BY <1>1, <1>2, <1>3 DEF Draft

(* The second pass gives the draft at i what its plan names. *)
LEMMA LinkedNow ==
  ASSUME CampaignInv, step = "link", NEW i \in DOMAIN created, LinkNext(i), spec' = spec
  PROVE  Linked(created[i])'
<1> DEFINE s == created[i]
<1>1. /\ Len(created) \in Nat /\ i \in 1 .. Len(created) /\ DOMAIN created = 1 .. Len(created)
      /\ Len(created) = Len(Plan) /\ i \in Int
  BY DEF CampaignInv, BoardTypes, Numbered
<1>2. \A k \in 1 .. Len(created) : /\ created[k] \in OnBoard /\ created[k].pos = k - 1
                                   /\ origin[created[k]] = Len(drafted)
  BY <1>1 DEF CampaignInv, Numbered
<1>3. /\ deps' = [deps EXCEPT ![s] = Resolved(i)] /\ UNCHANGED <<column, origin, created>>
      /\ OnBoard' = OnBoard
  BY DEF LinkNext, OnBoard
<1>4. s \in Ids /\ s \in OnBoard /\ s.pos = i - 1 /\ origin[s] = Len(drafted)
  BY <1>1, <1>2 DEF OnBoard
<1>5. deps'[s] = Resolved(i)
  BY <1>3, <1>4 DEF CampaignInv, BoardTypes
<1>6. \A d \in Resolved(i) :
        \/ \E e \in Plan[i].deps : e \in 0 .. Len(created) - 1 /\ e # i - 1 /\ d = created[e + 1]
        \/ d \in Plan[i].names /\ \E k \in 1 .. Len(created) : d = created[k]
  BY <1>1 DEF Resolved
<1>7. \A e \in Plan[i].deps :
        e \in 0 .. Len(created) - 1 /\ e # i - 1 => created[e + 1] \in Resolved(i)
  BY DEF Resolved
<1>8. \A d \in Resolved(i) : /\ d \in OnBoard /\ origin[d] = origin[s]
                             /\ d \in Plan[i].names \/ (d # s /\ d.pos \in Plan[i].deps)
  <2> SUFFICES ASSUME NEW d \in Resolved(i)
               PROVE  /\ d \in OnBoard /\ origin[d] = origin[s]
                      /\ d \in Plan[i].names \/ (d # s /\ d.pos \in Plan[i].deps)
    OBVIOUS
  <2>1. CASE d \in Plan[i].names /\ \E k \in 1 .. Len(created) : d = created[k]
    BY <1>2, <1>4, <2>1
  <2>2. ASSUME NEW e \in Plan[i].deps, e \in 0 .. Len(created) - 1, e # i - 1, d = created[e + 1]
        PROVE  /\ d \in OnBoard /\ origin[d] = origin[s]
               /\ d # s /\ d.pos \in Plan[i].deps
    <3>1. e + 1 \in 1 .. Len(created) /\ (e + 1) - 1 = e
      BY <1>1, <2>2
    <3>2. d \in OnBoard /\ d.pos = e /\ origin[d] = Len(drafted)
      BY <1>2, <2>2, <3>1
    <3> QED
      BY <1>4, <2>2, <3>2
  <2> QED
    BY <1>6, <2>1, <2>2
<1>9. ASSUME spec # <<>>
      PROVE  /\ s.pos + 1 \in DOMAIN spec
             /\ \A d \in Resolved(i) : d # s /\ d.pos + 1 \in spec[s.pos + 1].deps
             /\ \A p \in spec[s.pos + 1].deps \cap (1 .. Len(spec)) :
                  p = s.pos + 1 \/ \E d \in Resolved(i) : d.pos = p - 1
  <2>1. Plan = FromSpec(spec) /\ spec \in Specs
    BY <1>9 DEF CampaignInv, BoardTypes, Numbered
  <2>2. spec \in Seq(Declared) /\ DOMAIN spec = 1 .. Len(spec) /\ Len(spec) = Len(Plan)
    BY <2>1, PlanTypes, SpecPlan
  <2>3. i \in DOMAIN spec /\ s.pos + 1 = i
    BY <1>1, <1>4, <2>2
  <2>4. /\ Plan[i].deps = {d - 1 : d \in {e \in spec[i].deps : e \in 1 .. Len(spec) /\ e # i}}
        /\ Plan[i].names = {}
    BY <2>1, <2>3, SpecPlan
  <2>5. \A d \in Resolved(i) : d # s /\ d.pos + 1 \in spec[i].deps
    <3> SUFFICES ASSUME NEW d \in Resolved(i) PROVE d # s /\ d.pos + 1 \in spec[i].deps
      OBVIOUS
    <3>0. d # s /\ d.pos \in Plan[i].deps
      BY <1>8, <2>4
    <3>1. PICK x \in spec[i].deps : x \in 1 .. Len(spec) /\ d.pos = x - 1
      BY <2>4, <3>0
    <3> QED
      BY <3>0, <3>1
  <2>6. ASSUME NEW p \in spec[i].deps, p \in 1 .. Len(spec), p # i
        PROVE  \E d \in Resolved(i) : d.pos = p - 1
    <3>1. p - 1 \in Plan[i].deps
      BY <2>4, <2>6
    <3>2. p - 1 \in 0 .. Len(created) - 1 /\ p - 1 # i - 1 /\ (p - 1) + 1 = p
          /\ p \in 1 .. Len(created)
      BY <1>1, <2>2, <2>6
    <3>3. created[p] \in Resolved(i)
      BY <1>7, <3>1, <3>2
    <3> QED
      BY <1>2, <3>2, <3>3
  <2> QED
    BY <2>3, <2>5, <2>6
<1> HIDE DEF s
<1>10. /\ s \in OnBoard /\ (\A d \in deps'[s] : d \in OnBoard /\ origin[d] = origin[s])
       /\ spec # <<>> =>
            /\ s.pos + 1 \in DOMAIN spec
            /\ \A d \in deps'[s] : d # s /\ d.pos + 1 \in spec[s.pos + 1].deps
            /\ \A p \in spec[s.pos + 1].deps \cap (1 .. Len(spec)) :
                 p = s.pos + 1 \/ \E d \in deps'[s] : d.pos = p - 1
  BY <1>4, <1>5, <1>8, <1>9
<1>11. Linked(s)'
  BY <1>3, <1>10 DEF Linked, s
<1> QED
  BY <1>11 DEF s

LEMMA LinkStep ==
  ASSUME CampaignInv, Link
  PROVE  BoardTypes' /\ Numbered' /\ AllLinked'
<1>0. step = "link" /\ spec' = spec
  BY DEF Link, Elsewhere
<1>1. ASSUME NEW i \in DOMAIN created, LinkNext(i), UNCHANGED step
      PROVE  BoardTypes' /\ Numbered' /\ AllLinked'
  <2>1. /\ created[i] \in Ids /\ created[i] \notin linked
        /\ deps' = [deps EXCEPT ![created[i]] = Resolved(i)]
        /\ linked' = linked \cup {created[i]}
        /\ UNCHANGED <<column, drafted, origin, created>>
        /\ OnBoard' = OnBoard /\ Plan' = Plan
    BY <1>1 DEF LinkNext, OnBoard, Plan, CampaignInv, BoardTypes
  <2>2. Resolved(i) \subseteq Ids
    <3>1. created \in Seq(Ids) /\ Len(created) \in Nat /\ DOMAIN created = 1 .. Len(created)
      BY DEF CampaignInv, BoardTypes
    <3>2. \A k \in DOMAIN created : created[k] \in Ids
      BY <3>1
    <3>3. \A e \in 0 .. Len(created) - 1 : e + 1 \in DOMAIN created
      BY <3>1
    <3> QED
      BY <3>2, <3>3 DEF Resolved
  <2>3. BoardTypes'
    BY <1>0, <2>1, <2>2 DEF CampaignInv, BoardTypes
  <2>4. OneBacklogAtATime'
    BY <1>0, <2>1 DEF CampaignInv, Numbered, OneBacklogAtATime, In
  <2>5. Numbered'
    BY <1>0, <1>1, <2>1, <2>4 DEF CampaignInv, Numbered
  <2>6. ASSUME NEW t \in linked PROVE Linked(t)'
    <3>1. Linked(t) /\ t # created[i] /\ t \in Ids
      BY <2>1 DEF CampaignInv, AllLinked, BoardTypes
    <3>2. deps'[t] = deps[t]
      BY <2>1, <3>1 DEF CampaignInv, BoardTypes
    <3> QED
      BY <1>0, <2>1, <3>1, <3>2 DEF Linked
  <2>7. Linked(created[i])'
    BY <1>0, <1>1, LinkedNow
  <2>8. AllLinked'
    <3> SUFFICES ASSUME NEW t \in linked' PROVE Linked(t)'
      BY DEF AllLinked
    <3>1. CASE t \in linked
      BY <2>6, <3>1
    <3>2. CASE t = created[i]
      BY <2>1, <2>7, <3>2 DEF Linked
    <3> QED
      BY <2>1, <3>1, <3>2
  <2> QED
    BY <2>3, <2>5, <2>8
<1>2. CASE step' = "run" /\ EndPlan
  <2>1. OnBoard' = OnBoard /\ column' = column /\ created' \in Seq(Ids)
    BY <1>2 DEF EndPlan, OnBoard
  <2> QED
    BY <1>0, <1>2, <2>1, QuietStep DEF EndPlan, CampaignInv, BoardTypes
<1> QED
  BY <1>1, <1>2 DEF Link, DecompositionFails

LEMMA WorkStep ==
  ASSUME CampaignInv, NEW s \in Ids, Progress(s) \/ Setback(s)
  PROVE  BoardTypes' /\ Numbered' /\ AllLinked'
<1>1. /\ Forward(s) \/ Back(s)
      /\ step' = "run" /\ spec' = spec
  BY DEF Progress, Setback, commandVars
<1>2. BoardTypes /\ created \in Seq(Ids)
  BY DEF CampaignInv, BoardTypes
<1> QED
  BY <1>1, <1>2, MoveKeepsBoard, QuietStep

LEMMA DeleteStep ==
  ASSUME CampaignInv, Delete
  PROVE  BoardTypes' /\ Numbered' /\ AllLinked'
<1>0. spec' = spec /\ step = "folder" /\ step' \in {"folder", "create", "idle"}
  BY DEF Delete, Elsewhere
<1>1. CASE RemoveBoard
  <2>1. OnBoard' = {} /\ linked' = {} /\ drafted' = <<>>
    BY <1>1 DEF RemoveBoard, OnBoard
  <2>2. BoardTypes'
    <3>1. /\ column' \in [Ids -> Flow!Columns] /\ deps' \in [Ids -> SUBSET Ids]
          /\ origin' \in [Ids -> Nat] /\ drafted' = <<>> /\ created' = <<>>
      BY <1>1 DEF RemoveBoard, Flow!Columns
    <3> QED
      BY <1>0, <2>1, <3>1, CampaignAssumption DEF BoardTypes, CampaignInv
  <2> QED
    BY <1>0, <2>1, <2>2 DEF Numbered, OneBacklogAtATime, AllLinked
<1>2. CASE UNCHANGED backlogVars
  <2>1. OnBoard' = OnBoard
    BY <1>2 DEF backlogVars, OnBoard
  <2> QED
    BY <1>0, <1>2, <2>1, QuietStep DEF backlogVars, CampaignInv, BoardTypes
<1> QED
  BY <1>1, <1>2 DEF Delete, RemoveManifest

LEMMA BoardStep ==
  ASSUME CampaignInv, [Next]_vars
  PROVE  BoardTypes' /\ Numbered' /\ AllLinked'
<1>1. ASSUME (\E anew \in BOOLEAN : Start(anew)) \/ Reset \/ Create \/ Register \/ Equip \/ Wipe
      PROVE  BoardTypes' /\ Numbered' /\ AllLinked'
  <2>1. /\ UNCHANGED backlogVars /\ spec' = spec
        /\ step' \in {"idle", "create", "manifest", "agents", "seed", "wipe", "folder"}
    BY <1>1 DEF Start, Reset, Create, Register, Equip, Wipe, Elsewhere
  <2>2. OnBoard' = OnBoard
    BY <2>1 DEF backlogVars, OnBoard
  <2> QED
    BY <2>1, <2>2, QuietStep DEF backlogVars, CampaignInv, BoardTypes
<1>2. CASE Stop
  <2>1. /\ OnBoard' = OnBoard /\ column' = column /\ created' \in Seq(Ids)
        /\ step' = "idle" /\ spec' = spec
        /\ UNCHANGED <<deps, origin, linked, drafted>>
    BY <1>2 DEF Stop, EndPlan, OnBoard, Elsewhere
  <2> QED
    BY <2>1, QuietStep DEF CampaignInv, BoardTypes
<1>3. ASSUME Ship \/ UNCHANGED vars PROVE BoardTypes' /\ Numbered' /\ AllLinked'
  <2>1. UNCHANGED <<column, deps, drafted, origin, linked, created, spec, step>>
    BY <1>3 DEF Ship, vars, backlogVars, commandVars
  <2>2. OnBoard' = OnBoard /\ Plan' = Plan
    BY <2>1 DEF OnBoard, Plan
  <2>3. BoardTypes' /\ AllLinked'
    BY <2>1, <2>2, SameLinks DEF CampaignInv, BoardTypes
  <2>4. OneBacklogAtATime'
    BY <2>1, <2>2 DEF CampaignInv, Numbered, OneBacklogAtATime, In
  <2>5. Numbered'
    BY <2>1, <2>2, <2>4 DEF CampaignInv, Numbered
  <2> QED
    BY <2>3, <2>5
<1> QED
  BY <1>1, <1>2, <1>3, SeedStep, DraftStep, LinkStep, WorkStep, DeleteStep DEF Next, Command

(* The invariant holds in every behaviour. *)
THEOREM CampaignInvariance == Spec => []CampaignInv
<1>1. CampaignInv /\ [Next]_vars => CampaignInv'
  BY FolderStep, BoardStep DEF CampaignInv
<1> QED
  BY InitInv, <1>1, PTL DEF Spec

-----------------------------------------------------------------------------
(* What follows *)

(* Between two commands, none of which was cut short, a team's folder has its *)
(* manifest, branch and worktrees all or has none of them and no story        *)
(* (team_workspace.py, create and reset).                                    *)
THEOREM FoldersAreWhole == Spec => []FolderIsWhole
<1>1. CampaignInv => FolderIsWhole
  BY DEF CampaignInv, FolderInv, FolderIsWhole, Empty
<1> QED
  BY CampaignInvariance, <1>1, PTL

(* A decomposition never drafts beside stories that wait or are worked on     *)
(* (cli.py:433).                                                              *)
THEOREM BacklogsDoNotMix == Spec => []OneBacklogAtATime
<1>1. CampaignInv => OneBacklogAtATime
  BY DEF CampaignInv, Numbered
<1> QED
  BY CampaignInvariance, <1>1, PTL

(* What a story depends on is of its own decomposition and on the board; what *)
(* a story of a spec depends on is named by the spec and not the story itself *)
(* (goal_decomposer.py:499-515).                                             *)
THEOREM DependenciesAreTheSpecs == Spec => []DependenciesAreNamed
<1>1. CampaignInv => DependenciesAreNamed
  BY DEF CampaignInv, AllLinked, Linked, DependenciesAreNamed
<1> QED
  BY CampaignInvariance, <1>1, PTL

(* A step claims a linked story only when all that the spec names is done. *)
LEMMA ClaimsAreInOrder ==
  ASSUME CampaignInv, [Next]_vars, NEW s \in linked, spec # <<>>,
         column[s] = "ready", column'[s] = "in_progress",
         NEW p \in spec[s.pos + 1].deps \cap (1 .. Len(spec)), p # s.pos + 1
  PROVE  \E d \in In({"done"}) : d.pos = p - 1 /\ origin[d] = origin[s]
<1>1. s \in Ids /\ BoardTypes /\ Linked(s)
  BY DEF CampaignInv, BoardTypes, AllLinked
<1>2. Flow!Claim(s)
  <2>1. CASE \E t \in Ids : Progress(t) \/ Setback(t)
    <3>1. PICK t \in Ids : Progress(t) \/ Setback(t)
      BY <2>1
    <3>2. Forward(t) \/ Back(t)
      BY <3>1 DEF Progress, Setback
    <3> QED
      BY <1>1, <3>2, MoveKeepsBoard
  <2>2. CASE Draft
    <3>1. CASE DraftNext
      <4> DEFINE n == FreshId(Plan[Len(created) + 1])
      <4>1. column' = [column EXCEPT ![n] = "draft"] /\ column \in [Ids -> Flow!Columns]
        BY <1>1, <3>1 DEF DraftNext, BoardTypes
      <4> HIDE DEF n
      <4>2. column'[s] \in {"draft", column[s]}
        BY <1>1, <4>1
      <4> QED
        BY <4>2
    <3>2. CASE column' = column
      BY <3>2
    <3> QED
      BY <2>2, <3>1, <3>2 DEF Draft, DecompositionFails, EndPlan, backlogVars
  <2>3. CASE Delete
    <3>1. column' = column \/ column'[s] = "absent"
      BY <1>1, <2>3 DEF Delete, RemoveManifest, RemoveBoard, backlogVars
    <3> QED
      BY <3>1
  <2>4. ASSUME \/ (\E anew \in BOOLEAN : Start(anew)) \/ Reset \/ Stop \/ Ship \/ UNCHANGED vars
               \/ Create \/ Register \/ Equip \/ Seed \/ Link \/ Wipe
        PROVE  FALSE
    <3>1. column' = column
      BY <2>4 DEF Start, Reset, Stop, Ship, vars, Create, Register, Equip, Seed, Link, Wipe,
                  backlogVars, EndPlan, DecompositionFails, BeginPlan, LinkNext
    <3> QED
      BY <3>1
  <2> QED
    BY <2>1, <2>2, <2>3, <2>4 DEF Next, Command
<1>3. PICK d \in deps[s] : d.pos = p - 1
  BY <1>1 DEF Linked
<1>4. column[d] = "done" /\ d \in Ids /\ origin[d] = origin[s]
  BY <1>1, <1>2, <1>3 DEF Flow!Claim, Linked, OnBoard
<1> QED
  BY <1>3, <1>4 DEF In

(* Work follows the order the spec declares, through every restart            *)
(* (spec_parser.py:187, goal_decomposer.py:499).                             *)
THEOREM WorkFollowsTheSpec == Spec => SpecOrderIsKept
<1>1. CampaignInv /\ [Next]_vars =>
        [\A s \in linked :
           spec # <<>> /\ column[s] = "ready" /\ column'[s] = "in_progress" =>
             \A p \in spec[s.pos + 1].deps \cap (1 .. Len(spec)) :
               p = s.pos + 1
               \/ \E d \in In({"done"}) : d.pos = p - 1 /\ origin[d] = origin[s]]_vars
  BY ClaimsAreInOrder
<1> QED
  BY CampaignInvariance, <1>1, PTL DEF Spec, SpecOrderIsKept

(* A step leaves the stories on the board what they are. *)
LEMMA StepKeepsStories ==
  ASSUME CampaignInv, [Next]_vars, NEW s \in OnBoard, step # "folder"
  PROVE  origin'[s] = origin[s] /\ (step = "draft" => column'[s] = column[s])
<1>1. s \in Ids /\ BoardTypes /\ Numbered
  BY DEF CampaignInv, OnBoard
<1>2. CASE \E t \in Ids : Progress(t) \/ Setback(t)
  <2>1. PICK t \in Ids : Progress(t) \/ Setback(t)
    BY <1>2
  <2>2. Forward(t) \/ Back(t)
    BY <2>1 DEF Progress, Setback
  <2>3. step = "run"
    BY <2>1 DEF Progress, Setback
  <2> QED
    BY <1>1, <2>2, <2>3, MoveKeepsBoard
<1>3. CASE Draft /\ DraftNext
  <2> DEFINE n == FreshId(Plan[Len(created) + 1])
  <2>1. n \in Ids /\ n \notin OnBoard
    <3>1. step = "draft" /\ Len(created) < Len(Plan)
      BY <1>3 DEF Draft, DraftNext, MoreToDraft
    <3> QED
      BY <1>1, <3>1, FreshIdIsFree
  <2>2. /\ column' = [column EXCEPT ![n] = "draft"] /\ origin' = [origin EXCEPT ![n] = Len(drafted)]
        /\ column \in [Ids -> Flow!Columns] /\ origin \in [Ids -> Nat]
    BY <1>1, <1>3 DEF DraftNext, BoardTypes
  <2> HIDE DEF n
  <2>3. column'[s] = column[s] /\ origin'[s] = origin[s]
    BY <1>1, <2>1, <2>2
  <2> QED
    BY <2>3
<1>4. ASSUME \/ (\E anew \in BOOLEAN : Start(anew)) \/ Reset \/ Stop \/ Ship \/ UNCHANGED vars
             \/ Create \/ Register \/ Equip \/ Seed \/ Link \/ Wipe \/ (Draft /\ ~DraftNext)
      PROVE  UNCHANGED <<column, origin>>
  BY <1>4 DEF Start, Reset, Stop, Ship, vars, Create, Register, Equip, Seed, Link, Wipe, Draft,
              backlogVars, EndPlan, DecompositionFails, BeginPlan, LinkNext
<1>5. ~Delete
  BY DEF Delete
<1> QED
  BY <1>2, <1>3, <1>4, <1>5 DEF Next, Command

(* No decomposition takes the id of a story on the board, or touches the      *)
(* story in any way (goal_decomposer.py:482-484).                             *)
THEOREM StoriesStay == Spec => StoriesAreKept
<1>1. CampaignInv /\ [Next]_vars =>
        [\A s \in OnBoard :
           step # "folder" =>
             origin'[s] = origin[s] /\ (step = "draft" => column'[s] = column[s])]_vars
  BY StepKeepsStories
<1> QED
  BY CampaignInvariance, <1>1, PTL DEF Spec, StoriesAreKept

-----------------------------------------------------------------------------
(* Types *)

(* What the tests of any built code may be counted as. *)
LEMMA VerdictTypes ==
  ASSUME NEW suite \in Suites, NEW v \in Results(suite)
  PROVE  v \in [verified : BOOLEAN, passed : Nat, failed : Nat]
<1>1. suite \in [installs : BOOLEAN, ends : BOOLEAN, passed : Nat, failed : Nat, unparsable : Nat]
  BY CampaignAssumption
<1>2. v = Result(suite) \/ v = FirstRun(suite)
  BY DEF Results
<1>3. suite.passed \in Nat /\ suite.failed \in Nat /\ suite.unparsable \in Nat
      /\ MaxIgnored \in Nat
  BY <1>1, CampaignAssumption
<1>4. Result(suite) \in [verified : BOOLEAN, passed : Nat, failed : Nat]
  <2>1. CASE ~suite.installs \/ ~suite.ends
    BY <2>1 DEF Result
  <2>2. CASE ~(~suite.installs \/ ~suite.ends)
    <3>1. suite.unparsable > MaxIgnored => suite.unparsable - MaxIgnored \in Nat
      BY <1>3
    <3> QED
      BY <1>3, <2>2, <3>1 DEF Result
  <2> QED
    BY <2>1, <2>2
<1>5. FirstRun(suite) \in [verified : BOOLEAN, passed : Nat, failed : Nat]
  BY <1>3 DEF FirstRun
<1> QED
  BY <1>2, <1>4, <1>5

(* A ship that has not begun. *)
LEMMA AtFirst ==
  /\ NoTerms \in [force : BOOLEAN, verify : BOOLEAN]
  /\ NoVerdict \in [verified : BOOLEAN, passed : Nat, failed : Nat]
<1>1. FALSE \in BOOLEAN /\ 0 \in Nat
  OBVIOUS
<1>2. NoTerms \in [force : BOOLEAN, verify : BOOLEAN]
  BY <1>1, Zenon DEF NoTerms
<1>3. NoVerdict \in [verified : BOOLEAN, passed : Nat, failed : Nat]
  BY <1>1, Zenon DEF NoVerdict
<1> QED
  BY <1>2, <1>3

(* No step of a ship, or of the team beside it, spoils the types. *)
LEMMA ShipStep ==
  ASSUME ShipTypeOK, turns \in 0 .. MaxTurns, [Next]_vars
  PROVE  ShipTypeOK' /\ turns' \in 0 .. MaxTurns
<1>1. MaxTurns \in Nat
  BY CampaignAssumption
<1>2. CASE \E s \in Ids : Progress(s) \/ Setback(s)
  <2>1. turns' \in 0 .. MaxTurns
    BY <1>1, <1>2 DEF Progress, Setback, commandVars
  <2>2. ShipTypeOK'
    BY <1>2 DEF Progress, Setback, Disturb, ShipTypeOK
  <2> QED
    BY <2>1, <2>2
<1>3. CASE Ship
  <2>1. turns' = turns
    BY <1>3 DEF Ship, commandVars
  <2>2. ASSUME NEW v \in IF tree THEN UNION {Results(suite) : suite \in Suites} ELSE {NoVerdict}
        PROVE  v \in [verified : BOOLEAN, passed : Nat, failed : Nat]
    <3>1. CASE tree
      BY <2>2, <3>1, VerdictTypes
    <3>2. CASE ~tree
      BY <2>2, <3>2, AtFirst
    <3> QED
      BY <3>1, <3>2
  <2>3. EndShip => ShipTypeOK'
    BY AtFirst DEF EndShip, ShipTypeOK
  <2>4. ASSUME NEW t \in [force : BOOLEAN, verify : BOOLEAN], BeginShip(spec, t)
        PROVE  ShipTypeOK'
    BY <2>4 DEF BeginShip, ShipTypeOK
  <2>5. Verify(tree) => ShipTypeOK'
    BY <2>2, <2>3 DEF Verify, ShipTypeOK
  <2>6. Push => ShipTypeOK'
    BY <2>3, AtFirst DEF Push, ShipTypeOK
  <2>7. PushFails \/ OpenPR => ShipTypeOK'
    BY <2>3 DEF PushFails, OpenPR
  <2> QED
    BY <1>3, <2>1, <2>4, <2>5, <2>6, <2>7 DEF Ship
<1>4. CASE UNCHANGED vars
  BY <1>4 DEF vars, shipVars, commandVars, ShipTypeOK
<1>5. ASSUME (\E anew \in BOOLEAN : Start(anew)) \/ Reset \/ Command \/ Stop
      PROVE  ShipTypeOK' /\ turns' \in 0 .. MaxTurns
  <2>1. turns' = turns
    BY <1>5 DEF Start, Reset, Command, Stop, Create, Register, Equip, Seed, Draft, Link, Wipe,
                Delete, Elsewhere
  <2>2. UNCHANGED shipVars \/ Disturb
    BY <1>5 DEF Start, Reset, Command, Stop, Create, Register, Equip, Seed, Draft, Link, Wipe,
                Delete
  <2> QED
    BY <2>1, <2>2 DEF shipVars, Disturb, ShipTypeOK
<1> QED
  BY <1>2, <1>3, <1>4, <1>5 DEF Next

(* Every variable keeps its type, whatever the bounds. *)
THEOREM TypeCorrect == Spec => []TypeOK
<1>1. Init => ShipTypeOK /\ turns \in 0 .. MaxTurns
  <2>1. Init => ShipTypeOK
    BY AtFirst DEF Init, ShipInit, ShipTypeOK
  <2>2. Init => turns \in 0 .. MaxTurns
    BY CampaignAssumption DEF Init
  <2> QED
    BY <2>1, <2>2
<1>2. CampaignInv /\ ShipTypeOK /\ turns \in 0 .. MaxTurns => TypeOK
  BY DEF CampaignInv, FolderInv, BoardTypes, Drafts, TypeOK, BacklogTypeOK
<1>3. (ShipTypeOK /\ turns \in 0 .. MaxTurns) /\ [Next]_vars
        => (ShipTypeOK /\ turns \in 0 .. MaxTurns)'
  BY ShipStep
<1> QED
  BY CampaignInvariance, <1>1, <1>2, <1>3, PTL DEF Spec

-----------------------------------------------------------------------------
(* The receipt *)

LEMMA IdsAreFinite ==
  ASSUME NEW S \in SUBSET Ids
  PROVE  IsFiniteSet(S) /\ Cardinality(S) \in Nat
<1> DEFINE Triples == (0 .. MaxDrafts - 1) \X Titles \X (0 .. MaxPlans - 1)
           IdOf(t) == [pos |-> t[1], title |-> t[2], suffix |-> t[3]]
           f == [t \in Triples |-> IdOf(t)]
<1>1. IsFiniteSet(Triples)
  <2> DEFINE A == 0 .. MaxDrafts - 1  B == 0 .. MaxPlans - 1
  <2>1. IsFiniteSet(A) /\ IsFiniteSet(B) /\ IsFiniteSet(Titles)
    <3>1. MaxDrafts - 1 \in Int /\ MaxPlans - 1 \in Int
      BY CampaignAssumption
    <3> QED
      BY <3>1, FS_Interval, CampaignAssumption
  <2> HIDE DEF A, B
  <2>2. IsFiniteSet(A \X Titles)
    BY <2>1, FS_Product
  <2>3. IsFiniteSet((A \X Titles) \X B)
    BY <2>1, <2>2, FS_Product
  <2> DEFINE g == [p \in (A \X Titles) \X B |-> <<p[1][1], p[1][2], p[2]>>]
  <2>4. g \in Surjection((A \X Titles) \X B, A \X Titles \X B)
    <3>1. \A t \in A \X Titles \X B : \E p \in (A \X Titles) \X B : g[p] = t
      <4> SUFFICES ASSUME NEW t \in A \X Titles \X B
                   PROVE  \E p \in (A \X Titles) \X B : g[p] = t
        OBVIOUS
      <4>1. <<<<t[1], t[2]>>, t[3]>> \in (A \X Titles) \X B
        OBVIOUS
      <4>2. g[<<<<t[1], t[2]>>, t[3]>>] = t
        BY <4>1
      <4> QED
        BY <4>1, <4>2
    <3>2. g \in [(A \X Titles) \X B -> A \X Titles \X B]
      OBVIOUS
    <3> QED
      BY <3>1, <3>2 DEF Surjection
  <2> HIDE DEF g
  <2>5. IsFiniteSet(A \X Titles \X B)
    BY <2>3, <2>4, FS_Surjection
  <2> QED
    BY <2>5 DEF A, B
<1>2. f \in Surjection(Triples, Ids)
  <2>1. f \in [Triples -> Ids]
    BY DEF Ids
  <2>2. \A s \in Ids : \E t \in Triples : f[t] = s
    <3> SUFFICES ASSUME NEW s \in Ids PROVE \E t \in Triples : f[t] = s
      OBVIOUS
    <3>1. <<s.pos, s.title, s.suffix>> \in Triples
      BY DEF Ids
    <3>2. f[<<s.pos, s.title, s.suffix>>] = s
      BY <3>1 DEF Ids
    <3> QED
      BY <3>1, <3>2
  <2> QED
    BY <2>1, <2>2 DEF Surjection
<1> HIDE DEF Triples, f
<1>3. IsFiniteSet(Ids)
  BY <1>1, <1>2, FS_Surjection
<1> QED
  BY <1>3, FS_Subset, FS_CardinalityType

(* Ids are ordered strictly: of some stories one is the first. *)
LEMMA FirstIsOneOfThem ==
  ASSUME NEW S \in SUBSET Ids, S # {}
  PROVE  First(S) \in S
<1> DEFINE R == {p \in Ids \X Ids : Before(p[1], p[2])}
<1>1. \A s, t \in Ids : <<s, t>> \in R <=> Before(s, t)
  OBVIOUS
<1>2. \A s \in Ids : ~Before(s, s)
  <2> SUFFICES ASSUME NEW s \in Ids, Before(s, s) PROVE FALSE
    OBVIOUS
  <2>1. s.pos \in Int /\ s.suffix \in Int /\ <<s.title, s.title>> \notin Earlier
    BY CampaignAssumption DEF Ids
  <2> QED
    BY <2>1 DEF Before
<1>3. ASSUME NEW s \in Ids, NEW t \in Ids, NEW u \in Ids, Before(s, t), Before(t, u)
      PROVE  Before(s, u)
  <2>1. /\ s.pos \in Int /\ t.pos \in Int /\ u.pos \in Int
        /\ s.suffix \in Int /\ t.suffix \in Int /\ u.suffix \in Int
        /\ s.title \in Titles /\ t.title \in Titles /\ u.title \in Titles
    BY CampaignAssumption DEF Ids
  <2>2. CASE s.pos < t.pos \/ t.pos < u.pos
    <3>1. s.pos <= t.pos /\ t.pos <= u.pos
      BY <1>3, <2>1 DEF Before
    <3>2. s.pos < u.pos
      BY <2>1, <2>2, <3>1
    <3> QED
      BY <3>2 DEF Before
  <2>3. CASE s.pos = t.pos /\ t.pos = u.pos
    <3>1. \/ <<s.title, t.title>> \in Earlier
          \/ s.title = t.title /\ s.suffix < t.suffix
      BY <1>3, <2>1, <2>3 DEF Before
    <3>2. \/ <<t.title, u.title>> \in Earlier
          \/ t.title = u.title /\ t.suffix < u.suffix
      BY <1>3, <2>1, <2>3 DEF Before
    <3>3. CASE s.title = t.title /\ s.suffix < t.suffix /\ t.title = u.title /\ t.suffix < u.suffix
      <4>1. s.suffix < u.suffix
        BY <2>1, <3>3
      <4> QED
        BY <2>3, <3>3, <4>1 DEF Before
    <3>4. CASE <<s.title, t.title>> \in Earlier \/ <<t.title, u.title>> \in Earlier
      <4>1. <<s.title, u.title>> \in Earlier
        BY <2>1, <3>1, <3>2, <3>4, CampaignAssumption
      <4> QED
        BY <2>3, <4>1 DEF Before
    <3> QED
      BY <3>1, <3>2, <3>3, <3>4
  <2> QED
    BY <1>3, <2>1, <2>2, <2>3 DEF Before
<1> HIDE DEF R
<1>4. \E m \in S : \A t \in S : <<t, m>> \notin R
  <2>1. IsFiniteSet(S)
    BY IdsAreFinite
  <2>2. \A x \in S : <<x, x>> \notin R
    BY <1>1, <1>2
  <2>3. \A x, y, z \in S : <<x, y>> \in R /\ <<y, z>> \in R => <<x, z>> \in R
    <3> SUFFICES ASSUME NEW x \in S, NEW y \in S, NEW z \in S, <<x, y>> \in R, <<y, z>> \in R
                 PROVE  <<x, z>> \in R
      OBVIOUS
    <3>1. x \in Ids /\ y \in Ids /\ z \in Ids
      OBVIOUS
    <3>2. Before(x, y) /\ Before(y, z)
      BY <1>1, <3>1
    <3>3. Before(x, z)
      BY <1>3, <3>1, <3>2
    <3> QED
      BY <1>1, <3>1, <3>3
  <2> QED
    BY <2>1, <2>2, <2>3, FirstExists
<1>5. \E m \in S : \A t \in S \ {m} : ~Before(t, m)
  <2>1. PICK m \in S : \A t \in S : <<t, m>> \notin R
    BY <1>4
  <2>2. \A t \in S : ~Before(t, m)
    BY <1>1, <2>1
  <2> QED
    BY <2>2
<1> QED
  BY <1>5 DEF First

(* Matches of the spec's stories: with a story of the board of the same title *)
(* or a part of it, and no story twice.                                      *)
Fits(i, s) == s.title = spec[i].title \/ Alike(s.title, spec[i].title)

Receipts ==
  {rows \in SUBSET [draft : DOMAIN spec, story : OnBoard] :
     /\ \A m \in rows : Fits(m.draft, m.story)
     /\ \A m, n \in rows : m.story = n.story => m.draft = n.draft}

LEMMA MatchIsFree ==
  ASSUME NEW i \in DOMAIN spec, NEW rows \in Receipts
  PROVE  rows \cup Match(i, spec[i].title, rows) \in Receipts
<1> DEFINE taken == {m.story : m \in rows}
           some == Candidates(spec[i].title, taken)
           s == First(some)
<1>1. some \in SUBSET (OnBoard \ taken) /\ \A t \in some : Fits(i, t)
  BY DEF Candidates, Fits
<1>2. CASE some = {}
  <2>1. Match(i, spec[i].title, rows) = {}
    BY <1>2 DEF Match
  <2> QED
    BY <2>1
<1>3. CASE some # {}
  <2>1. some \in SUBSET Ids
    BY <1>1 DEF OnBoard
  <2> HIDE DEF some
  <2>2. s \in some
    BY <1>3, <2>1, FirstIsOneOfThem
  <2>3. s \in OnBoard /\ Fits(i, s) /\ \A m \in rows : m.story # s
    BY <1>1, <2>2
  <2> HIDE DEF s
  <2> DEFINE new == [draft |-> i, story |-> s]
  <2>4. Match(i, spec[i].title, rows) = {new}
    BY <1>3 DEF Match, s, some
  <2>5. new \in [draft : DOMAIN spec, story : OnBoard] /\ new.draft = i /\ new.story = s
    BY <2>3
  <2> HIDE DEF new
  <2>6. rows \cup {new} \in Receipts
    BY <2>3, <2>5 DEF Receipts
  <2> QED
    BY <2>4, <2>6
<1> QED
  BY <1>2, <1>3

(* The receipt of a spec is one. *)
LEMMA RowsAreAReceipt ==
  ASSUME NEW size \in Nat, DOMAIN spec = 1 .. size
  PROVE  Rows(spec) \in Receipts
<1> DEFINE S == DOMAIN spec
           Added(i, rows) == rows \cup Match(i, spec[i].title, rows)
           add == [p \in S \X Receipts |-> Added(p[1], p[2])]
           pick == [T \in SUBSET S |-> Max(T)]
<1>0. S = 1 .. size
  OBVIOUS
<1>1. \A x \in S, rows \in Receipts :
        add[<<x, rows>>] = Added(x, rows) /\ add[<<x, rows>>] \in Receipts
  BY MatchIsFree
<1>2. \A T \in SUBSET S : pick[T] = Max(T) /\ (T # {} => pick[T] \in T)
  BY <1>0, MaxIsGreatest
<1>3. {} \in Receipts
  BY DEF Receipts
<1> HIDE DEF add, pick
<1>4. CanFold(S, Receipts, {}, add, pick)
  <2>1. IsFiniteSet(S)
    BY <1>0, FS_Interval
  <2> QED
    BY <1>1, <1>2, <1>3, <2>1 DEF CanFold
<1>5. PICK g : IsFold(g, S, Receipts, {}, add, pick)
  BY <1>4, FoldExists
<1> DEFINE RowStep(h, T) ==
             IF T = {} THEN {} ELSE Added([i \in S |-> i][Max(T)], h[T \ {Max(T)}])
<1> DEFINE Iter(h) == h = [T \in SUBSET S |-> RowStep(h, T)]
           iter == CHOOSE h : Iter(h)
<1>6. \A T \in SUBSET S : g[T] \in Receipts /\ g[T] = RowStep(g, T)
  <2> SUFFICES ASSUME NEW T \in SUBSET S PROVE g[T] \in Receipts /\ g[T] = RowStep(g, T)
    OBVIOUS
  <2>1. g[T] \in Receipts /\ g[T] = FoldStep({}, add, pick, g, T)
    BY <1>5 DEF IsFold
  <2>2. CASE T = {}
    BY <2>1, <2>2 DEF FoldStep
  <2>3. CASE T # {}
    <3>1. Max(T) \in S /\ pick[T] = Max(T) /\ g[T \ {Max(T)}] \in Receipts
      BY <1>2, <1>5, <2>3 DEF IsFold
    <3>2. g[T] = add[<<Max(T), g[T \ {Max(T)}]>>]
      BY <2>1, <2>3, <3>1 DEF FoldStep
    <3>3. g[T] = Added(Max(T), g[T \ {Max(T)}])
      BY <1>1, <3>1, <3>2
    <3> QED
      BY <2>1, <2>3, <3>1, <3>3
  <2> QED
    BY <2>2, <2>3
<1>7. Iter([T \in SUBSET S |-> g[T]])
  <2> DEFINE h == [T \in SUBSET S |-> g[T]]
  <2>1. \A T \in SUBSET S : g[T] = RowStep(h, T)
    <3> SUFFICES ASSUME NEW T \in SUBSET S PROVE g[T] = RowStep(h, T)
      OBVIOUS
    <3>1. h[T \ {Max(T)}] = g[T \ {Max(T)}]
      OBVIOUS
    <3> HIDE DEF h
    <3> QED
      BY <1>6, <3>1
  <2> QED
    BY <2>1
<1>8. Iter(iter)
  BY <1>7
<1>9. Rows(spec) = iter[S]
  BY DEF Rows, FoldLeft, MapThenFoldSet
<1> HIDE DEF iter
<1>10. ActsAsFold(iter, S, Receipts, {}, add, pick)
  <2> SUFFICES ASSUME NEW T \in SUBSET S, T # {} => iter[T \ {pick[T]}] \in Receipts
               PROVE  iter[T] = FoldStep({}, add, pick, iter, T)
    BY DEF ActsAsFold
  <2>1. pick[T] = Max(T) /\ (T # {} => pick[T] \in S)
    BY <1>2
  <2>2. iter[T] = RowStep(iter, T)
    BY <1>8
  <2>3. CASE T = {}
    BY <2>2, <2>3 DEF FoldStep
  <2>4. CASE T # {}
    <3>1. add[<<Max(T), iter[T \ {Max(T)}]>>] = Added(Max(T), iter[T \ {Max(T)}])
      BY <1>1, <2>1, <2>4
    <3> QED
      BY <2>1, <2>2, <2>4, <3>1 DEF FoldStep
  <2> QED
    BY <2>3, <2>4
<1>11. S \in SUBSET S /\ g[S] = iter[S]
  BY <1>4, <1>5, <1>10, FoldUnique
<1>12. g[S] \in Receipts
  BY <1>6, <1>11
<1> HIDE DEF S
<1> QED
  BY <1>9, <1>11, <1>12

(* A receipt that is good enough is backed by done stories. *)
LEMMA EnoughIsDelivered ==
  ASSUME BoardTypes, Enough(BuildReport(spec))
  PROVE  Delivered
<1> DEFINE rows == Rows(spec)
           hits == {m \in rows : m.story \in In({"done"})}
           some == {m.draft : m \in hits}
           match == [i \in some |-> CHOOSE m \in hits : m.draft = i]
           story == [i \in some |-> match[i].story]
<1>1. Len(spec) \in Nat /\ DOMAIN spec = 1 .. Len(spec)
  <2>1. spec \in Seq(Declared)
    BY PlanTypes DEF BoardTypes
  <2> QED
    BY <2>1
<1>2. rows \in Receipts
  BY <1>1, RowsAreAReceipt
<1>3. /\ Len(spec) > 0 \/ MinDelivered = 0
      /\ 100 * Cardinality(some) >= MinDelivered * Len(spec)
  BY DEF Enough, BuildReport, Count
<1> HIDE DEF rows
<1>4. \A m \in hits : /\ m.draft \in DOMAIN spec /\ m.story \in In({"done"})
                      /\ Fits(m.draft, m.story)
  BY <1>2 DEF Receipts
<1>5. \A m, n \in hits : m.story = n.story => m.draft = n.draft
  BY <1>2 DEF Receipts
<1> HIDE DEF hits
<1>6. \A i \in some : match[i] \in hits /\ match[i].draft = i
  <2> SUFFICES ASSUME NEW i \in some
               PROVE  (CHOOSE m \in hits : m.draft = i) \in hits
                      /\ (CHOOSE m \in hits : m.draft = i).draft = i
    OBVIOUS
  <2>1. \E m \in hits : m.draft = i
    OBVIOUS
  <2> QED
    BY <2>1
<1>7. some \in SUBSET (DOMAIN spec)
  BY <1>4
<1> HIDE DEF match, some
<1>8. story \in [some -> In({"done"})]
  BY <1>4, <1>6
<1>9. \A i \in some : Fits(i, story[i])
  BY <1>4, <1>6
<1>10. \A i, j \in some : i # j => story[i] # story[j]
  BY <1>5, <1>6
<1> HIDE DEF story
<1>11. spec # <<>> \/ MinDelivered = 0
  BY <1>3
<1> QED
  BY <1>3, <1>7, <1>8, <1>9, <1>10, <1>11 DEF Delivered, Fits

(* As long as no done story is lost, what was delivered stays so. *)
LEMMA DeliveredStays ==
  ASSUME Delivered, ~Lost, spec' = spec
  PROVE  Delivered'
<1> DEFINE Backs(some, story) ==
             /\ 100 * Cardinality(some) >= MinDelivered * Len(spec)
             /\ \A i \in some : \/ story[i].title = spec[i].title
                                \/ Alike(story[i].title, spec[i].title)
             /\ \A i, j \in some : i # j => story[i] # story[j]
<1>0. PICK some \in SUBSET (DOMAIN spec) : \E story \in [some -> In({"done"})] : Backs(some, story)
  BY DEF Delivered
<1>1. PICK story \in [some -> In({"done"})] : Backs(some, story)
  BY <1>0
<1>2. In({"done"}) \subseteq In({"done"})'
  BY DEF In, Lost
<1>3. story \in [some -> In({"done"})']
  BY <1>2
<1>4. spec # <<>> \/ MinDelivered = 0
  BY DEF Delivered
<1> QED
  BY <1>1, <1>3, <1>4 DEF Delivered, Alike

(* The invariant: a ship that is not forced, and that lost no done story,     *)
(* stands on done stories and on tests that pass.                            *)
ShipInv ==
  /\ shipping \in {"verify", "push"} /\ ~terms.force /\ ~moved => Delivered
  /\ shipping = "push" /\ ~terms.force /\ terms.verify => Passes(verdict)

LEMMA ReceiptStep ==
  ASSUME CampaignInv, ShipInv, [Next]_vars
  PROVE  ShipInv'
<1>1. ASSUME UNCHANGED <<shipping, terms, verdict, column, spec, moved>> PROVE ShipInv'
  <2>1. ~Lost
    BY <1>1 DEF Lost
  <2> QED
    BY <1>1, <2>1, DeliveredStays DEF ShipInv, Passes
<1>2. ASSUME Disturb, spec' = spec PROVE ShipInv'
  <2>1. Lost \/ (Delivered => Delivered')
    BY <1>2, DeliveredStays
  <2> QED
    BY <1>2, <2>1 DEF Disturb, ShipInv, Passes
<1>3. ASSUME NEW s \in Ids, Progress(s) \/ Setback(s) PROVE ShipInv'
  BY <1>2, <1>3 DEF Progress, Setback, commandVars
<1>4. CASE Draft
  <2>1. ASSUME UNCHANGED shipVars, UNCHANGED column PROVE ShipInv'
    BY <1>1, <1>4, <2>1 DEF Draft, Elsewhere, shipVars
  <2> QED
    BY <1>2, <1>4, <2>1 DEF Draft, Elsewhere, backlogVars, DecompositionFails, EndPlan
<1>5. CASE Delete
  <2>1. ASSUME UNCHANGED shipVars, UNCHANGED backlogVars PROVE ShipInv'
    BY <1>1, <1>5, <2>1 DEF Delete, Elsewhere, shipVars, backlogVars
  <2> QED
    BY <1>2, <1>5, <2>1 DEF Delete, Elsewhere
<1>6. ASSUME \/ (\E anew \in BOOLEAN : Start(anew)) \/ Reset \/ Stop \/ UNCHANGED vars
             \/ Create \/ Register \/ Equip \/ Seed \/ Link \/ Wipe
      PROVE  ShipInv'
  <2>1. UNCHANGED <<shipVars, column, spec>>
    BY <1>6 DEF Start, Reset, Stop, vars, Create, Register, Equip, Seed, Link, Wipe, Elsewhere,
                backlogVars, EndPlan, DecompositionFails, BeginPlan, LinkNext, commandVars
  <2> QED
    BY <1>1, <2>1 DEF shipVars
<1>7. CASE Ship
  <2>1. UNCHANGED <<column, spec>>
    BY <1>7 DEF Ship, backlogVars, commandVars
  <2>2. Delivered => Delivered'
    <3>1. ~Lost
      BY <2>1 DEF Lost
    <3> QED
      BY <2>1, <3>1, DeliveredStays
  <2>3. ASSUME NEW t \in [force : BOOLEAN, verify : BOOLEAN], BeginShip(spec, t) PROVE ShipInv'
    <3>1. t.force \/ Delivered
      <4>1. BoardTypes
        BY DEF CampaignInv
      <4> QED
        BY <2>3, <4>1, EnoughIsDelivered DEF BeginShip
    <3> QED
      BY <2>2, <2>3, <3>1 DEF BeginShip, ShipInv
  <2>4. EndShip => ShipInv'
    BY DEF EndShip, ShipInv
  <2>5. Verify(tree) => ShipInv'
    <3> SUFFICES ASSUME Verify(tree), ~EndShip PROVE ShipInv'
      BY <2>4
    <3>1. PICK v : /\ Passes(v) \/ terms.force
                   /\ shipping = "verify" /\ shipping' = "push" /\ verdict' = v
                   /\ UNCHANGED <<terms, moved>>
      BY DEF Verify
    <3> QED
      BY <2>2, <3>1 DEF ShipInv, Passes
  <2>6. Push => ShipInv'
    BY <2>4 DEF Push, ShipInv
  <2>7. PushFails \/ OpenPR => ShipInv'
    BY <2>4 DEF PushFails, OpenPR
  <2> QED
    BY <1>7, <2>3, <2>5, <2>6, <2>7 DEF Ship
<1> QED
  BY <1>3, <1>4, <1>5, <1>6, <1>7 DEF Next, Command

(* What is pushed without --force is delivered when it is pushed, however     *)
(* long ago its receipt was and whatever the team did since, unless a done    *)
(* story was lost; and it is vouched for by tests that passed often enough or *)
(* that could not be run (cli.py:1027, 1050).                                *)
THEOREM OnlyTheDeliveredIsShipped == Spec => ShippedIsDelivered
<1>1. Init => ShipInv
  BY DEF Init, ShipInit, ShipInv
<1>2. CampaignInv /\ ShipInv /\ [Next]_vars => ShipInv'
  BY ReceiptStep
<1>3. ShipInv /\ [Next]_vars =>
        [shipping = "push" /\ shipping' = "open" /\ ~terms.force =>
           /\ moved \/ Delivered
           /\ terms.verify => Passes(verdict)]_vars
  BY DEF ShipInv
<1> QED
  BY <1>1, <1>2, <1>3, CampaignInvariance, PTL DEF Spec, ShippedIsDelivered
=============================================================================
