--------------------------- MODULE JobPathProofs ---------------------------
(***************************************************************************)
(* Proofs about the parts a job passes through, each with an inductive     *)
(* invariant of its own.                                                   *)
(*                                                                         *)
(* EventRouting: the webhook and the agent worker resolve the same ref     *)
(* from the same payload, and no row of the command table comes to name a  *)
(* workflow twice (TableOnce), so a delivery starts none twice. Worktrees: *)
(* a job that has come so far in the worktree lock's body holds the lock,  *)
(* and finds the directory valid and registered (TreeStages). SdkTurn:     *)
(* what the consumer will have seen of a task, once it has read the wire   *)
(* up to a position, follows from what the CLI has sent before that        *)
(* position (RunningSeen, NoticesSeen, FreshUnseen), so that a result is   *)
(* not read between a task's start and its end (ResultsHeld).              *)
(* BackgroundWorkers: every step moves one copy of a job from one place to *)
(* another, and the flush makes one copy of the jobs of the last firings   *)
(* (Buffered). First come the subsequences that the flush and the filters  *)
(* build.                                                                  *)
(***************************************************************************)
EXTENDS EventRouting, Worktrees, SdkTurn, BackgroundWorkers, SequenceTheorems,
        FiniteSetTheorems, TLAPS

(* Subsequences.                                                           *)

\* The positions counted off in order: Nth goes through each of them once.
LEMMA NthOnce ==
  ASSUME NEW n \in Nat, NEW F \in SUBSET (1 .. n)
  PROVE  /\ Cardinality(F) \in Nat
         /\ \A p \in 1 .. Cardinality(F) : Nth(F, p) \in F
         /\ \A i \in F : \E p \in 1 .. Cardinality(F) : Nth(F, p) = i
         /\ \A p, q \in 1 .. Cardinality(F) : Nth(F, p) = Nth(F, q) => p = q
<1> DEFINE Upto(i) == {j \in F : j <= i}
           r == [i \in F |-> Cardinality(Upto(i))]
           c == Cardinality(F)
<1>1. IsFiniteSet(F) /\ c \in Nat
  <2>1. IsFiniteSet(1 .. n)
    BY FS_Interval
  <2>2. IsFiniteSet(F)
    BY <2>1, FS_Subset
  <2> QED
    BY <2>2, FS_CardinalityType
<1>2. ASSUME NEW i \in F PROVE r[i] \in 1 .. c
  <2>1. Upto(i) \in SUBSET F /\ i \in Upto(i) /\ r[i] = Cardinality(Upto(i))
    OBVIOUS
  <2> HIDE DEF Upto
  <2>2. IsFiniteSet(Upto(i)) /\ Cardinality(Upto(i)) <= c
    BY <1>1, <2>1, FS_Subset
  <2>3. Cardinality(Upto(i)) \in Nat /\ Cardinality(Upto(i)) # 0
    BY <2>1, <2>2, FS_CardinalityType, FS_EmptySet
  <2> QED
    BY <1>1, <2>1, <2>2, <2>3
<1>3. ASSUME NEW i \in F, NEW k \in F, i < k PROVE r[i] < r[k]
  <2>1. \A j \in F : j \in Nat
    OBVIOUS
  <2>2. /\ Upto(i) \in SUBSET F /\ Upto(k) \in SUBSET F /\ k \notin Upto(i)
        /\ r[i] = Cardinality(Upto(i)) /\ r[k] = Cardinality(Upto(k))
    BY <1>3, <2>1
  <2>3. \A j \in Upto(i) \cup {k} : j \in Upto(k)
    BY <1>3, <2>1
  <2> HIDE DEF Upto, r
  <2>4. IsFiniteSet(Upto(i)) /\ IsFiniteSet(Upto(k))
    BY <1>1, <2>2, FS_Subset
  <2>5. Cardinality(Upto(i) \cup {k}) = Cardinality(Upto(i)) + 1
    BY <2>2, <2>4, FS_AddElement
  <2>6. Upto(i) \cup {k} \in SUBSET Upto(k)
    BY <2>3
  <2>7. Cardinality(Upto(i) \cup {k}) <= Cardinality(Upto(k))
    BY <2>4, <2>6, FS_Subset
  <2>8. Cardinality(Upto(i)) \in Nat /\ Cardinality(Upto(k)) \in Nat
    BY <2>4, FS_CardinalityType
  <2> QED
    BY <2>2, <2>5, <2>7, <2>8
<1>4. \A i \in F : i \in Nat
  OBVIOUS
<1>5. \A i, k \in F : r[i] = r[k] => i = k
  <2>1. \A i, k \in F : i < k => r[i] < r[k]
    BY <1>3
  <2>2. \A i \in F : r[i] \in Nat
    BY <1>1, <1>2
  <2> HIDE DEF r
  <2> QED
    BY <1>4, <2>1, <2>2
<1>6. r \in Injection(F, 1 .. c)
  <2>1. r \in [F -> 1 .. c]
    <3>1. r = [i \in F |-> r[i]]
      OBVIOUS
    <3> HIDE DEF r
    <3> QED
      BY <1>2, <3>1
  <2>2. DOMAIN r = F
    OBVIOUS
  <2> HIDE DEF r
  <2> QED
    BY <1>5, <2>1, <2>2 DEF Injection, IsInjective
<1>7. r \in Surjection(F, 1 .. c)
  <2>1. IsFiniteSet(1 .. c) /\ Cardinality(1 .. c) = c
    BY <1>1, FS_Interval
  <2> HIDE DEF r
  <2> QED
    BY <1>6, <2>1, FS_Injection
<1>8. \A p \in 1 .. c : \E i \in F : r[i] = p
  <2> HIDE DEF r
  <2> QED
    BY <1>7 DEF Surjection
<1>9. \A p \in 1 .. c : Nth(F, p) \in F /\ r[Nth(F, p)] = p
  BY <1>8 DEF Nth
<1> HIDE DEF r, c
<1>10. \A i \in F : Nth(F, r[i]) = i
  BY <1>2, <1>5, <1>9
<1> QED
  BY <1>1, <1>2, <1>9, <1>10 DEF c

\* What is left of a list are entries of it, and all of them are in the set.
LEMMA FilteredType ==
  ASSUME NEW W, NEW s \in Seq(W), NEW S
  PROVE  /\ Filtered(s, S) \in Seq(W)
         /\ \A k \in DOMAIN Filtered(s, S) : Filtered(s, S)[k] \in S
<1> DEFINE F == {i \in DOMAIN s : s[i] \in S}
<1>1. Len(s) \in Nat /\ DOMAIN s = 1 .. Len(s) /\ \A i \in DOMAIN s : s[i] \in W
  OBVIOUS
<1>2. F \in SUBSET (1 .. Len(s)) /\ \A i \in F : s[i] \in S /\ s[i] \in W
  BY <1>1
<1>3. Filtered(s, S) = [k \in 1 .. Cardinality(F) |-> s[Nth(F, k)]]
  BY DEF Filtered, Picked
<1> HIDE DEF F
<1>4. Cardinality(F) \in Nat /\ \A k \in 1 .. Cardinality(F) : Nth(F, k) \in F
  BY <1>1, <1>2, NthOnce
<1>5. \A k \in 1 .. Cardinality(F) : s[Nth(F, k)] \in W /\ s[Nth(F, k)] \in S
  BY <1>2, <1>4
<1> DEFINE e(k) == s[Nth(F, k)]
<1> HIDE DEF e
<1>6. [k \in 1 .. Cardinality(F) |-> e(k)] \in Seq(W)
  BY <1>4, <1>5 DEF e
<1> QED
  BY <1>3, <1>4, <1>5, <1>6 DEF e

\* A list without repetitions is left without repetitions.
LEMMA FilteredOnce ==
  ASSUME NEW W, NEW s \in Seq(W), NEW S, IsInjective(s) PROVE IsInjective(Filtered(s, S))
<1> DEFINE F == {i \in DOMAIN s : s[i] \in S}
<1>1. Len(s) \in Nat /\ DOMAIN s = 1 .. Len(s)
  OBVIOUS
<1>2. F \in SUBSET (1 .. Len(s)) /\ F \subseteq DOMAIN s
  BY <1>1
<1>3. Filtered(s, S) = [k \in 1 .. Cardinality(F) |-> s[Nth(F, k)]]
  BY DEF Filtered, Picked
<1> HIDE DEF F
<1>4. /\ \A k \in 1 .. Cardinality(F) : Nth(F, k) \in DOMAIN s
      /\ \A k, l \in 1 .. Cardinality(F) : Nth(F, k) = Nth(F, l) => k = l
  BY <1>1, <1>2, NthOnce
<1> QED
  BY <1>3, <1>4 DEF IsInjective

\* Nor has the list made of two that share nothing.
LEMMA JoinedOnce ==
  ASSUME NEW W, NEW s \in Seq(W), NEW t \in Seq(W), IsInjective(s), IsInjective(t),
         \A i \in DOMAIN s, k \in DOMAIN t : s[i] # t[k]
  PROVE  IsInjective(s \o t)
<1>1. /\ Len(s) \in Nat /\ Len(t) \in Nat /\ DOMAIN s = 1 .. Len(s) /\ DOMAIN t = 1 .. Len(t)
      /\ DOMAIN (s \o t) = 1 .. Len(s) + Len(t)
      /\ \A i \in DOMAIN (s \o t) :
           (s \o t)[i] = IF i <= Len(s) THEN s[i] ELSE t[i - Len(s)]
  OBVIOUS
<1>2. ASSUME NEW i \in DOMAIN (s \o t), NEW k \in DOMAIN (s \o t), (s \o t)[i] = (s \o t)[k]
      PROVE  i = k
  <2>1. CASE i <= Len(s) /\ k <= Len(s)
    BY <1>1, <1>2, <2>1 DEF IsInjective
  <2>2. CASE i > Len(s) /\ k > Len(s)
    <3>1. i - Len(s) \in DOMAIN t /\ k - Len(s) \in DOMAIN t
      BY <1>1, <2>2
    <3>2. t[i - Len(s)] = t[k - Len(s)]
      BY <1>1, <1>2, <2>2
    <3>3. i - Len(s) = k - Len(s)
      BY <3>1, <3>2 DEF IsInjective
    <3> QED
      BY <1>1, <3>3
  <2>3. CASE i <= Len(s) /\ k > Len(s)
    <3>1. i \in DOMAIN s /\ k - Len(s) \in DOMAIN t /\ s[i] = t[k - Len(s)]
      BY <1>1, <1>2, <2>3
    <3> QED
      BY <3>1
  <2>4. CASE i > Len(s) /\ k <= Len(s)
    <3>1. k \in DOMAIN s /\ i - Len(s) \in DOMAIN t /\ s[k] = t[i - Len(s)]
      BY <1>1, <1>2, <2>4
    <3> QED
      BY <3>1
  <2> QED
    BY <1>1, <2>1, <2>2, <2>3, <2>4
<1> QED
  BY <1>2 DEF IsInjective

-----------------------------------------------------------------------------
(* EventRouting.                                                           *)

\* Of any delivery, the ref that the webhook resolves is a pull request's head
\* exactly when the thread type that the agent worker resolves is "pr".
LEMMA RefAgrees ==
  ASSUME NEW d PROVE ResolveThreadType(d) = "pr" <=> ResolveRef(d) = "pull"
<1>1. CASE d.event \in PullEvents
  BY <1>1 DEF ResolveThreadType, ResolveRef, PullEvents
<1>2. CASE d.event = "issue_comment"
  BY <1>2 DEF ResolveThreadType, ResolveRef, PullEvents
<1>3. CASE d.event \notin PullEvents \cup {"issue_comment"}
  BY <1>3 DEF ResolveThreadType, ResolveRef, PullEvents
<1> QED
  BY <1>1, <1>2, <1>3

\* The webhook handler and the agent worker agree on every job they route,
\* whatever the configuration and the delivery.
THEOREM RoutesAgree == RouteSpec => []ThreadRefAgree
<1>1. RouteInit => ThreadRefAgree
  BY DEF RouteInit, ThreadRefAgree
<1>2. ThreadRefAgree /\ [RouteNext]_routeVars => ThreadRefAgree'
  <2> SUFFICES ASSUME ThreadRefAgree, [RouteNext]_routeVars PROVE ThreadRefAgree'
    OBVIOUS
  <2>1. ASSUME NEW d \in Webhooks, Route(d) PROVE ThreadRefAgree'
    <3>1. CASE Refused(d)
      BY <2>1, <3>1 DEF Route, ThreadRefAgree
    <3>2. CASE ~Refused(d)
      <4>1. PICK ws : out' = JobsOf(ws, d)
        BY <2>1, <3>2 DEF Route
      <4>2. \A i \in DOMAIN out' : out'[i] = Job(ws[i], d)
        BY <4>1 DEF JobsOf
      <4>3. \A i \in DOMAIN out' :
              out'[i].thread = ResolveThreadType(d) /\ out'[i].ref = ResolveRef(d)
        BY <4>2 DEF Job
      <4> QED
        BY <4>3, RefAgrees DEF ThreadRefAgree
    <3> QED
      BY <3>1, <3>2
  <2>2. CASE UNCHANGED routeVars
    BY <2>2 DEF routeVars, ThreadRefAgree
  <2> QED
    BY <2>1, <2>2 DEF RouteNext
<1> QED
  BY <1>1, <1>2, PTL DEF RouteSpec

\* The engine's table lists configured workflows, however often it was appended
\* to, and what Matching yields are configured workflows.
LEMMA MatchingType ==
  ASSUME RouteAssumption, RouteTypeOK, NEW d PROVE Matching(d) \in Seq(Workflows)
<1>1. WorkflowOrder \in Seq(Workflows)
  BY DEF RouteAssumption, Workflows
<1>2. GetWorkflowForEvent(d) \in Seq(Workflows)
  BY <1>1, FilteredType DEF GetWorkflowForEvent, EventMap
<1>3. (IF Command(d) \in Commands THEN commandMap[Command(d)] ELSE <<>>) \in Seq(Workflows)
  BY DEF RouteTypeOK
<1> QED
  BY <1>2, <1>3, FilteredType DEF Matching

\* The job of a configured workflow.
LEMMA JobType ==
  ASSUME NEW w \in Workflows, NEW d
  PROVE  /\ Job(w, d).wf \in Workflows /\ Job(w, d).thread \in {"pr", "issue", "discussion"}
         /\ Job(w, d).ref \in {"main", "pull", "heads", "tags", "raw"}
         /\ Job(w, d).mode \in {"new", "resume", "fork"}
         /\ Job(w, d).tier \in Tiers \cup {None}
<1>1. ResolveThreadType(d) \in {"pr", "issue", "discussion"}
  BY DEF ResolveThreadType
<1>2. ResolveRef(d) \in {"main", "pull", "heads", "tags", "raw"}
  BY DEF ResolveRef
<1>3. ParseModelFlag(UserQuery(d)) \in Tiers \cup {None}
  BY DEF ParseModelFlag
<1>4. SessionMode(w, d) \in {"new", "resume", "fork"}
  <2>1. \A q : ParseSessionFlag(q) \in {"", "new", "resume", "fork"}
    BY DEF ParseSessionFlag
  <2> QED
    BY <2>1 DEF SessionMode
<1> QED
  BY <1>1, <1>2, <1>3, <1>4 DEF Job

LEMMA RouteTypeStarts == ASSUME RouteAssumption, RouteInit PROVE RouteTypeOK
<1>1. WorkflowOrder \in Seq(Workflows)
  BY DEF RouteAssumption, Workflows
<1>2. commandMap \in [Commands -> Seq(Workflows)]
  BY <1>1, FilteredType DEF RouteInit, ConfiguredFor
<1> QED
  BY <1>2 DEF RouteInit, RouteTypeOK, RouteAssumption

LEMMA RouteTypeStep == ASSUME RouteAssumption, RouteTypeOK, [RouteNext]_routeVars PROVE RouteTypeOK'
<1>1. ASSUME NEW d \in Webhooks, Route(d) PROVE RouteTypeOK'
  <2>1. Matching(d) \in Seq(Workflows)
    BY MatchingType
  <2>2. commandMap' \in [Commands -> Seq(Workflows)]
    <3>1. CASE Refused(d)
      BY <1>1, <3>1 DEF Route, RouteTypeOK
    <3>2. CASE ~Refused(d)
      BY <1>1, <2>1, <3>2 DEF Route, RouteTypeOK
    <3> QED
      BY <3>1, <3>2
  <2>3. last' \in Webhooks \cup {None} /\ routed' \in 0 .. MaxDeliveries
    BY <1>1 DEF Route, RouteTypeOK, RouteAssumption
  <2>4. \A i \in DOMAIN out' :
          /\ out'[i].wf \in Workflows /\ out'[i].thread \in {"pr", "issue", "discussion"}
          /\ out'[i].ref \in {"main", "pull", "heads", "tags", "raw"}
          /\ out'[i].mode \in {"new", "resume", "fork"} /\ out'[i].tier \in Tiers \cup {None}
    <3>1. CASE Refused(d)
      BY <1>1, <3>1 DEF Route
    <3>2. CASE ~Refused(d)
      <4>1. PICK ws \in Seq(Workflows) : out' = JobsOf(ws, d)
        BY <1>1, <2>1, <3>2, FilteredType DEF Route
      <4>2. \A i \in DOMAIN out' : ws[i] \in Workflows /\ out'[i] = Job(ws[i], d)
        BY <4>1 DEF JobsOf
      <4> QED
        BY <4>2, JobType
    <3> QED
      BY <3>1, <3>2
  <2> QED
    BY <2>2, <2>3, <2>4 DEF RouteTypeOK
<1>2. CASE UNCHANGED routeVars
  BY <1>2 DEF routeVars, RouteTypeOK
<1> QED
  BY <1>1, <1>2 DEF RouteNext

\* Routing keeps its types: whatever deliveries come, the table the engine
\* appends to in place holds configured workflows only, and every job queued is
\* one of a configured workflow, with a thread type, a ref, a tier and a session
\* mode that the agent worker knows.
THEOREM RouteTyped == ASSUME RouteAssumption PROVE RouteSpec => []RouteTypeOK
<1>1. RouteInit => RouteTypeOK
  BY RouteTypeStarts
<1>2. RouteTypeOK /\ [RouteNext]_routeVars => RouteTypeOK'
  BY RouteTypeStep
<1> QED
  BY <1>1, <1>2, PTL DEF RouteSpec

\* No list of the table repeats a workflow, although lists grow.
TableOnce == \A c \in Commands : IsInjective(commandMap[c])

RouteInv == RouteTypeOK /\ TableOnce /\ StartedOnce

LEMMA MatchingOnce ==
  ASSUME RouteAssumption, RouteTypeOK, TableOnce, NEW d PROVE IsInjective(Matching(d))
<1> DEFINE named == IF Command(d) \in Commands THEN commandMap[Command(d)] ELSE <<>>
           other == {w \in Workflows : CheckFilters(w, d) /\ ~Contains(named, w)}
           more  == Filtered(GetWorkflowForEvent(d), other)
<1>1. WorkflowOrder \in Seq(Workflows) /\ IsInjective(WorkflowOrder)
  BY DEF RouteAssumption, Workflows
<1>2. GetWorkflowForEvent(d) \in Seq(Workflows) /\ IsInjective(GetWorkflowForEvent(d))
  <2>1. \A e, a : EventMap(e, a) \in Seq(Workflows) /\ IsInjective(EventMap(e, a))
    BY <1>1, FilteredType, FilteredOnce DEF EventMap
  <2> QED
    BY <2>1 DEF GetWorkflowForEvent
<1>3. named \in Seq(Workflows) /\ IsInjective(named)
  <2>1. CASE Command(d) \in Commands
    BY <2>1 DEF RouteTypeOK, TableOnce
  <2>2. CASE Command(d) \notin Commands
    <3>1. named = <<>> /\ <<>> \in Seq(Workflows)
      BY <2>2
    <3>2. IsInjective(<<>>)
      BY DEF IsInjective
    <3> QED
      BY <3>1, <3>2
  <2> QED
    BY <2>1, <2>2
<1>4. Matching(d) = named \o more
  BY DEF Matching
<1> HIDE DEF named
<1>5. /\ more \in Seq(Workflows) /\ IsInjective(more)
      /\ \A k \in DOMAIN more : ~Contains(named, more[k])
  BY <1>2, FilteredType, FilteredOnce
<1> HIDE DEF more
<1>6. \A i \in DOMAIN named, k \in DOMAIN more : named[i] # more[k]
  <2>1. DOMAIN named = 1 .. Len(named)
    BY <1>3
  <2> QED
    BY <1>5, <2>1 DEF Contains
<1> QED
  BY <1>3, <1>4, <1>5, <1>6, JoinedOnce

\* Whatever deliveries were routed before, one delivery queues at most one job for
\* a workflow: the list that is appended to in place is only given workflows that
\* it does not hold.
THEOREM WorkflowsStartedOnce == ASSUME RouteAssumption PROVE RouteSpec => []StartedOnce
<1>1. RouteInit => RouteInv
  <2> SUFFICES ASSUME RouteInit PROVE RouteInv
    OBVIOUS
  <2>1. WorkflowOrder \in Seq(Workflows) /\ IsInjective(WorkflowOrder)
    BY DEF RouteAssumption, Workflows
  <2>2. \A c : IsInjective(ConfiguredFor(c))
    BY <2>1, FilteredOnce DEF ConfiguredFor
  <2> QED
    BY <2>2, RouteTypeStarts DEF RouteInit, RouteInv, TableOnce, StartedOnce
<1>2. RouteInv /\ [RouteNext]_routeVars => RouteInv'
  <2> SUFFICES ASSUME RouteInv, [RouteNext]_routeVars PROVE RouteInv'
    OBVIOUS
  <2>1. RouteTypeOK'
    BY RouteTypeStep DEF RouteInv
  <2>2. ASSUME NEW d \in Webhooks, Route(d), Refused(d) PROVE TableOnce' /\ StartedOnce'
    BY <2>2 DEF Route, RouteInv, TableOnce, StartedOnce
  <2>3. ASSUME NEW d \in Webhooks, Route(d), ~Refused(d) PROVE TableOnce' /\ StartedOnce'
    <3>1. Matching(d) \in Seq(Workflows) /\ IsInjective(Matching(d))
      BY MatchingType, MatchingOnce DEF RouteInv
    <3>2. TableOnce'
      BY <2>3, <3>1 DEF Route, RouteInv, TableOnce
    <3>3. PICK ws : out' = JobsOf(ws, d) /\ IsInjective(ws)
      BY <2>3, <3>1, FilteredOnce DEF Route
    <3>4. DOMAIN out' = DOMAIN ws /\ \A i \in DOMAIN ws : out'[i].wf = ws[i]
      BY <3>3 DEF JobsOf, Job
    <3>5. StartedOnce'
      BY <3>3, <3>4 DEF StartedOnce, IsInjective
    <3> QED
      BY <3>2, <3>5
  <2>4. ASSUME UNCHANGED routeVars PROVE TableOnce' /\ StartedOnce'
    BY <2>4 DEF routeVars, RouteInv, TableOnce, StartedOnce
  <2> QED
    BY <2>1, <2>2, <2>3, <2>4 DEF RouteNext, RouteInv
<1>3. RouteInv => StartedOnce
  BY DEF RouteInv
<1> QED
  BY <1>1, <1>2, <1>3, PTL DEF RouteSpec

-----------------------------------------------------------------------------
(* Worktrees.                                                              *)

\* The types that the steps rely on.
TreeTypes ==
  /\ dir \in {"absent", "valid", "broken"} /\ registered \in BOOLEAN
  /\ holder \in Jobs \cup {NoJob}
  /\ tpc \in [Jobs -> InTree \cup {"new", "failed", "ended", "dead"}]

\* A job that works on the tree holds the lock.
TreeHeld == \A j \in Jobs : tpc[j] \in InTree => holder = j

\* git knows every checkout that is whole.
ValidKnown == dir = "valid" => registered

\* Where a job is says what it has made of the directory.
TreeStages ==
  \A j \in Jobs :
    /\ tpc[j] = "prune" => dir = "absent"
    /\ tpc[j] = "add" => dir = "absent" /\ (~registered \/ j \in refused)
    /\ tpc[j] = "fallback" => j \in refused
    /\ tpc[j] = "configure" => dir = "valid" \/ j \in pulled

TreeInv == TreeTypes /\ TreeHeld /\ ValidKnown /\ TreeStages /\ WorktreeReady

\* A step of the job that holds the lock.
LEMMA HolderStep ==
  ASSUME TreesAssumption, TreeInv, NEW j \in Jobs,
         \/ AcquireTree(j) \/ Check(j) \/ Fetch(j) \/ RemoveOld(j) \/ RemoveFiles(j) \/ Prune(j)
         \/ Add(j) \/ Fallback(j) \/ Configure(j) \/ Work(j) \/ Save(j) \/ JobCleanup(j)
  PROVE  TreeInv'
<1> USE DEF InTree, Advance, tree, cleaner, GitFails
<1>1. TreeTypes /\ TreeHeld /\ ValidKnown /\ TreeStages /\ WorktreeReady
  BY DEF TreeInv
<1>2. NoJob \notin Jobs
  BY DEF TreesAssumption
<1> USE DEF TreeTypes, TreeHeld, ValidKnown, TreeStages, WorktreeReady
<1>3. CASE AcquireTree(j)
  BY <1>1, <1>2, <1>3 DEF AcquireTree, TreeInv
<1>4. CASE Check(j)
  BY <1>1, <1>2, <1>4 DEF Check, TreeInv
<1>5. CASE Fetch(j)
  BY <1>1, <1>2, <1>5 DEF Fetch, TreeInv
<1>6. CASE RemoveOld(j)
  BY <1>1, <1>2, <1>6 DEF RemoveOld, RemoveTree, TreeInv
<1>7. CASE RemoveFiles(j)
  BY <1>1, <1>2, <1>7 DEF RemoveFiles, TreeInv
<1>8. CASE Prune(j)
  BY <1>1, <1>2, <1>8 DEF Prune, TreeInv
<1>9. CASE Add(j)
  BY <1>1, <1>2, <1>9 DEF Add, AddTree, TreeInv
<1>10. CASE Fallback(j)
  BY <1>1, <1>2, <1>10 DEF Fallback, AddTree, TreeInv
<1>11. CASE Configure(j)
  BY <1>1, <1>2, <1>11 DEF Configure, TreeInv
<1>12. CASE Work(j)
  BY <1>1, <1>2, <1>12 DEF Work, TreeInv
<1>13. CASE Save(j)
  BY <1>1, <1>2, <1>13 DEF Save, TreeInv
<1>14. CASE JobCleanup(j)
  BY <1>1, <1>2, <1>14 DEF JobCleanup, TreeInv
<1> QED
  BY <1>3, <1>4, <1>5, <1>6, <1>7, <1>8, <1>9, <1>10, <1>11, <1>12, <1>13, <1>14

\* A job that dies, the cleanup worker, and what expires.
LEMMA OtherStep ==
  ASSUME TreesAssumption, TreeInv,
         \/ \E j \in Jobs : JobDies(j)
         \/ LockExpires \/ CleanerNext \/ RecordExpires \/ OrphanLoop
  PROVE  TreeInv'
<1> USE DEF InTree, tree, cleaner, job, GitFails, Go
<1>1. TreeTypes /\ TreeHeld /\ ValidKnown /\ TreeStages /\ WorktreeReady
  BY DEF TreeInv
<1>2. NoJob \notin Jobs
  BY DEF TreesAssumption
<1> USE DEF TreeTypes, TreeHeld, ValidKnown, TreeStages, WorktreeReady
<1>3. ASSUME NEW j \in Jobs, JobDies(j) PROVE TreeInv'
  BY <1>1, <1>2, <1>3 DEF JobDies, TreeInv
<1>4. CASE LockExpires
  BY <1>1, <1>2, <1>4 DEF LockExpires, TreeInv
<1>5. ASSUME UNCHANGED <<dir, registered, holder, tpc, pulled, refused>> PROVE TreeInv'
  BY <1>1, <1>5 DEF TreeInv
<1>6. CASE Deregister
  <2>1. /\ UNCHANGED <<holder, tpc, refused>>
        /\ pulled' = IF dir' = dir \/ holder = NoJob THEN pulled ELSE pulled \cup {holder}
    BY <1>6 DEF Deregister, Pulled
  <2>2. CASE registered /\ registered' = FALSE /\ dir' = "absent"
    <3>1. \A j \in Jobs : tpc[j] \in InTree /\ dir = "valid" => j \in pulled'
      BY <1>1, <1>2, <2>1, <2>2
    <3> QED
      BY <1>1, <2>1, <2>2, <3>1 DEF TreeInv
  <2>3. CASE registered' = FALSE /\ ~registered /\ dir' = dir
    BY <1>1, <2>1, <2>3 DEF TreeInv
  <2>4. CASE UNCHANGED <<dir, registered>>
    BY <1>5, <2>1, <2>4
  <2> QED
    BY <1>1, <1>6, <2>2, <2>3, <2>4 DEF Deregister, RemoveTree
<1>7. CASE CleanFiles
  BY <1>1, <1>2, <1>7 DEF CleanFiles, Pulled, TreeInv
<1>8. CASE CleanupPop \/ Archive \/ BranchTest \/ Close \/ RecordExpires \/ OrphanLoop
  BY <1>5, <1>8 DEF CleanupPop, Archive, BranchTest, Close, RecordExpires, OrphanLoop
<1> QED
  BY <1>3, <1>4, <1>6, <1>7, <1>8 DEF CleanerNext

LEMMA TreeStarts == ASSUME TreesAssumption, TreesInit PROVE TreeInv
  BY DEF TreesInit, TreeInv, TreeTypes, TreeHeld, ValidKnown, TreeStages, WorktreeReady,
         InTree

LEMMA TreeStep == ASSUME TreesAssumption, TreeInv, [TreesNext]_treeVars PROVE TreeInv'
<1>1. ASSUME TreeInv, TreesNext PROVE TreeInv'
  BY <1>1, HolderStep, OtherStep DEF TreesNext, JobNext
<1>2. ASSUME TreeInv, UNCHANGED treeVars PROVE TreeInv'
  BY <1>2
     DEF treeVars, TreeInv, TreeTypes, TreeHeld, ValidKnown, TreeStages, WorktreeReady
<1> QED
  BY <1>1, <1>2

\* Whatever jobs and cleanups leave behind, the agent works in a valid checkout
\* that git knows, and only git's refusal or a cleanup fails the job before.
THEOREM TreesReady == ASSUME TreesAssumption PROVE TreesSpec => []WorktreeReady
<1>1. TreesInit => TreeInv
  BY TreeStarts
<1>2. TreeInv /\ [TreesNext]_treeVars => TreeInv'
  BY TreeStep
<1>3. TreeInv => WorktreeReady
  BY DEF TreeInv
<1> QED
  BY <1>1, <1>2, <1>3, PTL DEF TreesSpec

\* The type invariant in two parts: what is true or false, and the rest.
TreeFlags ==
  /\ registered \in BOOLEAN /\ resumes \in [Jobs -> BOOLEAN]
  /\ mapped \in BOOLEAN /\ archived \in BOOLEAN
TreeRest ==
  /\ dir \in {"absent", "valid", "broken"} /\ head \in {"detached", "branch"}
  /\ holder \in Jobs \cup {NoJob}
  /\ tpc \in [Jobs -> InTree \cup {"new", "failed", "ended", "dead"}]
  /\ creds \subseteq Jobs
  /\ todo \subseteq Cleanups /\ cpc \in {"idle", "archive", "test", "git", "files", "close"}
  /\ kind \in {"thread", "branch"} /\ sweeper \in {"start", "returned"}
  /\ pulled \subseteq Jobs /\ refused \subseteq Jobs /\ fails \in 0 .. MaxFails

LEMMA TreesTypeStarts == ASSUME TreesAssumption, TreesInit PROVE TreesTypeOK
<1>1. TreeFlags
  BY DEF TreesInit, TreeFlags
<1>2. TreeRest
  BY DEF TreesInit, TreeRest, TreesAssumption, InTree
<1> QED
  BY <1>1, <1>2 DEF TreeFlags, TreeRest, TreesTypeOK

\* Every step keeps the types: a directory that is removed, half made or made
\* anew is one of the three that are told apart, and the lock has one holder.
LEMMA TreesTypeStep ==
  ASSUME TreesAssumption, TreesTypeOK, [TreesNext]_treeVars PROVE TreesTypeOK'
<1> USE DEF GitFails, tree, cleaner, job
<1>1. TreeFlags /\ TreeRest
  BY DEF TreeFlags, TreeRest, TreesTypeOK
<1>2. ASSUME NEW j \in Jobs, JobNext(j) PROVE TreeFlags' /\ TreeRest'
  <2> USE DEF Advance, InTree, TreesAssumption
  <2>1. ASSUME AcquireTree(j) \/ Check(j) \/ Fetch(j) PROVE TreeFlags' /\ TreeRest'
    <3>1. TreeFlags'
      BY <1>1, <2>1 DEF TreeFlags, AcquireTree, Check, Fetch
    <3>2. TreeRest'
      BY <1>1, <2>1 DEF TreeRest, AcquireTree, Check, Fetch
    <3> QED
      BY <3>1, <3>2
  <2>2. ASSUME RemoveOld(j) \/ RemoveFiles(j) \/ Prune(j) PROVE TreeFlags' /\ TreeRest'
    <3>1. TreeFlags'
      BY <1>1, <2>2 DEF TreeFlags, RemoveOld, RemoveTree, RemoveFiles, Prune
    <3>2. dir' \in {"absent", dir}
      BY <2>2 DEF RemoveOld, RemoveTree, RemoveFiles, Prune
    <3>3. /\ \E p \in InTree : tpc' = [tpc EXCEPT ![j] = p]
          /\ refused' \in {refused, refused \cup {j}}
          /\ fails' = fails \/ (fails < MaxFails /\ fails' = fails + 1)
          /\ UNCHANGED <<head, holder, creds, cleaner, pulled>>
      BY <2>2 DEF RemoveOld, RemoveFiles, Prune
    <3>4. TreeRest'
      BY <1>1, <3>2, <3>3 DEF TreeRest
    <3> QED
      BY <3>1, <3>4
  <2>3. ASSUME Add(j) \/ Fallback(j) PROVE TreeFlags' /\ TreeRest'
    <3>1. TreeFlags'
      BY <1>1, <2>3 DEF TreeFlags, Add, Fallback, AddTree
    <3>2. dir' \in {"valid", dir} /\ head' \in {"detached", head}
      BY <2>3 DEF Add, Fallback, AddTree
    <3>3. /\ \E p \in InTree \cup {"failed"} : tpc' = [tpc EXCEPT ![j] = p]
          /\ refused' \in {refused, refused \cup {j}}
          /\ fails' = fails \/ (fails < MaxFails /\ fails' = fails + 1)
          /\ UNCHANGED <<holder, creds, cleaner, pulled>>
      BY <2>3 DEF Add, Fallback, AddTree
    <3>4. TreeRest'
      BY <1>1, <3>2, <3>3 DEF TreeRest
    <3> QED
      BY <3>1, <3>4
  <2>4. ASSUME Configure(j) \/ Work(j) \/ Save(j) \/ JobCleanup(j)
        PROVE  TreeFlags' /\ TreeRest'
    <3>1. TreeFlags'
      BY <1>1, <2>4 DEF TreeFlags, Configure, Work, Save, JobCleanup
    <3>2. TreeRest'
      BY <1>1, <2>4 DEF TreeRest, Configure, Work, Save, JobCleanup
    <3> QED
      BY <3>1, <3>2
  <2> QED
    BY <1>2, <2>1, <2>2, <2>3, <2>4 DEF JobNext
<1>3. ASSUME NEW j \in Jobs, JobDies(j) PROVE TreeFlags' /\ TreeRest'
  <2>1. TreeFlags'
    BY <1>1, <1>3 DEF TreeFlags, JobDies
  <2>2. TreeRest'
    BY <1>1, <1>3 DEF TreeRest, JobDies, InTree, TreesAssumption
  <2> QED
    BY <2>1, <2>2
<1>4. ASSUME CleanupPop \/ Archive \/ BranchTest \/ Close PROVE TreeFlags' /\ TreeRest'
  <2>1. TreeFlags'
    BY <1>1, <1>4 DEF TreeFlags, CleanupPop, Archive, BranchTest, Close
  <2>2. TreeRest'
    BY <1>1, <1>4 DEF TreeRest, CleanupPop, Archive, BranchTest, Close, Go, TreesAssumption
  <2> QED
    BY <2>1, <2>2
<1>5. ASSUME Deregister \/ CleanFiles PROVE TreeFlags' /\ TreeRest'
  <2>1. TreeFlags'
    BY <1>1, <1>5 DEF TreeFlags, Deregister, CleanFiles, RemoveTree
  <2>2. dir' \in {"absent", dir}
    BY <1>5 DEF Deregister, CleanFiles, RemoveTree
  <2>3. pulled' \subseteq Jobs
    BY <1>1, <1>5 DEF TreeRest, Deregister, CleanFiles, Pulled
  <2>4. /\ cpc' \in {"files", "close", "idle"}
        /\ fails' = fails \/ (fails < MaxFails /\ fails' = fails + 1)
        /\ UNCHANGED <<head, holder, tpc, creds, todo, kind, sweeper, refused>>
    BY <1>5 DEF Deregister, CleanFiles, Go
  <2>5. TreeRest'
    BY <1>1, <2>2, <2>3, <2>4 DEF TreeRest, TreesAssumption
  <2> QED
    BY <2>1, <2>5
<1>6. ASSUME LockExpires \/ RecordExpires \/ OrphanLoop PROVE TreeFlags' /\ TreeRest'
  <2>1. TreeFlags'
    BY <1>1, <1>6 DEF TreeFlags, LockExpires, RecordExpires, OrphanLoop
  <2>2. TreeRest'
    BY <1>1, <1>6 DEF TreeRest, LockExpires, RecordExpires, OrphanLoop
  <2> QED
    BY <2>1, <2>2
<1>7. ASSUME UNCHANGED treeVars PROVE TreeFlags' /\ TreeRest'
  BY <1>1, <1>7 DEF treeVars, TreeFlags, TreeRest
<1>8. TreeFlags' /\ TreeRest'
  BY <1>2, <1>3, <1>4, <1>5, <1>6, <1>7 DEF TreesNext, CleanerNext
<1> QED
  BY <1>8 DEF TreeFlags, TreeRest, TreesTypeOK

\* The worktree's model keeps its types.
THEOREM TreesTyped == ASSUME TreesAssumption PROVE TreesSpec => []TreesTypeOK
<1>1. TreesInit => TreesTypeOK
  BY TreesTypeStarts
<1>2. TreesTypeOK /\ [TreesNext]_treeVars => TreesTypeOK'
  BY TreesTypeStep
<1> QED
  BY <1>1, <1>2, PTL DEF TreesSpec

-----------------------------------------------------------------------------
(* SdkTurn.                                                                *)

\* The types that the steps rely on.
TurnTypes ==
  /\ wire \in Seq(Message) /\ inflight \subseteq Tasks /\ settled \subseteq Tasks
  /\ running \subseteq Tasks /\ notices \subseteq Tasks /\ fresh \subseteq Tasks
  /\ cli \in {"boot", "model", "stop", "idle", "gone"}
  /\ outcome \in {"none"} \cup Ended \cup {"raised"}

\* No message before position i has a kind of ks, or tells of task t.
NoneBefore(i, ks) == \A k \in 1 .. i - 1 : wire[k].kind \notin ks
Unsettled(t, i) == \A k \in 1 .. i - 1 : ~(wire[k].kind = "settled" /\ t \in wire[k].task)

\* When the consumer reaches position i, it will count t among the tasks in
\* flight, or among those settled since the last output.
InFlightAt(t, i) ==
  /\ t \in inflight \/ \E k \in 1 .. i - 1 : wire[k].kind = "started" /\ t \in wire[k].task
  /\ Unsettled(t, i)
Clears == {"assistant", "result", "empty", "error"}
SettledAt(t, i) ==
  \/ t \in settled /\ NoneBefore(i, Clears)
  \/ \E k \in 1 .. i - 1 :
       /\ wire[k].kind = "settled" /\ t \in wire[k].task
       /\ \A m \in k + 1 .. i - 1 : wire[m].kind \notin Clears

\* What the CLI has and the parent has not been told of, the consumer will know
\* from the messages under way.
RunningSeen == \A t \in running : InFlightAt(t, Len(wire) + 1)
NoticesSeen ==
  /\ cli = "stop" => spoke
  /\ spoke /\ cli \in {"model", "stop"} => \A t \in notices : SettledAt(t, Len(wire) + 1)

\* A task that was not used yet does not run and is in no message.
FreshUnseen ==
  \A t \in fresh : t \notin running /\ \A i \in 1 .. Len(wire) : t \notin wire[i].task

Quiet == cli = "gone" \/ (cli = "idle" /\ running = {} /\ notices = {})

\* A result under way answers the query, and when the CLI is not quiet the
\* consumer will hold it or pass over it.
ResultsHeld ==
  \A i \in 1 .. Len(wire) :
    wire[i].kind = "result" =>
      /\ answered
      /\ Quiet \/ \E t \in Tasks : InFlightAt(t, i) \/ SettledAt(t, i)

\* Before the query nothing runs and nothing is said: the empty result of
\* orphaned tasks comes before any output.
BootSilent ==
  /\ cli = "boot" =>
       running = {} /\ ~seen /\ \A i \in 1 .. Len(wire) : wire[i].kind # "assistant"
  /\ \A i \in 1 .. Len(wire) :
       wire[i].kind = "empty" => ~seen /\ NoneBefore(i, {"assistant"})

TurnInv ==
  /\ TurnTypes
  /\ Open => RunningSeen /\ NoticesSeen /\ FreshUnseen /\ ResultsHeld /\ BootSilent
  /\ ClosedWhenQuiet

\* A message that is sent.
LEMMA Sent ==
  ASSUME TurnTypes, NEW m \in Message, wire' = Append(wire, m)
  PROVE  /\ Len(wire) \in Nat /\ Len(wire') = Len(wire) + 1 /\ wire' \in Seq(Message)
         /\ \A i \in 1 .. Len(wire) : wire'[i] = wire[i]
         /\ wire'[Len(wire) + 1] = m
  BY AppendProperties DEF TurnTypes

\* A message that is consumed.
LEMMA Consumed ==
  ASSUME TurnTypes, wire # <<>>, wire' = Tail(wire)
  PROVE  /\ Len(wire) \in Nat \ {0} /\ Len(wire') = Len(wire) - 1 /\ wire' \in Seq(Message)
         /\ \A i \in 1 .. Len(wire') : wire'[i] = wire[i + 1]
         /\ Head(wire) = wire[1]
  BY HeadTailProperties DEF TurnTypes

\* What the consumer will know at a position does not change when a message is
\* sent, and at the position after that message it knows what the message says.
LEMMA KnownWhenSent ==
  ASSUME TurnTypes, NEW m \in Message, wire' = Append(wire, m),
         UNCHANGED <<inflight, settled>>, NEW t, NEW n, n = Len(wire) + 1
  PROVE  /\ \A i \in 1 .. n : /\ InFlightAt(t, i) => InFlightAt(t, i)'
                              /\ SettledAt(t, i) => SettledAt(t, i)'
         /\ InFlightAt(t, n) /\ ~(m.kind = "settled" /\ t \in m.task)
               => InFlightAt(t, n + 1)'
         /\ Unsettled(t, n) /\ m.kind = "started" /\ t \in m.task => InFlightAt(t, n + 1)'
         /\ SettledAt(t, n) /\ m.kind \notin Clears => SettledAt(t, n + 1)'
         /\ m.kind = "settled" /\ t \in m.task => SettledAt(t, n + 1)'
<1>1. n \in Nat /\ n >= 1 /\ (\A i \in 1 .. n - 1 : wire'[i] = wire[i]) /\ wire'[n] = m
  BY Sent
<1>2. ASSUME NEW i \in 1 .. n
      PROVE  /\ Unsettled(t, i) => Unsettled(t, i)'
             /\ NoneBefore(i, Clears) => NoneBefore(i, Clears)'
             /\ InFlightAt(t, i) => InFlightAt(t, i)'
             /\ SettledAt(t, i) => SettledAt(t, i)'
  <2>1. \A k \in 1 .. i - 1 : k \in 1 .. n - 1 /\ wire'[k] = wire[k]
    BY <1>1
  <2>2. Unsettled(t, i) => Unsettled(t, i)'
    BY <2>1 DEF Unsettled
  <2>3. NoneBefore(i, Clears) => NoneBefore(i, Clears)'
    BY <2>1 DEF NoneBefore
  <2>4. InFlightAt(t, i) => InFlightAt(t, i)'
    BY <2>1, <2>2 DEF InFlightAt
  <2>5. SettledAt(t, i) => SettledAt(t, i)'
    <3>1. ASSUME NEW k \in 1 .. i - 1, NEW l \in k + 1 .. i - 1 PROVE wire'[l] = wire[l]
      BY <2>1
    <3> QED
      BY <2>1, <2>3, <3>1 DEF SettledAt
  <2> QED
    BY <2>2, <2>3, <2>4, <2>5
<1>3. /\ \A k \in 1 .. n + 1 - 1 : k \in 1 .. n - 1 \/ k = n
      /\ n \in 1 .. n /\ n \in 1 .. n + 1 - 1
      /\ \A k \in 1 .. n - 1 : k \in 1 .. n + 1 - 1
  BY <1>1
<1>4. Unsettled(t, n) /\ ~(m.kind = "settled" /\ t \in m.task) => Unsettled(t, n + 1)'
  BY <1>1, <1>2, <1>3 DEF Unsettled
<1>5. InFlightAt(t, n) /\ ~(m.kind = "settled" /\ t \in m.task) => InFlightAt(t, n + 1)'
  BY <1>1, <1>2, <1>3, <1>4 DEF InFlightAt
<1>6. Unsettled(t, n) /\ m.kind = "started" /\ t \in m.task => InFlightAt(t, n + 1)'
  BY <1>1, <1>3, <1>4 DEF InFlightAt
<1>7. ASSUME SettledAt(t, n), m.kind \notin Clears PROVE SettledAt(t, n + 1)'
  <2>1. CASE t \in settled /\ NoneBefore(n, Clears)
    <3>1. NoneBefore(n, Clears)'
      BY <1>2, <1>3, <2>1
    <3>2. NoneBefore(n + 1, Clears)'
      BY <1>1, <1>3, <1>7, <3>1 DEF NoneBefore
    <3> QED
      BY <2>1, <3>2 DEF SettledAt
  <2>2. ASSUME NEW k \in 1 .. n - 1, wire[k].kind = "settled", t \in wire[k].task,
               \A l \in k + 1 .. n - 1 : wire[l].kind \notin Clears
        PROVE  SettledAt(t, n + 1)'
    <3>1. \A l \in k + 1 .. n + 1 - 1 : (l \in k + 1 .. n - 1 /\ l \in 1 .. n - 1) \/ l = n
      BY <1>1
    <3>2. \A l \in k + 1 .. n + 1 - 1 : wire'[l].kind \notin Clears
      BY <1>1, <1>7, <2>2, <3>1
    <3>3. wire'[k] = wire[k] /\ k \in 1 .. n + 1 - 1
      BY <1>1
    <3> QED
      BY <2>2, <3>2, <3>3 DEF SettledAt
  <2> QED
    BY <1>7, <2>1, <2>2 DEF SettledAt
<1>8. m.kind = "settled" /\ t \in m.task => SettledAt(t, n + 1)'
  <2>1. \A l \in n + 1 .. n + 1 - 1 : FALSE
    BY <1>1
  <2> QED
    BY <1>1, <1>3, <2>1 DEF SettledAt
<1> QED
  BY <1>2, <1>5, <1>6, <1>7, <1>8

\* What the consumer will know at a position does not change when the first
\* message is consumed, and what it says counted.
LEMMA KnownWhenConsumed ==
  ASSUME TurnTypes, wire # <<>>, wire' = Tail(wire), NEW m, m = Head(wire), NEW t,
         m.kind = "started" => inflight' = inflight \cup m.task /\ settled' = settled,
         m.kind = "settled" =>
           inflight' = inflight \ m.task /\ settled' = settled \cup m.task,
         m.kind \notin {"started", "settled"} => inflight' = inflight,
         m.kind \notin Clears \cup {"started", "settled"} => settled' = settled
  PROVE  \A i \in 1 .. Len(wire') + 1 :
           /\ InFlightAt(t, i + 1) => InFlightAt(t, i)'
           /\ SettledAt(t, i + 1) => SettledAt(t, i)'
<1>1. /\ Len(wire) \in Nat \ {0} /\ Len(wire') = Len(wire) - 1
      /\ \A i \in 1 .. Len(wire') : wire'[i] = wire[i + 1]
      /\ m = wire[1]
  BY Consumed
<1> SUFFICES ASSUME NEW i \in 1 .. Len(wire') + 1
             PROVE  /\ InFlightAt(t, i + 1) => InFlightAt(t, i)'
                    /\ SettledAt(t, i + 1) => SettledAt(t, i)'
  OBVIOUS
<1>2. /\ 1 \in 1 .. i + 1 - 1 /\ i \in Nat
      /\ \A k \in 1 .. i - 1 : k + 1 \in 1 .. i + 1 - 1 /\ wire'[k] = wire[k + 1]
      /\ \A k \in 1 .. i + 1 - 1 : k = 1 \/ (k - 1 \in 1 .. i - 1 /\ wire'[k - 1] = wire[k])
  <2>1. /\ i \in Nat /\ i >= 1 /\ 1 \in 1 .. i + 1 - 1
        /\ \A k \in 1 .. i - 1 : k \in 1 .. Len(wire') /\ k + 1 \in 1 .. i + 1 - 1
    BY <1>1
  <2>2. \A k \in 1 .. i - 1 : wire'[k] = wire[k + 1]
    BY <1>1, <2>1
  <2>3. ASSUME NEW k \in 1 .. i + 1 - 1, k # 1
        PROVE  k - 1 \in 1 .. i - 1 /\ wire'[k - 1] = wire[k]
    <3>1. k - 1 \in 1 .. i - 1 /\ k - 1 + 1 = k
      BY <2>1, <2>3
    <3> QED
      BY <2>2, <3>1
  <2> QED
    BY <2>1, <2>2, <2>3
<1>3. Unsettled(t, i + 1) => Unsettled(t, i)' /\ ~(m.kind = "settled" /\ t \in m.task)
  BY <1>1, <1>2 DEF Unsettled
<1>4. InFlightAt(t, i + 1) => InFlightAt(t, i)'
  <2> SUFFICES ASSUME InFlightAt(t, i + 1) PROVE InFlightAt(t, i)'
    OBVIOUS
  <2>1. Unsettled(t, i)' /\ ~(m.kind = "settled" /\ t \in m.task)
    BY <1>3 DEF InFlightAt
  <2>2. CASE t \in inflight
    BY <2>1, <2>2 DEF InFlightAt
  <2>3. ASSUME NEW k \in 1 .. i + 1 - 1, wire[k].kind = "started", t \in wire[k].task
        PROVE  InFlightAt(t, i)'
    BY <1>1, <1>2, <2>1, <2>3 DEF InFlightAt
  <2> QED
    BY <2>2, <2>3 DEF InFlightAt
<1>5. SettledAt(t, i + 1) => SettledAt(t, i)'
  <2> SUFFICES ASSUME SettledAt(t, i + 1) PROVE SettledAt(t, i)'
    OBVIOUS
  <2>1. CASE t \in settled /\ NoneBefore(i + 1, Clears)
    <3>1. m.kind \notin Clears /\ NoneBefore(i, Clears)'
      BY <1>1, <1>2, <2>1 DEF NoneBefore
    <3> QED
      BY <2>1, <3>1 DEF SettledAt
  <2>2. ASSUME NEW k \in 1 .. i + 1 - 1, wire[k].kind = "settled", t \in wire[k].task,
               \A n \in k + 1 .. i + 1 - 1 : wire[n].kind \notin Clears
        PROVE  SettledAt(t, i)'
    <3>1. ASSUME NEW n \in k .. i - 1 PROVE wire'[n].kind \notin Clears
      <4>1. n + 1 \in k + 1 .. i + 1 - 1 /\ n \in 1 .. i - 1
        BY <1>2
      <4> QED
        BY <1>2, <2>2, <4>1
    <3>2. CASE k = 1
      <4>1. NoneBefore(i, Clears)'
        BY <3>1, <3>2 DEF NoneBefore
      <4>2. t \in settled'
        BY <1>1, <2>2, <3>2
      <4> QED
        BY <4>1, <4>2 DEF SettledAt
    <3>3. CASE k # 1
      <4>1. k - 1 \in 1 .. i - 1 /\ wire'[k - 1] = wire[k]
        BY <1>2, <3>3
      <4>2. \A n \in k - 1 + 1 .. i - 1 : wire'[n].kind \notin Clears
        BY <1>2, <3>1
      <4> QED
        BY <2>2, <4>1, <4>2 DEF SettledAt
    <3> QED
      BY <3>2, <3>3
  <2> QED
    BY <2>1, <2>2 DEF SettledAt
<1> QED
  BY <1>4, <1>5

\* The CLI is silent, or sends a message; the consumer does not move.
LEMMA ClientMoves ==
  ASSUME TurnInv, Open, NEW sent \in SUBSET Message,
         \/ sent = {} /\ wire' = wire
         \/ \E m \in Message : sent = {m} /\ wire' = Append(wire, m),
         UNCHANGED <<inflight, settled, seen, outcome>>,
         fresh' \subseteq fresh, running' \subseteq Tasks, notices' \subseteq Tasks,
         cli' \in {"boot", "model", "stop", "idle", "gone"},
         RunningSeen', NoticesSeen',
         \A t \in fresh' : t \notin running' /\ \A m \in sent : t \notin m.task,
         \A m \in sent :
           m.kind = "result" =>
              /\ answered'
              /\ Quiet' \/ running # {} \/ \E t \in notices : spoke /\ cli = "stop",
         Quiet => Quiet', answered => answered',
         cli' = "boot" => cli = "boot" /\ running' = {},
         \A m \in sent : /\ m.kind = "assistant" => cli' # "boot"
                         /\ m.kind = "empty" => cli = "boot"
  PROVE  TurnInv'
<1>1. TurnTypes /\ RunningSeen /\ NoticesSeen /\ FreshUnseen /\ ResultsHeld /\ BootSilent
  BY DEF TurnInv
<1>2. PICK n : n = Len(wire) + 1
  OBVIOUS
<1>3. CASE sent = {} /\ wire' = wire
  <2>1. TurnTypes'
    BY <1>1, <1>3 DEF TurnTypes
  <2>2. FreshUnseen'
    BY <1>1, <1>3 DEF FreshUnseen
  <2>3. ASSUME NEW t, NEW i
        PROVE  /\ InFlightAt(t, i) => InFlightAt(t, i)'
               /\ SettledAt(t, i) => SettledAt(t, i)'
    BY <1>3 DEF InFlightAt, SettledAt, Unsettled, NoneBefore
  <2>4. ResultsHeld'
    BY <1>1, <1>3, <2>3 DEF ResultsHeld
  <2>5. BootSilent'
    BY <1>1, <1>3 DEF BootSilent, NoneBefore
  <2> QED
    BY <2>1, <2>2, <2>4, <2>5 DEF TurnInv, ClosedWhenQuiet, Open
<1>4. ASSUME NEW m \in Message, sent = {m}, wire' = Append(wire, m) PROVE TurnInv'
  <2>1. /\ n \in Nat /\ n >= 1 /\ Len(wire) = n - 1 /\ Len(wire') = n
        /\ wire' \in Seq(Message)
        /\ \A i \in 1 .. n - 1 : wire'[i] = wire[i]
        /\ wire'[n] = m
    BY <1>1, <1>2, <1>4, Sent
  <2>2. \A i \in 1 .. n : i \in 1 .. n - 1 \/ i = n
    BY <2>1
  <2>3. ASSUME NEW t, NEW i \in 1 .. n
        PROVE  /\ InFlightAt(t, i) => InFlightAt(t, i)'
               /\ SettledAt(t, i) => SettledAt(t, i)'
    BY <1>1, <1>2, <1>4, KnownWhenSent
  <2>4. TurnTypes'
    BY <1>1, <2>1 DEF TurnTypes
  <2>5. FreshUnseen'
    BY <1>1, <1>4, <2>1, <2>2 DEF FreshUnseen
  <2>6. ResultsHeld'
    <3> SUFFICES ASSUME NEW i \in 1 .. n, wire'[i].kind = "result"
                 PROVE  /\ answered'
                        /\ Quiet' \/ \E t \in Tasks : InFlightAt(t, i)' \/ SettledAt(t, i)'
      BY <2>1 DEF ResultsHeld
    <3>1. CASE i \in 1 .. n - 1
      BY <1>1, <2>1, <2>3, <3>1 DEF ResultsHeld
    <3>2. CASE i = n
      <4>1. /\ answered'
            /\ Quiet' \/ running # {} \/ \E t \in notices : spoke /\ cli = "stop"
        BY <1>4, <2>1, <3>2
      <4>2. ASSUME NEW t \in running PROVE InFlightAt(t, n)
        BY <1>1, <1>2 DEF RunningSeen
      <4>3. ASSUME NEW t \in notices, spoke, cli = "stop" PROVE SettledAt(t, n)
        BY <1>1, <1>2, <4>3 DEF NoticesSeen
      <4> QED
        BY <1>1, <2>3, <3>2, <4>1, <4>2, <4>3 DEF TurnTypes
    <3> QED
      BY <2>2, <3>1, <3>2
  <2>7. BootSilent'
    <3>1. \A i \in 1 .. n : cli' = "boot" => wire'[i].kind # "assistant"
      BY <1>1, <1>4, <2>1, <2>2 DEF BootSilent
    <3>2. ASSUME NEW i \in 1 .. n, wire'[i].kind = "empty"
          PROVE  ~seen' /\ \A k \in 1 .. i - 1 : wire'[k].kind # "assistant"
      <4>1. \A k \in 1 .. i - 1 : k \in 1 .. n - 1
        BY <2>1
      <4>2. CASE i \in 1 .. n - 1
        BY <1>1, <2>1, <3>2, <4>1, <4>2 DEF BootSilent, NoneBefore
      <4>3. CASE i = n
        BY <1>1, <1>4, <2>1, <3>2, <4>1, <4>3 DEF BootSilent
      <4> QED
        BY <2>2, <4>2, <4>3
    <3>3. cli' = "boot" => ~seen'
      BY <1>1 DEF BootSilent
    <3> QED
      BY <2>1, <3>1, <3>2, <3>3 DEF BootSilent, NoneBefore
  <2> QED
    BY <2>4, <2>5, <2>6, <2>7 DEF TurnInv, ClosedWhenQuiet, Open
<1> QED
  BY <1>3, <1>4

\* The CLI's steps.
LEMMA ClientStep ==
  ASSUME TurnInv,
         \/ \E t \in Tasks : OrphanStops(t) \/ Delegate(t) \/ Settle(t)
         \/ EmptyTurn \/ StartQuery \/ Speak \/ StopHook \/ EndTurn \/ FailTurn \/ Wake
         \/ \E k \in {"transient", "permanent", "end"} : Break(k)
  PROVE  TurnInv'
<1> DEFINE Msg(k, ts) == [kind |-> k, task |-> ts]
<1>1. Open
  BY DEF OrphanStops, Delegate, Settle, EmptyTurn, StartQuery, Speak, StopHook, EndTurn,
         FailTurn, Wake, Break
<1>2. TurnTypes /\ RunningSeen /\ NoticesSeen /\ FreshUnseen /\ ResultsHeld /\ BootSilent
  BY <1>1 DEF TurnInv
<1>3. PICK n : n = Len(wire) + 1
  OBVIOUS
<1>4. ASSUME NEW t, NEW m \in Message, wire' = Append(wire, m),
             UNCHANGED <<inflight, settled>>
      PROVE  /\ n \in Nat /\ Len(wire') + 1 = n + 1
             /\ InFlightAt(t, n) /\ ~(m.kind = "settled" /\ t \in m.task) =>
                  InFlightAt(t, n + 1)'
             /\ Unsettled(t, n) /\ m.kind = "started" /\ t \in m.task
                 => InFlightAt(t, n + 1)'
             /\ SettledAt(t, n) /\ m.kind \notin Clears => SettledAt(t, n + 1)'
             /\ m.kind = "settled" /\ t \in m.task => SettledAt(t, n + 1)'
  BY <1>2, <1>3, <1>4, KnownWhenSent, Sent
<1>5. ASSUME NEW m \in Message, wire' = Append(wire, m), UNCHANGED <<inflight, settled>>,
             \A t \in running' : t \in running /\ ~(m.kind = "settled" /\ t \in m.task)
      PROVE  RunningSeen'
  <2>1. \A t \in running' : InFlightAt(t, n + 1)'
    BY <1>2, <1>3, <1>4, <1>5 DEF RunningSeen
  <2> QED
    BY <1>4, <1>5, <2>1 DEF RunningSeen
<1>6. ASSUME NEW t \in Tasks, OrphanStops(t) PROVE TurnInv'
  <2>1. PICK m \in Message : m = Msg("settled", {t}) /\ wire' = Append(wire, m)
    BY <1>6 DEF OrphanStops, Emit, Message, Kinds
  <2>2. /\ UNCHANGED <<cli, spoke, running, answered, inflight, settled, seen, outcome>>
        /\ cli = "boot" /\ t \in fresh /\ fresh' = fresh \ {t}
        /\ notices' = notices \cup {t}
    BY <1>6 DEF OrphanStops, consumer
  <2>3. RunningSeen' /\ NoticesSeen'
    BY <1>2, <2>2 DEF RunningSeen, NoticesSeen, BootSilent
  <2>4. /\ m.kind = "settled" /\ m.task = {t} /\ {m} \in SUBSET Message
        /\ fresh' \subseteq fresh /\ notices' \subseteq Tasks /\ running' \subseteq Tasks
        /\ cli' \in {"boot", "model", "stop", "idle", "gone"}
    BY <1>2, <2>1, <2>2 DEF TurnTypes
  <2>5. /\ (Quiet => Quiet') /\ (cli' = "boot" => cli = "boot" /\ running' = {})
        /\ \A u \in fresh' : u \notin m.task \cup running'
    BY <1>2, <2>2, <2>4 DEF Quiet, BootSilent, FreshUnseen
  <2> QED
    BY <1>1, <2>1, <2>2, <2>3, <2>4, <2>5, ClientMoves
<1>7. ASSUME NEW t \in Tasks, Delegate(t) PROVE TurnInv'
  <2>1. PICK m \in Message : m = Msg("started", {t}) /\ wire' = Append(wire, m)
    BY <1>7 DEF Delegate, Emit, Message, Kinds
  <2>2. /\ UNCHANGED <<cli, spoke, notices, answered, inflight, settled, seen, outcome>>
        /\ cli = "model" /\ t \in fresh
        /\ fresh' = fresh \ {t} /\ running' = running \cup {t}
    BY <1>7 DEF Delegate, consumer
  <2>3. m.kind = "started" /\ m.task = {t} /\ m.kind \notin Clears
    BY <2>1 DEF Clears
  <2>4. RunningSeen'
    <3>1. Unsettled(t, n)
      BY <1>2, <1>3, <2>2 DEF FreshUnseen, Unsettled, TurnTypes
    <3>2. \A u \in running' : InFlightAt(u, n + 1)'
      BY <1>2, <1>3, <1>4, <2>1, <2>2, <2>3, <3>1 DEF RunningSeen
    <3> QED
      BY <1>4, <2>1, <2>2, <3>2 DEF RunningSeen
  <2>5. NoticesSeen'
    <3>1. spoke => \A u \in notices : SettledAt(u, n + 1)'
      BY <1>2, <1>3, <1>4, <2>1, <2>2, <2>3 DEF NoticesSeen
    <3> QED
      BY <1>4, <2>1, <2>2, <3>1 DEF NoticesSeen
  <2>6. /\ {m} \in SUBSET Message
        /\ fresh' \subseteq fresh /\ notices' \subseteq Tasks /\ running' \subseteq Tasks
        /\ cli' \in {"boot", "model", "stop", "idle", "gone"}
    BY <1>2, <2>2 DEF TurnTypes
  <2>7. /\ Quiet => Quiet'
        /\ cli' # "boot" /\ \A u \in fresh' : u \notin m.task \cup running'
    BY <1>2, <2>2, <2>3 DEF Quiet, FreshUnseen
  <2> QED
    BY <1>1, <2>1, <2>2, <2>3, <2>4, <2>5, <2>6, <2>7, ClientMoves
<1>8. ASSUME NEW t \in Tasks, Settle(t) PROVE TurnInv'
  <2>1. PICK m \in Message : m = Msg("settled", {t}) /\ wire' = Append(wire, m)
    BY <1>8 DEF Settle, Emit, Message, Kinds
  <2>2. /\ UNCHANGED <<cli, spoke, fresh, answered, inflight, settled, seen, outcome>>
        /\ cli \in {"model", "stop", "idle"} /\ t \in running
        /\ running' = running \ {t} /\ notices' = notices \cup {t}
    BY <1>8 DEF Settle, consumer
  <2>3. m.kind = "settled" /\ m.task = {t} /\ m.kind \notin Clears
    BY <2>1 DEF Clears
  <2>4. RunningSeen'
    BY <1>5, <2>1, <2>2, <2>3
  <2>5. NoticesSeen'
    <3>1. spoke /\ cli \in {"model", "stop"} => \A u \in notices' : SettledAt(u, n + 1)'
      BY <1>2, <1>3, <1>4, <2>1, <2>2, <2>3 DEF NoticesSeen
    <3> QED
      BY <1>2, <1>4, <2>1, <2>2, <3>1 DEF NoticesSeen
  <2>6. \A u \in fresh' : u \notin m.task /\ u \notin running'
    BY <1>2, <2>2, <2>3 DEF FreshUnseen
  <2>7. /\ {m} \in SUBSET Message
        /\ fresh' \subseteq fresh /\ notices' \subseteq Tasks /\ running' \subseteq Tasks
        /\ cli' \in {"boot", "model", "stop", "idle", "gone"}
    BY <1>2, <2>2 DEF TurnTypes
  <2>8. (Quiet => Quiet') /\ cli' # "boot"
    BY <2>2 DEF Quiet
  <2> QED
    BY <1>1, <2>1, <2>2, <2>3, <2>4, <2>5, <2>6, <2>7, <2>8, ClientMoves
<1>9. ASSUME NEW m \in Message, wire' = Append(wire, m), m.task = {},
             UNCHANGED <<fresh, inflight, settled, seen, outcome>>,
             running' \subseteq running, notices' \subseteq notices, NoticesSeen',
             cli' \in {"boot", "model", "stop", "idle", "gone"},
             m.kind \in {"result", "empty", "assistant"} => running' = running,
             m.kind = "result" => answered' /\ cli = "stop" /\ spoke /\ cli' = "idle",
             Quiet => Quiet', answered => answered',
             cli' = "boot" => cli = "boot",
             /\ m.kind = "assistant" => cli' # "boot"
             /\ m.kind = "empty" => cli = "boot"
      PROVE  TurnInv'
  <2>1. RunningSeen'
    BY <1>5, <1>9
  <2>2. /\ {m} \in SUBSET Message /\ running' \subseteq Tasks /\ notices' \subseteq Tasks
        /\ \A t \in fresh' : t \notin running' /\ t \notin m.task
        /\ cli' = "boot" => running' = {}
    BY <1>2, <1>9 DEF TurnTypes, FreshUnseen, BootSilent
  <2>3. m.kind = "result" =>
          answered' /\ (Quiet' \/ running # {} \/ \E t \in notices : spoke /\ cli = "stop")
    BY <1>9 DEF Quiet
  <2> QED
    BY <1>1, <1>9, <2>1, <2>2, <2>3, ClientMoves
<1>10. ASSUME wire' = wire,
              UNCHANGED <<fresh, running, answered, inflight, settled, seen, outcome>>,
              notices' \subseteq notices, NoticesSeen',
              cli' \in {"boot", "model", "stop", "idle", "gone"},
              Quiet => Quiet', cli' = "boot" => cli = "boot"
       PROVE  TurnInv'
  <2>1. RunningSeen'
    BY <1>2, <1>10 DEF RunningSeen, InFlightAt, Unsettled
  <2>2. /\ {} \in SUBSET Message /\ running' \subseteq Tasks /\ notices' \subseteq Tasks
        /\ \A t \in fresh' : t \notin running'
        /\ cli' = "boot" => running' = {}
    BY <1>2, <1>10 DEF TurnTypes, FreshUnseen, BootSilent
  <2> QED
    BY <1>1, <1>10, <2>1, <2>2, ClientMoves
<1>11. CASE EmptyTurn
  <2>1. PICK m \in Message : m = Msg("empty", {}) /\ wire' = Append(wire, m)
    BY <1>11 DEF EmptyTurn, Emit, Message, Kinds
  <2>2. NoticesSeen'
    BY <1>11 DEF EmptyTurn, NoticesSeen
  <2> QED
    BY <1>2, <1>9, <1>11, <2>1, <2>2 DEF EmptyTurn, consumer, Quiet, TurnTypes
<1>12. CASE StartQuery
  <2>1. NoticesSeen'
    BY <1>12 DEF StartQuery, NoticesSeen
  <2> QED
    BY <1>10, <1>12, <2>1 DEF StartQuery, consumer, Quiet
<1>13. CASE Speak
  <2>1. PICK m \in Message : m = Msg("assistant", {}) /\ wire' = Append(wire, m)
    BY <1>13 DEF Speak, Emit, Message, Kinds
  <2>2. NoticesSeen'
    BY <1>13 DEF Speak, NoticesSeen
  <2> QED
    BY <1>2, <1>9, <1>13, <2>1, <2>2 DEF Speak, consumer, Quiet, TurnTypes
<1>14. CASE StopHook
  <2>1. NoticesSeen'
    BY <1>2, <1>14 DEF StopHook, consumer, NoticesSeen, SettledAt, NoneBefore
  <2> QED
    BY <1>10, <1>14, <2>1 DEF StopHook, consumer, Quiet
<1>15. CASE EndTurn
  <2>1. PICK m \in Message : m = Msg("result", {}) /\ wire' = Append(wire, m)
    BY <1>15 DEF EndTurn, Emit, Message, Kinds
  <2>2. NoticesSeen'
    BY <1>15 DEF EndTurn, NoticesSeen
  <2> QED
    BY <1>2, <1>9, <1>15, <2>1, <2>2 DEF EndTurn, consumer, Quiet, TurnTypes, NoticesSeen
<1>16. CASE FailTurn
  <2>1. PICK m \in Message : m = Msg("error", {}) /\ wire' = Append(wire, m)
    BY <1>16 DEF FailTurn, Emit, Message, Kinds
  <2>2. NoticesSeen'
    BY <1>16 DEF FailTurn, NoticesSeen
  <2> QED
    BY <1>2, <1>9, <1>16, <2>1, <2>2 DEF FailTurn, consumer, Quiet, TurnTypes
<1>17. CASE Wake
  <2>1. NoticesSeen'
    BY <1>17 DEF Wake, NoticesSeen
  <2> QED
    BY <1>10, <1>17, <2>1 DEF Wake, consumer, Quiet
<1>18. ASSUME NEW k \in {"transient", "permanent", "end"}, Break(k) PROVE TurnInv'
  <2>1. PICK m \in Message : m = Msg(k, {}) /\ wire' = Append(wire, m)
    BY <1>18 DEF Break, Emit, Message, Kinds
  <2>2. NoticesSeen'
    BY <1>18 DEF Break, NoticesSeen
  <2> QED
    BY <1>2, <1>9, <1>18, <2>1, <2>2 DEF Break, consumer, Quiet, TurnTypes
<1> QED
  BY <1>6, <1>7, <1>8, <1>11, <1>12, <1>13, <1>14, <1>15, <1>16, <1>17, <1>18

\* The consumer takes the first message.
LEMMA ConsumeStep == ASSUME TurnInv, Consume PROVE TurnInv'
<1>1. /\ Open /\ wire # <<>> /\ wire' = Tail(wire)
      /\ UNCHANGED <<cli, spoke, fresh, running, notices, answered, try>>
  BY DEF Consume, client
<1>2. TurnTypes /\ RunningSeen /\ NoticesSeen /\ FreshUnseen /\ ResultsHeld /\ BootSilent
  BY <1>1 DEF TurnInv
<1>3. PICK m : m = Head(wire)
  OBVIOUS
<1>4. System(m) \/ Assistant(m) \/ Result(m) \/ StreamEnds(m)
  BY <1>3 DEF Consume
<1>5. PICK n : n = Len(wire)
  OBVIOUS
<1>6. /\ n \in Nat \ {0} /\ Len(wire') = n - 1 /\ wire' \in Seq(Message)
      /\ \A i \in 1 .. n - 1 : wire'[i] = wire[i + 1] /\ i + 1 \in 1 .. n
      /\ m = wire[1] /\ m \in Message
  BY <1>1, <1>2, <1>3, <1>5, Consumed DEF TurnTypes
<1>7. /\ m.kind = "started" => inflight' = inflight \cup m.task /\ settled' = settled
      /\ m.kind = "settled"
         => inflight' = inflight \ m.task /\ settled' = settled \cup m.task
      /\ m.kind \notin {"started", "settled"} => inflight' = inflight
      /\ m.kind \notin Clears \cup {"started", "settled"} => settled' = settled
  BY <1>4 DEF System, TrackTask, Assistant, Result, StreamEnds, Clears
<1>8. TurnTypes'
  <2>1. m.task \subseteq Tasks
    BY <1>6 DEF Message
  <2>2. outcome' \in {"none"} \cup Ended \cup {"raised"}
    BY <1>2, <1>4 DEF TurnTypes, System, TrackTask, Assistant, Result, StreamEnds, Ended
  <2>3. inflight' \subseteq Tasks /\ settled' \subseteq Tasks
    BY <1>2, <1>4, <2>1 DEF TurnTypes, System, TrackTask, Assistant, Result, StreamEnds
  <2> QED
    BY <1>1, <1>2, <1>6, <2>2, <2>3 DEF TurnTypes
<1>9. ASSUME NEW t, NEW i \in 1 .. n
      PROVE  /\ InFlightAt(t, i + 1) => InFlightAt(t, i)'
             /\ SettledAt(t, i + 1) => SettledAt(t, i)'
  <2>1. i \in 1 .. Len(wire') + 1
    BY <1>6
  <2> QED
    BY <1>1, <1>2, <1>3, <1>7, <2>1, KnownWhenConsumed
<1>10. n \in 1 .. n /\ Len(wire') + 1 = n /\ Len(wire) + 1 = n + 1
  BY <1>5, <1>6
<1>11. RunningSeen' /\ NoticesSeen'
  <2>1. \A t \in running : InFlightAt(t, n)'
    BY <1>2, <1>9, <1>10 DEF RunningSeen
  <2>2. spoke /\ cli \in {"model", "stop"} => \A t \in notices : SettledAt(t, n)'
    BY <1>2, <1>9, <1>10 DEF NoticesSeen
  <2> QED
    BY <1>1, <1>2, <1>10, <2>1, <2>2 DEF RunningSeen, NoticesSeen
<1>12. FreshUnseen'
  BY <1>1, <1>2, <1>5, <1>6 DEF FreshUnseen
<1>13. ResultsHeld'
  <2>1. ASSUME NEW i \in 1 .. n - 1, wire'[i].kind = "result"
        PROVE  answered /\ (Quiet \/ \E t \in Tasks : InFlightAt(t, i)' \/ SettledAt(t, i)')
    BY <1>2, <1>5, <1>6, <1>9, <2>1 DEF ResultsHeld
  <2> QED
    BY <1>1, <1>6, <2>1 DEF ResultsHeld, Quiet
<1>14. BootSilent'
  <2>1. m.kind # "assistant" => seen' = seen
    BY <1>4 DEF System, TrackTask, Result, StreamEnds, Assistant
  <2>2. \A i \in 1 .. n - 1 : \A k \in 1 .. i - 1 :
          k + 1 \in 1 .. i + 1 - 1 /\ k \in 1 .. n - 1
    BY <1>6
  <2>3. ASSUME NEW i \in 1 .. n - 1, wire'[i].kind = "empty"
        PROVE  ~seen' /\ \A k \in 1 .. i - 1 : wire'[k].kind # "assistant"
    <3>1. 1 \in 1 .. i + 1 - 1
      BY <1>6
    <3>2. ~seen /\ \A k \in 1 .. i + 1 - 1 : wire[k].kind # "assistant"
      BY <1>2, <1>5, <1>6, <2>3 DEF BootSilent, NoneBefore
    <3>3. ~seen'
      BY <1>6, <2>1, <3>1, <3>2
    <3> QED
      BY <1>6, <2>2, <3>2, <3>3
  <2>4. cli = "boot" =>
          running = {} /\ ~seen' /\ \A i \in 1 .. n - 1 : wire'[i].kind # "assistant"
    <3>1. 1 \in 1 .. n
      BY <1>6
    <3> QED
      BY <1>2, <1>5, <1>6, <2>1, <3>1 DEF BootSilent
  <2> QED
    BY <1>1, <1>6, <2>3, <2>4 DEF BootSilent, NoneBefore
<1>15. ClosedWhenQuiet'
  <2> SUFFICES ASSUME outcome' = "result" PROVE answered /\ Quiet
    BY <1>1 DEF ClosedWhenQuiet, Quiet
  <2>1. /\ m.kind \in {"result", "empty"} /\ inflight = {} /\ settled = {}
        /\ ~(m.kind = "empty" /\ ~seen)
    BY <1>1, <1>4 DEF Open, System, TrackTask, Assistant, Result, StreamEnds
  <2>2. 1 \in 1 .. n /\ (\A k \in 1 .. 1 - 1 : FALSE)
    BY <1>6
  <2>3. m.kind = "result"
    BY <1>2, <1>5, <1>6, <2>1, <2>2 DEF BootSilent
  <2>4. \A t \in Tasks : ~InFlightAt(t, 1) /\ ~SettledAt(t, 1)
    BY <2>1, <2>2 DEF InFlightAt, SettledAt
  <2> QED
    BY <1>2, <1>5, <1>6, <2>2, <2>3, <2>4 DEF ResultsHeld
<1> QED
  BY <1>8, <1>11, <1>12, <1>13, <1>14, <1>15 DEF TurnInv

LEMMA TurnStarts == ASSUME TurnInit PROVE TurnInv
<1>1. wire = <<>> /\ Len(wire) = 0 /\ wire \in Seq(Message)
  BY DEF TurnInit
<1>2. \A i \in 1 .. Len(wire) : FALSE
  BY <1>1
<1> QED
  BY <1>1, <1>2
     DEF TurnInit, TurnInv, TurnTypes, RunningSeen, NoticesSeen, FreshUnseen, ResultsHeld,
         BootSilent, ClosedWhenQuiet

LEMMA TurnStep == ASSUME TurnInv, [TurnNext]_turnVars PROVE TurnInv'
<1>1. CASE Grace \/ SdkTimeout \/ Raise
  BY <1>1
     DEF Grace, SdkTimeout, Raise, client, Open, TurnInv, TurnTypes, Ended,
         ClosedWhenQuiet
<1>2. CASE Retry
  <2>1. wire' = <<>> /\ Len(wire') = 0 /\ wire' \in Seq(Message)
    BY <1>2 DEF Retry
  <2>2. \A i \in 1 .. Len(wire') : FALSE
    BY <2>1
  <2> QED
    BY <1>2, <2>1, <2>2
       DEF Retry, TurnInv, TurnTypes, RunningSeen, NoticesSeen, FreshUnseen, ResultsHeld,
           BootSilent, ClosedWhenQuiet
<1>3. CASE UNCHANGED turnVars
  BY <1>3
     DEF turnVars, TurnInv, TurnTypes, Open, RunningSeen, NoticesSeen, FreshUnseen,
         ResultsHeld, BootSilent, ClosedWhenQuiet, InFlightAt, SettledAt, Unsettled,
         NoneBefore, Quiet
<1> QED
  BY <1>1, <1>2, <1>3, ClientStep, ConsumeStep DEF TurnNext

\* A run is closed on a result only when the query was answered, no delegated
\* task runs and the CLI owes no turn, however its messages and the consumer's
\* reading interleave, and in whatever order tasks start and settle.
THEOREM ResultClosesQuiet == TurnSpec => []ClosedWhenQuiet
<1>1. TurnInit => TurnInv
  BY TurnStarts
<1>2. TurnInv /\ [TurnNext]_turnVars => TurnInv'
  BY TurnStep
<1>3. TurnInv => ClosedWhenQuiet
  BY DEF TurnInv
<1> QED
  BY <1>1, <1>2, <1>3, PTL DEF TurnSpec

\* The types that the proof above does not need.
TurnFlags ==
  spoke \in BOOLEAN /\ answered \in BOOLEAN /\ seen \in BOOLEAN /\ pending \in BOOLEAN
Tried == try \in 1 .. MaxTries

TurnTypeInv == TurnInv /\ TurnFlags /\ Tried

LEMMA TurnTypesHold == ASSUME TurnTypeInv PROVE TurnTypeOK
  BY DEF TurnTypeInv, TurnInv, TurnTypes, TurnFlags, Tried, TurnTypeOK

LEMMA TurnTypeStarts == ASSUME TurnAssumption, TurnInit PROVE TurnTypeInv
<1>1. TurnFlags
  BY DEF TurnInit, TurnFlags
<1>2. Tried
  BY DEF TurnInit, Tried, TurnAssumption
<1> QED
  BY <1>1, <1>2, TurnStarts DEF TurnTypeInv

LEMMA TurnTypeStep ==
  ASSUME TurnAssumption, TurnTypeInv, [TurnNext]_turnVars PROVE TurnTypeInv'
<1>1. TurnInv' /\ TurnFlags /\ Tried
  BY TurnStep DEF TurnTypeInv
<1>2. ASSUME \/ \E t \in Tasks : OrphanStops(t) \/ Delegate(t) \/ Settle(t)
             \/ EmptyTurn \/ StartQuery \/ Speak \/ StopHook \/ EndTurn \/ FailTurn \/ Wake
             \/ \E k \in {"transient", "permanent", "end"} : Break(k)
      PROVE  TurnFlags' /\ Tried'
  <2>1. UNCHANGED <<seen, pending, try>>
    BY <1>2 DEF OrphanStops, Delegate, Settle, EmptyTurn, StartQuery, Speak, StopHook, EndTurn,
                FailTurn, Wake, Break, consumer
  <2>2. spoke' \in {spoke, TRUE, FALSE} /\ answered' \in {answered, TRUE}
    BY <1>2 DEF OrphanStops, Delegate, Settle, EmptyTurn, StartQuery, Speak, StopHook, EndTurn,
                FailTurn, Wake, Break
  <2> QED
    BY <1>1, <2>1, <2>2 DEF TurnFlags, Tried
<1>3. ASSUME Consume \/ Grace \/ SdkTimeout \/ Raise PROVE TurnFlags' /\ Tried'
  <2>1. UNCHANGED <<spoke, answered, try>>
    BY <1>3 DEF Consume, Grace, SdkTimeout, Raise, client
  <2>2. seen' \in {seen, TRUE} /\ pending' \in {pending, TRUE, FALSE}
    BY <1>3 DEF Consume, Grace, SdkTimeout, Raise, System, Assistant, Result, StreamEnds
  <2> QED
    BY <1>1, <2>1, <2>2 DEF TurnFlags, Tried
<1>4. ASSUME Retry PROVE TurnFlags' /\ Tried'
  <2>1. TurnFlags'
    BY <1>4 DEF Retry, TurnFlags
  <2>2. Tried'
    BY <1>1, <1>4 DEF Retry, Tried, TurnAssumption
  <2> QED
    BY <2>1, <2>2
<1>5. ASSUME UNCHANGED turnVars PROVE TurnFlags' /\ Tried'
  BY <1>1, <1>5 DEF TurnFlags, Tried, turnVars
<1>6. TurnFlags' /\ Tried'
  BY <1>2, <1>3, <1>4, <1>5 DEF TurnNext
<1> QED
  BY <1>1, <1>6 DEF TurnTypeInv

\* A run keeps its types: it makes at most MaxTries attempts at the query, and
\* its messages and its tasks are those of the attempt under way.
THEOREM TurnTyped == ASSUME TurnAssumption PROVE TurnSpec => []TurnTypeOK
<1>1. TurnInit => TurnTypeInv
  BY TurnTypeStarts
<1>2. TurnTypeInv /\ [TurnNext]_turnVars => TurnTypeInv'
  BY TurnTypeStep
<1>3. TurnTypeInv => TurnTypeOK
  BY TurnTypesHold
<1> QED
  BY <1>1, <1>2, <1>3, PTL DEF TurnSpec

-----------------------------------------------------------------------------
(* BackgroundWorkers.                                                      *)

\* What waits for a worker, and what is in its dead letters.
Waiting(w) ==
  {m \in WorkerMessages : m.w = w /\ m.attempts < MaxJobRetries}
Dead(w) == {m \in WorkerMessages : m.w = w}

\* The types that the steps rely on.
WorkTypes ==
  /\ buffer \in Seq(Entries) /\ flushing \in Seq(Entries)
  /\ fired \in 0 .. MaxHooks /\ latest \in [Keys -> 0 .. MaxHooks]
  /\ list = [w \in Workers |-> list[w]] /\ dlq = [w \in Workers |-> dlq[w]]
  /\ hand = [w \in Workers |-> hand[w]]
  /\ \A w \in Workers : /\ list[w] \in Seq(Waiting(w)) /\ dlq[w] \subseteq Dead(w)
                        /\ IsFiniteSet(dlq[w]) /\ hand[w] \in Waiting(w) \cup {<<>>}
  /\ wpc \in [Workers -> {"poll", "work", "term", "exited"}]
  /\ over \subseteq Entries /\ lost \subseteq Entries /\ faults \in Nat

\* A worker has a message in its hand while it works on it.
HandFull == \A w \in Workers : wpc[w] = "work" <=> hand[w] # <<>>

\* Only a fault makes a worker, or a push, lose a job.
LostByFault == (lost # {} => faults > 0) /\ \A w \in Workers : wpc[w] = "term" => faults > 0

\* Until the flush the jobs are in the buffer only.
NothingOut ==
  session = "open" =>
    /\ flushing = <<>> /\ over = {} /\ lost = {}
    /\ \A w \in Workers : list[w] = <<>> /\ dlq[w] = {} /\ hand[w] = <<>>

\* The last job in the buffer for a worker and a key is of the last firing, and
\* a job that has one of the same worker and key before it has a first one.
Buffered ==
  session = "open" =>
    /\ \A i \in DOMAIN buffer : latest[buffer[i].key] > 0
    /\ \A k \in Keys : \A w \in Workers :
         latest[k] > 0 =>
           \E i \in DOMAIN buffer :
             /\ buffer[i] = [w |-> w, key |-> k, n |-> latest[k]]
             /\ \A j \in i + 1 .. Len(buffer) : ~SameJob(buffer[i], buffer[j])
    /\ \A i \in DOMAIN buffer : \E j \in Firsts(buffer) : SameJob(buffer[i], buffer[j])
    /\ \A k \in Keys : latest[k] <= fired

WorkInv == WorkTypes /\ HandFull /\ LostByFault /\ NothingOut /\ Buffered /\ JobAccounted

\* How many elements of a sequence are in a set.
Count(s, P) == Cardinality({i \in DOMAIN s : s[i] \in P})

\* Appending and taking an element changes the count by that element.
LEMMA CountAppend ==
  ASSUME NEW S, NEW s \in Seq(S), NEW x \in S, NEW P
  PROVE  /\ Count(s, P) \in Nat
         /\ Count(Append(s, x), P) = Count(s, P) + (IF x \in P THEN 1 ELSE 0)
<1> DEFINE A == {i \in DOMAIN s : s[i] \in P}
           B == {i \in DOMAIN Append(s, x) : Append(s, x)[i] \in P}
<1>1. PICK n \in Nat : n = Len(s) /\ DOMAIN s = 1 .. n
  OBVIOUS
<1>2. /\ DOMAIN Append(s, x) = 1 .. n + 1 /\ Append(s, x)[n + 1] = x
      /\ \A i \in 1 .. n : Append(s, x)[i] = s[i]
  BY <1>1, AppendProperties
<1>3. IsFiniteSet(A) /\ n + 1 \notin A
  <2>1. IsFiniteSet(1 .. n) /\ A \in SUBSET (1 .. n)
    BY <1>1, FS_Interval
  <2> QED
    BY <2>1, FS_Subset
<1>4. B = IF x \in P THEN A \cup {n + 1} ELSE A
  BY <1>1, <1>2
<1> HIDE DEF A, B
<1>5. Cardinality(A) \in Nat
  BY <1>3, FS_CardinalityType
<1>6. Cardinality(B) = Cardinality(A) + (IF x \in P THEN 1 ELSE 0)
  <2>1. Cardinality(A \cup {n + 1}) = Cardinality(A) + 1
    BY <1>3, FS_AddElement
  <2>2. CASE x \in P
    BY <1>4, <2>1, <2>2
  <2>3. CASE x \notin P
    BY <1>4, <1>5, <2>3
  <2> QED
    BY <2>2, <2>3
<1> QED
  BY <1>5, <1>6 DEF A, B, Count

\* Without its first element a sequence counts one less, if that one counts.
LEMMA CountTail ==
  ASSUME NEW S, NEW s \in Seq(S), s # <<>>, NEW P
  PROVE  /\ Count(Tail(s), P) \in Nat
         /\ Count(s, P) = Count(Tail(s), P) + (IF Head(s) \in P THEN 1 ELSE 0)
<1> DEFINE A == {i \in DOMAIN s : s[i] \in P}
           B == {i \in DOMAIN Tail(s) : Tail(s)[i] \in P}
           f == [i \in B |-> i + 1]
<1>1. PICK n \in Nat \ {0} : n = Len(s) /\ DOMAIN s = 1 .. n
  BY EmptySeq
<1>2. /\ DOMAIN Tail(s) = 1 .. n - 1 /\ \A i \in 1 .. n - 1 : Tail(s)[i] = s[i + 1]
      /\ Head(s) = s[1]
  BY <1>1, HeadTailProperties
<1>3. IsFiniteSet(B)
  <2>1. IsFiniteSet(1 .. n - 1)
    BY <1>1, FS_Interval
  <2>2. B \in SUBSET (1 .. n - 1)
    BY <1>2
  <2> QED
    BY <2>1, <2>2, FS_Subset
<1>4. \A i \in B : i \in Nat /\ i + 1 \in A \ {1}
  BY <1>1, <1>2
<1>5. \A i \in A \ {1} : i - 1 \in B /\ i = i - 1 + 1
  BY <1>1, <1>2
<1>6. 1 \in A <=> Head(s) \in P
  BY <1>1, <1>2
<1> HIDE DEF A, B
<1>7. f \in Bijection(B, A \ {1})
  <2>1. f \in [B -> A \ {1}]
    BY <1>4
  <2>2. \A i, j \in B : f[i] = f[j] => i = j
    BY <1>4
  <2>3. \A j \in A \ {1} : \E i \in B : f[i] = j
    BY <1>5
  <2> QED
    BY <2>1, <2>2, <2>3 DEF Bijection, Injection, Surjection, IsInjective
<1>8. IsFiniteSet(A \ {1}) /\ Cardinality(A \ {1}) = Cardinality(B)
  BY <1>3, <1>7, FS_Bijection DEF ExistsBijection
<1>9. Cardinality(B) \in Nat
  BY <1>3, FS_CardinalityType
<1>10. A = (A \ {1}) \cup IF Head(s) \in P THEN {1} ELSE {}
  BY <1>6
<1>11. Cardinality(A) = Cardinality(B) + (IF Head(s) \in P THEN 1 ELSE 0)
  <2>1. Cardinality((A \ {1}) \cup {1}) = Cardinality(A \ {1}) + 1
    BY <1>8, FS_AddElement
  <2>2. CASE Head(s) \in P
    BY <1>8, <1>10, <2>1, <2>2
  <2>3. CASE Head(s) \notin P
    <3>1. A = A \ {1}
      BY <1>10, <2>3
    <3>2. Cardinality(A) = Cardinality(A \ {1})
      BY <3>1
    <3>3. Cardinality(A) = Cardinality(B) + 0
      BY <1>8, <1>9, <3>2
    <3> QED
      BY <2>3, <3>3
  <2> QED
    BY <2>2, <2>3
<1> QED
  BY <1>9, <1>11 DEF A, B, Count

\* One for the job that moves, nothing for any other.
One(e, x) == IF e = x THEN 1 ELSE 0

\* The places a job can be in are counted by natural numbers.
LEMMA PlacesCounted ==
  ASSUME WorkTypes, NEW e \in Entries
  PROVE  /\ InFlush(e) \in Nat /\ InList(e) \in Nat /\ InDead(e) \in Nat
         /\ InHand(e) \in Nat /\ Gone(e) \in Nat
<1> DEFINE w == e.w
<1>1. w \in Workers
  BY DEF Entries
<1>2. InFlush(e) \in Nat
  <2> DEFINE A == {i \in DOMAIN flushing : flushing[i] = e}
  <2>1. PICK n \in Nat : n = Len(flushing) /\ DOMAIN flushing = 1 .. n
    <3>1. flushing \in Seq(Entries)
      BY DEF WorkTypes
    <3> QED
      BY <3>1
  <2>2. IsFiniteSet(1 .. n) /\ A \in SUBSET (1 .. n)
    BY <2>1, FS_Interval
  <2>3. InFlush(e) = Cardinality(A)
    BY DEF InFlush
  <2> HIDE DEF A
  <2>4. IsFiniteSet(A)
    BY <2>2, FS_Subset
  <2> QED
    BY <2>3, <2>4, FS_CardinalityType
<1>3. InList(e) \in Nat
  <2> DEFINE A == {i \in DOMAIN list[w] : Entry(list[w][i]) = e}
  <2>1. PICK n \in Nat : n = Len(list[w]) /\ DOMAIN list[w] = 1 .. n
    <3>1. list[w] \in Seq(Waiting(w))
      BY <1>1 DEF WorkTypes
    <3> QED
      BY <3>1
  <2>2. IsFiniteSet(1 .. n) /\ A \in SUBSET (1 .. n)
    BY <2>1, FS_Interval
  <2>3. InList(e) = Cardinality(A)
    BY DEF InList
  <2> HIDE DEF A
  <2>4. IsFiniteSet(A)
    BY <2>2, FS_Subset
  <2> QED
    BY <2>3, <2>4, FS_CardinalityType
<1>4. InDead(e) \in Nat
  <2> DEFINE A == {m \in dlq[w] : Entry(m) = e}
  <2>1. IsFiniteSet(dlq[w]) /\ A \in SUBSET dlq[w]
    BY <1>1 DEF WorkTypes
  <2>2. InDead(e) = Cardinality(A)
    BY DEF InDead
  <2> HIDE DEF A
  <2>3. IsFiniteSet(A)
    BY <2>1, FS_Subset
  <2> QED
    BY <2>2, <2>3, FS_CardinalityType
<1> QED
  BY <1>2, <1>3, <1>4 DEF InHand, Gone

\* The flush takes the next job.
LEMMA FlushTakes ==
  ASSUME WorkTypes, flushing # <<>>, flushing' = Tail(flushing), NEW e \in Entries
  PROVE  InFlush(e) = InFlush(e)' + One(e, Head(flushing)) /\ InFlush(e)' \in Nat
<1>1. flushing \in Seq(Entries)
  BY DEF WorkTypes
<1>2. /\ Count(Tail(flushing), {e}) \in Nat
      /\ Count(flushing, {e})
           = Count(Tail(flushing), {e}) + (IF Head(flushing) \in {e} THEN 1 ELSE 0)
  BY <1>1, CountTail
<1>3. InFlush(e) = Count(flushing, {e})
  BY DEF InFlush, Count
<1>4. InFlush(e)' = Count(Tail(flushing), {e})
  BY DEF InFlush, Count
<1>5. (IF Head(flushing) \in {e} THEN 1 ELSE 0) = One(e, Head(flushing))
  BY DEF One
<1> QED
  BY <1>2, <1>3, <1>4, <1>5

\* How many messages of a list are about a job.
Mentions(s, e) == Cardinality({i \in DOMAIN s : Entry(s[i]) = e})

\* They are counted by the set of the messages that are about that job.
LEMMA ListCounts ==
  ASSUME NEW w \in Workers, NEW s \in Seq(Waiting(w)), NEW e
  PROVE  Mentions(s, e) = Count(s, {m \in Waiting(w) : Entry(m) = e})
<1>1. \A i \in DOMAIN s : s[i] \in Waiting(w)
  OBVIOUS
<1> DEFINE P == {m \in Waiting(w) : Entry(m) = e}
<1>2. {i \in DOMAIN s : Entry(s[i]) = e} = {i \in DOMAIN s : s[i] \in P}
  BY <1>1
<1> QED
  BY <1>2 DEF Count, Mentions

\* A message is appended to a worker's list.
LEMMA ListGains ==
  ASSUME WorkTypes, NEW w \in Workers, NEW m \in Waiting(w),
         list' = [list EXCEPT ![w] = Append(@, m)], NEW e \in Entries
  PROVE  InList(e)' = InList(e) + One(e, Entry(m))
<1> DEFINE P == {x \in Waiting(w) : Entry(x) = e}
<1>1. list[w] \in Seq(Waiting(w)) /\ list'[w] = Append(list[w], m)
      /\ Append(list[w], m) \in Seq(Waiting(w))
      /\ \A v \in Workers \ {w} : list'[v] = list[v]
  BY AppendProperties DEF WorkTypes
<1>2. e.w \in Workers /\ Entry(m).w = w
  BY DEF Entries, Entry, Waiting
<1>3. CASE e.w = w
  <2>1. InList(e) = Count(list[w], P) /\ InList(e)' = Count(Append(list[w], m), P)
    <3>1. InList(e) = Mentions(list[w], e) /\ InList(e)' = Mentions(list'[w], e)
      BY <1>3 DEF InList, Mentions
    <3> QED
      BY <1>1, <3>1, ListCounts
  <2>2. Count(Append(list[w], m), P) = Count(list[w], P) + (IF m \in P THEN 1 ELSE 0)
    BY <1>1, CountAppend
  <2>3. (IF m \in P THEN 1 ELSE 0) = One(e, Entry(m))
    BY DEF One
  <2> QED
    BY <2>1, <2>2, <2>3
<1>4. CASE e.w # w
  <2>1. InList(e)' = InList(e) /\ InList(e) \in Nat
    BY <1>1, <1>2, <1>4, PlacesCounted DEF InList
  <2>2. One(e, Entry(m)) = 0
    BY <1>2, <1>4 DEF One
  <2> QED
    BY <2>1, <2>2
<1> QED
  BY <1>3, <1>4

\* A worker's list loses its first message.
LEMMA ListLoses ==
  ASSUME WorkTypes, NEW w \in Workers, list[w] # <<>>, Pop(w), NEW e \in Entries
  PROVE  InList(e) = InList(e)' + One(e, Entry(Head(list[w]))) /\ InList(e)' \in Nat
<1> DEFINE P == {x \in Waiting(w) : Entry(x) = e}
           m == Head(list[w])
<1>1. list[w] \in Seq(Waiting(w)) /\ list'[w] = Tail(list[w]) /\ m \in Waiting(w)
      /\ Tail(list[w]) \in Seq(Waiting(w)) /\ \A v \in Workers \ {w} : list'[v] = list[v]
  BY HeadTailProperties DEF WorkTypes, Pop
<1>2. e.w \in Workers /\ Entry(m).w = w
  BY <1>1 DEF Entries, Entry, Waiting
<1>3. CASE e.w = w
  <2>1. InList(e) = Count(list[w], P) /\ InList(e)' = Count(Tail(list[w]), P)
    <3>1. InList(e) = Mentions(list[w], e) /\ InList(e)' = Mentions(list'[w], e)
      BY <1>3 DEF InList, Mentions
    <3> QED
      BY <1>1, <3>1, ListCounts
  <2>2. /\ Count(Tail(list[w]), P) \in Nat
        /\ Count(list[w], P) = Count(Tail(list[w]), P) + (IF m \in P THEN 1 ELSE 0)
    BY <1>1, CountTail
  <2>3. (IF m \in P THEN 1 ELSE 0) = One(e, Entry(m))
    BY <1>1 DEF One
  <2> QED
    BY <2>1, <2>2, <2>3
<1>4. CASE e.w # w
  <2>1. InList(e)' = InList(e) /\ InList(e) \in Nat
    BY <1>1, <1>2, <1>4, PlacesCounted DEF InList
  <2>2. One(e, Entry(m)) = 0
    BY <1>2, <1>4 DEF One
  <2> QED
    BY <2>1, <2>2
<1> QED
  BY <1>3, <1>4

\* A message joins a worker's dead letters.
LEMMA DeadGain ==
  ASSUME WorkTypes, NEW w \in Workers, NEW m \in Dead(w), m \notin dlq[w],
         dlq' = [dlq EXCEPT ![w] = @ \cup {m}], NEW e \in Entries
  PROVE  InDead(e)' = InDead(e) + One(e, Entry(m))
<1> DEFINE A == {x \in dlq[w] : Entry(x) = e}
<1>1. dlq'[w] = dlq[w] \cup {m} /\ \A v \in Workers \ {w} : dlq'[v] = dlq[v]
  BY DEF WorkTypes
<1>2. e.w \in Workers /\ Entry(m).w = w
  BY DEF Entries, Entry, Dead
<1>3. CASE e = Entry(m)
  <2>1. IsFiniteSet(A) /\ m \notin A
    <3>1. IsFiniteSet(dlq[w]) /\ A \in SUBSET dlq[w]
      BY DEF WorkTypes
    <3> QED
      BY <3>1, FS_Subset
  <2>2. {x \in dlq[w] \cup {m} : Entry(x) = e} = A \cup {m}
    BY <1>3
  <2>3. InDead(e) = Cardinality(A) /\ InDead(e)' = Cardinality(A \cup {m})
    BY <1>1, <1>2, <1>3, <2>2 DEF InDead
  <2> QED
    BY <1>3, <2>1, <2>3, FS_AddElement DEF One
<1>4. CASE e # Entry(m)
  <2>1. InDead(e)' = InDead(e) /\ InDead(e) \in Nat
    <3>1. CASE e.w = w
      <4>1. {x \in dlq[w] \cup {m} : Entry(x) = e} = A
        BY <1>4
      <4> QED
        BY <1>1, <3>1, <4>1, PlacesCounted DEF InDead
    <3>2. CASE e.w # w
      BY <1>1, <1>2, <3>2, PlacesCounted DEF InDead
    <3> QED
      BY <3>1, <3>2
  <2> QED
    BY <1>4, <2>1 DEF One
<1> QED
  BY <1>3, <1>4

\* A worker takes a message into its hand, or lets go of it.
LEMMA HandMoves ==
  ASSUME WorkTypes, NEW w \in Workers, NEW e \in Entries
  PROVE  /\ \A m \in Waiting(w) :
              hand[w] = <<>> /\ hand' = [hand EXCEPT ![w] = m]
                => InHand(e)' = InHand(e) + One(e, Entry(m))
         /\ hand[w] # <<>> /\ Emptied(w) => InHand(e) = InHand(e)' + One(e, Entry(hand[w]))
<1>1. e.w \in Workers /\ \A v \in Workers : hand[v] \in Waiting(v) \cup {<<>>}
  BY DEF Entries, WorkTypes
<1>2. \A m \in Waiting(w) : Entry(m).w = w /\ m # <<>>
  <2>1. \A m \in Waiting(w) : Entry(m).w = w /\ "w" \in DOMAIN m
    BY DEF Entry, Waiting, WorkerMessages
  <2>2. DOMAIN <<>> = {}
    OBVIOUS
  <2> QED
    BY <2>1, <2>2
<1>3. \A m : hand' = [hand EXCEPT ![w] = m]
               => hand'[w] = m /\ \A v \in Workers \ {w} : hand'[v] = hand[v]
  BY DEF WorkTypes
<1>4. ASSUME NEW m \in Waiting(w), hand[w] = <<>>, hand' = [hand EXCEPT ![w] = m]
      PROVE  InHand(e)' = InHand(e) + One(e, Entry(m))
  <2>1. hand'[w] = m /\ \A v \in Workers \ {w} : hand'[v] = hand[v]
    BY <1>3, <1>4
  <2>2. CASE e.w = w
    <3>1. hand[e.w] = <<>> /\ hand'[e.w] # <<>> /\ hand'[e.w] = m
      BY <1>2, <1>4, <2>1, <2>2
    <3>2. InHand(e) = 0
      BY <3>1 DEF InHand
    <3>3. InHand(e)' = One(e, Entry(m))
      BY <3>1 DEF InHand, One
    <3>4. One(e, Entry(m)) \in Nat
      BY DEF One
    <3> QED
      BY <3>2, <3>3, <3>4
  <2>3. CASE e.w # w
    BY <1>1, <1>2, <2>1, <2>3 DEF InHand, One
  <2> QED
    BY <2>2, <2>3
<1>5. ASSUME hand[w] # <<>>, Emptied(w)
      PROVE  InHand(e) = InHand(e)' + One(e, Entry(hand[w]))
  <2>1. hand[w] \in Waiting(w)
    BY <1>1, <1>5
  <2>2. hand'[w] = <<>> /\ \A v \in Workers \ {w} : hand'[v] = hand[v]
    BY <1>3, <1>5 DEF Emptied
  <2>3. CASE e.w = w
    BY <1>5, <2>2, <2>3 DEF InHand, One
  <2>4. CASE e.w # w
    BY <1>1, <1>2, <2>1, <2>2, <2>4 DEF InHand, One
  <2> QED
    BY <2>3, <2>4
<1> QED
  BY <1>4, <1>5

\* A job is settled, or lost.
LEMMA GoneGains ==
  ASSUME NEW x, NEW e,
         \/ over' = over \cup {x} /\ x \notin over /\ lost' = lost
         \/ lost' = lost \cup {x} /\ x \notin lost /\ over' = over
  PROVE  Gone(e)' = Gone(e) + One(e, x)
BY DEF Gone, One

\* A job that is to be enqueued, in a list or in a hand is nowhere else.
LEMMA Alone ==
  ASSUME WorkTypes, JobAccounted, session = "ended", NEW e \in Entries,
         InFlush(e) > 0 \/ InList(e) > 0 \/ InHand(e) > 0
  PROVE  e \notin over /\ e \notin lost /\ \A m \in dlq[e.w] : Entry(m) # e
<1> DEFINE A == {m \in dlq[e.w] : Entry(m) = e}
<1>1. Copies(e) \in {0, 1}
  BY DEF JobAccounted
<1>2. Gone(e) = 0 /\ InDead(e) = 0
  BY <1>1, PlacesCounted DEF Copies
<1>3. e \notin over /\ e \notin lost
  BY <1>2 DEF Gone
<1>4. A = {}
  <2>1. e.w \in Workers
    BY DEF Entries
  <2>2. IsFiniteSet(dlq[e.w]) /\ A \in SUBSET dlq[e.w] /\ Cardinality(A) = 0
    BY <1>2, <2>1 DEF WorkTypes, InDead
  <2> HIDE DEF A
  <2>3. IsFiniteSet(A)
    BY <2>2, FS_Subset
  <2> QED
    BY <2>2, <2>3, FS_EmptySet
<1> QED
  BY <1>3, <1>4

\* What the lists hold is typed after a push and after a pop.
LEMMA ListTyped ==
  ASSUME WorkTypes, NEW w \in Workers,
         \/ \E m \in Waiting(w) : list' = [list EXCEPT ![w] = Append(@, m)]
         \/ list[w] # <<>> /\ Pop(w)
  PROVE  /\ list' = [v \in Workers |-> list'[v]]
         /\ \A v \in Workers : list'[v] \in Seq(Waiting(v))
<1>1. list = [v \in Workers |-> list[v]] /\ \A v \in Workers : list[v] \in Seq(Waiting(v))
  BY DEF WorkTypes
<1>2. \A m \in Waiting(w) : Append(list[w], m) \in Seq(Waiting(w))
  BY <1>1, AppendProperties
<1>3. list[w] # <<>> => Tail(list[w]) \in Seq(Waiting(w))
  BY <1>1, HeadTailProperties
<1> QED
  BY <1>1, <1>2, <1>3 DEF Pop

\* The executor's push succeeds.
LEMMA EnqueueStep == ASSUME WorkAssumption, WorkInv, Enqueue PROVE WorkInv'
<1> DEFINE x == Head(flushing)
           m == [w |-> x.w, key |-> x.key, n |-> x.n, attempts |-> 0]
<1>1. /\ WorkTypes /\ HandFull /\ LostByFault /\ NothingOut /\ Buffered /\ JobAccounted
      /\ flushing # <<>> /\ flushing' = Tail(flushing)
      /\ list' = [list EXCEPT ![x.w] = Append(@, m)]
      /\ UNCHANGED <<buffer, fired, latest, session, dlq, hand, wpc, over, lost, faults>>
  BY DEF WorkInv, Enqueue
<1>2. session # "open" /\ (session = "ended" \/ session # "ended")
  BY <1>1 DEF NothingOut
<1>3. x \in Entries /\ Tail(flushing) \in Seq(Entries)
  BY <1>1, HeadTailProperties DEF WorkTypes
<1>4. x.w \in Workers /\ m \in Waiting(x.w) /\ Entry(m) = x
  BY <1>3 DEF Entries, Waiting, WorkerMessages, Entry, WorkAssumption
<1> HIDE DEF x, m
<1>5. WorkTypes'
  <2>1. /\ list' = [v \in Workers |-> list'[v]]
        /\ \A v \in Workers : list'[v] \in Seq(Waiting(v))
    BY <1>1, <1>4, ListTyped
  <2> QED
    BY <1>1, <1>3, <2>1 DEF WorkTypes
<1>6. HandFull' /\ LostByFault' /\ NothingOut' /\ Buffered'
  BY <1>1, <1>2 DEF HandFull, LostByFault, NothingOut, Buffered
<1>7. ASSUME NEW e \in Entries PROVE Copies(e)' = Copies(e)
  <2>1. InFlush(e) = InFlush(e)' + One(e, x)
    BY <1>1, FlushTakes DEF x
  <2>2. InList(e)' = InList(e) + One(e, x)
    BY <1>1, <1>4, ListGains
  <2>3. InDead(e)' = InDead(e) /\ InHand(e)' = InHand(e) /\ Gone(e)' = Gone(e)
    BY <1>1 DEF InDead, InHand, Gone
  <2>4. InFlush(e)' \in Nat /\ InList(e) \in Nat /\ One(e, x) \in Nat
    BY <1>1, FlushTakes, PlacesCounted DEF One
  <2> QED
    BY <1>1, <2>1, <2>2, <2>3, <2>4, PlacesCounted DEF Copies
<1>8. JobAccounted'
  BY <1>1, <1>7 DEF JobAccounted
<1> QED
  BY <1>5, <1>6, <1>8 DEF WorkInv

\* The executor's push fails.
LEMMA EnqueueFailsStep == ASSUME WorkInv, EnqueueFails PROVE WorkInv'
<1> DEFINE x == Head(flushing)
<1>1. /\ WorkTypes /\ HandFull /\ LostByFault /\ NothingOut /\ Buffered /\ JobAccounted
      /\ flushing # <<>> /\ faults' = faults + 1 /\ faults \in Nat
      /\ UNCHANGED <<buffer, fired, latest, session, list, dlq, hand, wpc, over>>
  BY DEF WorkInv, EnqueueFails, Fault, WorkTypes
<1>2. session # "open"
  BY <1>1 DEF NothingOut
<1>3. x \in Entries /\ Tail(flushing) \in Seq(Entries)
  BY <1>1, HeadTailProperties DEF WorkTypes
<1> HIDE DEF x
<1>4. HandFull' /\ LostByFault' /\ NothingOut' /\ Buffered'
  BY <1>1, <1>2 DEF HandFull, LostByFault, NothingOut, Buffered
<1>5. CASE UNCHANGED <<flushing, lost>>
  <2>1. WorkTypes'
    BY <1>1, <1>5 DEF WorkTypes
  <2>2. JobAccounted'
    BY <1>1, <1>4, <1>5
       DEF JobAccounted, LostByFault, Copies, InFlush, InList, InDead, InHand, Gone
  <2> QED
    BY <1>4, <2>1, <2>2 DEF WorkInv
<1>6. CASE lost' = lost \cup {x} /\ flushing' = Tail(flushing)
  <2>1. WorkTypes'
    BY <1>1, <1>3, <1>6 DEF WorkTypes
  <2>2. ASSUME NEW e \in Entries, session = "ended" PROVE Copies(e)' = Copies(e)
    <3>1. \A a \in Entries : /\ InFlush(a) = InFlush(a)' + One(a, x)
                             /\ InFlush(a)' \in Nat /\ One(a, x) \in Nat
      BY <1>1, <1>6, FlushTakes DEF x, One
    <3>2. InFlush(x) > 0
      BY <1>3, <3>1 DEF One
    <3>3. x \notin lost
      BY <1>1, <1>3, <2>2, <3>2, Alone
    <3>4. Gone(e)' = Gone(e) + One(e, x)
      BY <1>1, <1>6, <3>3, GoneGains
    <3>5. InList(e)' = InList(e) /\ InDead(e)' = InDead(e) /\ InHand(e)' = InHand(e)
      BY <1>1 DEF InList, InDead, InHand
    <3> QED
      BY <1>1, <3>1, <3>4, <3>5, PlacesCounted DEF Copies
  <2>3. JobAccounted'
    BY <1>1, <1>4, <2>2 DEF JobAccounted, LostByFault
  <2> QED
    BY <1>4, <2>1, <2>3 DEF WorkInv
<1> QED
  BY <1>5, <1>6 DEF EnqueueFails, x

\* A message is not <<>>.
LEMMA MessageThere == ASSUME NEW w, NEW m \in Waiting(w) PROVE m # <<>> /\ Entry(m).w = w
<1>1. Entry(m).w = w /\ "w" \in DOMAIN m
  BY DEF Entry, Waiting, WorkerMessages
<1>2. DOMAIN <<>> = {}
  OBVIOUS
<1> QED
  BY <1>1, <1>2

\* A worker pops a message and works on it.
LEMMA TakeStep == ASSUME WorkInv, NEW w \in Workers, Take(w) PROVE WorkInv'
<1> DEFINE m == Head(list[w])
<1>1. /\ WorkTypes /\ HandFull /\ LostByFault /\ NothingOut /\ Buffered /\ JobAccounted
      /\ wpc[w] = "poll" /\ list[w] # <<>> /\ Pop(w)
      /\ hand' = [hand EXCEPT ![w] = m] /\ wpc' = [wpc EXCEPT ![w] = "work"]
      /\ UNCHANGED <<buffer, fired, latest, flushing, push, session, dlq, over, lost,
                     faults>>
  BY DEF WorkInv, Take, Goto
<1>2. session # "open" /\ hand[w] = <<>>
  BY <1>1 DEF NothingOut, HandFull
<1>3. m \in Waiting(w) /\ m # <<>>
  BY <1>1, HeadTailProperties, MessageThere DEF WorkTypes
<1> HIDE DEF m
<1>4. /\ hand' = [v \in Workers |-> hand'[v]]
      /\ \A v \in Workers : hand'[v] = IF v = w THEN m ELSE hand[v]
  BY <1>1 DEF WorkTypes
<1>5. /\ wpc' \in [Workers -> {"poll", "work", "term", "exited"}]
      /\ \A v \in Workers : wpc'[v] = IF v = w THEN "work" ELSE wpc[v]
  BY <1>1 DEF WorkTypes
<1>6. WorkTypes'
  <2>1. /\ list' = [v \in Workers |-> list'[v]]
        /\ \A v \in Workers : list'[v] \in Seq(Waiting(v))
    BY <1>1, ListTyped
  <2> QED
    BY <1>1, <1>3, <1>4, <1>5, <2>1 DEF WorkTypes
<1>7. HandFull' /\ LostByFault' /\ NothingOut' /\ Buffered'
  BY <1>1, <1>2, <1>3, <1>4, <1>5 DEF HandFull, LostByFault, NothingOut, Buffered
<1>8. ASSUME NEW e \in Entries PROVE Copies(e)' = Copies(e)
  <2>1. InList(e) = InList(e)' + One(e, Entry(m)) /\ InList(e)' \in Nat
    BY <1>1, ListLoses DEF m
  <2>2. InHand(e)' = InHand(e) + One(e, Entry(m))
    BY <1>1, <1>2, <1>3, HandMoves
  <2>3. InFlush(e)' = InFlush(e) /\ InDead(e)' = InDead(e) /\ Gone(e)' = Gone(e)
    BY <1>1 DEF InFlush, InDead, Gone
  <2>4. One(e, Entry(m)) \in Nat
    BY DEF One
  <2> QED
    BY <1>1, <2>1, <2>2, <2>3, <2>4, PlacesCounted DEF Copies
<1>9. JobAccounted'
  BY <1>1, <1>8 DEF JobAccounted
<1> QED
  BY <1>6, <1>7, <1>9 DEF WorkInv

\* The job in a worker's hand is settled, or lost by a fault.
LEMMA LetGoStep ==
  ASSUME WorkInv, NEW w \in Workers, hand[w] # <<>>, Emptied(w),
         NEW p \in {"poll", "exited"}, Goto(w, p),
         \/ over' = over \cup {Entry(hand[w])} /\ UNCHANGED <<lost, faults>>
         \/ lost' = lost \cup {Entry(hand[w])} /\ faults' = faults + 1 /\ over' = over,
         UNCHANGED <<buffer, fired, latest, flushing, push, session, list, dlq>>
  PROVE  WorkInv'
<1> DEFINE m == hand[w]
           x == Entry(m)
<1>1. /\ WorkTypes /\ HandFull /\ LostByFault /\ NothingOut /\ Buffered /\ JobAccounted
      /\ faults \in Nat /\ wpc' = [wpc EXCEPT ![w] = p] /\ hand' = [hand EXCEPT ![w] = <<>>]
  BY DEF WorkInv, WorkTypes, Goto, Emptied
<1>2. session # "open"
  BY <1>1 DEF NothingOut
<1>3. m \in Waiting(w) /\ x \in Entries
  BY <1>1 DEF WorkTypes, Waiting, WorkerMessages, Entry, Entries
<1> HIDE DEF m, x
<1>4. /\ hand' = [v \in Workers |-> hand'[v]]
      /\ \A v \in Workers : hand'[v] = IF v = w THEN <<>> ELSE hand[v]
  BY <1>1 DEF WorkTypes
<1>5. /\ wpc' \in [Workers -> {"poll", "work", "term", "exited"}]
      /\ \A v \in Workers : wpc'[v] = IF v = w THEN p ELSE wpc[v]
  BY <1>1 DEF WorkTypes
<1>6. WorkTypes'
  BY <1>1, <1>3, <1>4, <1>5 DEF WorkTypes, m, x
<1>7. HandFull' /\ LostByFault' /\ NothingOut' /\ Buffered'
  BY <1>1, <1>2, <1>4, <1>5 DEF HandFull, LostByFault, NothingOut, Buffered
<1>8. ASSUME NEW e \in Entries, session = "ended" PROVE Copies(e)' = Copies(e)
  <2>1. \A a \in Entries : InHand(a) = InHand(a)' + One(a, x) /\ InHand(a)' \in Nat
    BY <1>1, HandMoves DEF x, m, InHand
  <2>2. InHand(x) > 0
    BY <1>3, <2>1 DEF One
  <2>3. x \notin over /\ x \notin lost
    BY <1>1, <1>3, <1>8, <2>2, Alone
  <2>4. Gone(e)' = Gone(e) + One(e, x)
    BY <2>3, GoneGains DEF x, m
  <2>5. InFlush(e)' = InFlush(e) /\ InList(e)' = InList(e) /\ InDead(e)' = InDead(e)
    BY DEF InFlush, InList, InDead
  <2>6. One(e, x) \in Nat
    BY DEF One
  <2> QED
    BY <1>1, <2>1, <2>4, <2>5, <2>6, PlacesCounted DEF Copies
<1>9. JobAccounted'
  BY <1>1, <1>2, <1>7, <1>8 DEF JobAccounted, LostByFault
<1> QED
  BY <1>6, <1>7, <1>9 DEF WorkInv

\* enqueue_for_retry puts the message back, or among the dead letters.
LEMMA RetryStep ==
  ASSUME WorkAssumption, WorkInv, NEW w \in Workers, NEW max \in {0, MaxJobRetries},
         EnqueueForRetry(w, max)
  PROVE  WorkInv'
<1> DEFINE h == hand[w]
           m == [h EXCEPT !.attempts = @ + 1]
           x == Entry(h)
<1>1. /\ WorkTypes /\ HandFull /\ LostByFault /\ NothingOut /\ Buffered /\ JobAccounted
      /\ wpc[w] = "work" /\ wpc' = [wpc EXCEPT ![w] = "poll"] /\ Emptied(w)
      /\ hand' = [hand EXCEPT ![w] = <<>>]
      /\ UNCHANGED <<buffer, fired, latest, flushing, push, session, over, lost, faults>>
  BY DEF WorkInv, EnqueueForRetry, Goto, Emptied
<1>2. h # <<>> /\ h \in Waiting(w) /\ session # "open"
  BY <1>1 DEF HandFull, WorkTypes, NothingOut
<1>3. /\ m \in Dead(w) /\ (m.attempts < max => m \in Waiting(w)) /\ m.attempts \in Nat
      /\ Entry(m) = x /\ x \in Entries /\ x.w = w
  BY <1>2 DEF Dead, Waiting, WorkerMessages, Entry, Entries, WorkAssumption
<1>4. \/ m.attempts < max /\ list' = [list EXCEPT ![w] = Append(@, m)] /\ dlq' = dlq
      \/ dlq' = [dlq EXCEPT ![w] = @ \cup {m}] /\ list' = list
  BY <1>3 DEF EnqueueForRetry, WorkAssumption
<1> HIDE DEF h, m, x
<1>5. /\ hand' = [v \in Workers |-> hand'[v]]
      /\ \A v \in Workers : hand'[v] = IF v = w THEN <<>> ELSE hand[v]
  BY <1>1 DEF WorkTypes
<1>6. /\ wpc' \in [Workers -> {"poll", "work", "term", "exited"}]
      /\ \A v \in Workers : wpc'[v] = IF v = w THEN "poll" ELSE wpc[v]
  BY <1>1 DEF WorkTypes
<1>7. HandFull' /\ LostByFault' /\ NothingOut' /\ Buffered'
  BY <1>1, <1>2, <1>5, <1>6 DEF HandFull, LostByFault, NothingOut, Buffered
<1>8. WorkTypes'
  <2>1. CASE list' = [list EXCEPT ![w] = Append(@, m)] /\ dlq' = dlq /\ m \in Waiting(w)
    <3>1. /\ list' = [v \in Workers |-> list'[v]]
          /\ \A v \in Workers : list'[v] \in Seq(Waiting(v))
      BY <1>1, <2>1, ListTyped
    <3> QED
      BY <1>1, <1>5, <1>6, <2>1, <3>1 DEF WorkTypes
  <2>2. CASE dlq' = [dlq EXCEPT ![w] = @ \cup {m}] /\ list' = list
    <3>1. dlq' = [v \in Workers |-> dlq'[v]] /\ dlq'[w] = dlq[w] \cup {m}
          /\ \A v \in Workers \ {w} : dlq'[v] = dlq[v]
      BY <1>1, <2>2 DEF WorkTypes
    <3>2. IsFiniteSet(dlq[w] \cup {m}) /\ dlq[w] \cup {m} \subseteq Dead(w)
      BY <1>1, <1>3, FS_AddElement DEF WorkTypes
    <3>3. \A v \in Workers : dlq'[v] \subseteq Dead(v) /\ IsFiniteSet(dlq'[v])
      BY <1>1, <3>1, <3>2 DEF WorkTypes
    <3> QED
      BY <1>1, <1>5, <1>6, <2>2, <3>1, <3>3 DEF WorkTypes
  <2> QED
    BY <1>3, <1>4, <2>1, <2>2
<1>9. ASSUME NEW e \in Entries, session = "ended" PROVE Copies(e)' = Copies(e)
  <2>1. \A a \in Entries : InHand(a) = InHand(a)' + One(a, x) /\ InHand(a)' \in Nat
    BY <1>1, <1>2, HandMoves DEF x, h, InHand
  <2>2. InFlush(e)' = InFlush(e) /\ Gone(e)' = Gone(e) /\ One(e, x) \in Nat
    BY <1>1 DEF InFlush, Gone, One
  <2>3. CASE list' = [list EXCEPT ![w] = Append(@, m)] /\ dlq' = dlq /\ m \in Waiting(w)
    <3>1. InList(e)' = InList(e) + One(e, x)
      BY <1>1, <1>3, <2>3, ListGains
    <3>2. InDead(e)' = InDead(e)
      BY <2>3 DEF InDead
    <3> QED
      BY <1>1, <2>1, <2>2, <3>1, <3>2, PlacesCounted DEF Copies
  <2>4. CASE dlq' = [dlq EXCEPT ![w] = @ \cup {m}] /\ list' = list
    <3>1. InHand(x) > 0
      BY <1>3, <2>1 DEF One
    <3>2. m \notin dlq[w]
      BY <1>1, <1>3, <1>9, <3>1, Alone
    <3>3. InDead(e)' = InDead(e) + One(e, x)
      BY <1>1, <1>3, <2>4, <3>2, DeadGain
    <3>4. InList(e)' = InList(e)
      BY <2>4 DEF InList
    <3> QED
      BY <1>1, <2>1, <2>2, <3>3, <3>4, PlacesCounted DEF Copies
  <2> QED
    BY <1>3, <1>4, <2>3, <2>4
<1>10. JobAccounted'
  BY <1>1, <1>2, <1>9 DEF JobAccounted
<1> QED
  BY <1>7, <1>8, <1>10 DEF WorkInv

\* A worker with nothing in its hand polls in vain, dies, is told to stop or
\* starts again.
LEMMA IdleStep ==
  ASSUME WorkInv, NEW w \in Workers, wpc[w] # "work",
         NEW p \in {"poll", "term", "exited"}, Goto(w, p),
         faults' = faults + 1 \/ (faults' = faults /\ p # "term"),
         UNCHANGED <<buffer, fired, latest, flushing, push, session, list, dlq, hand, over,
                     lost>>
  PROVE  WorkInv'
<1>1. /\ WorkTypes /\ HandFull /\ LostByFault /\ NothingOut /\ Buffered /\ JobAccounted
      /\ faults \in Nat /\ wpc' = [wpc EXCEPT ![w] = p]
  BY DEF WorkInv, WorkTypes, Goto
<1>2. /\ wpc' \in [Workers -> {"poll", "work", "term", "exited"}]
      /\ \A v \in Workers : wpc'[v] = IF v = w THEN p ELSE wpc[v]
  BY <1>1 DEF WorkTypes
<1>3. WorkTypes'
  BY <1>1, <1>2 DEF WorkTypes
<1>4. HandFull' /\ LostByFault' /\ NothingOut' /\ Buffered'
  BY <1>1, <1>2 DEF HandFull, LostByFault, NothingOut, Buffered
<1>5. JobAccounted'
  BY <1>1, <1>4 DEF JobAccounted, LostByFault, Copies, InFlush, InList, InDead, InHand, Gone
<1> QED
  BY <1>3, <1>4, <1>5 DEF WorkInv

\* The retrospector that was told to stop drops a message.
LEMMA TakeAndDropStep == ASSUME WorkInv, TakeAndDrop PROVE WorkInv'
<1> DEFINE w == "retrospector"
           m == Head(list[w])
           x == Entry(m)
<1>1. /\ WorkTypes /\ HandFull /\ LostByFault /\ NothingOut /\ Buffered /\ JobAccounted
      /\ w \in Workers /\ wpc[w] = "term" /\ list[w] # <<>> /\ Pop(w) /\ faults > 0
      /\ lost' = lost \cup {x}
      /\ UNCHANGED <<buffer, fired, latest, flushing, push, session, dlq, hand, wpc, over,
                     faults>>
  BY DEF WorkInv, TakeAndDrop, Workers, LostByFault
<1>2. session # "open"
  BY <1>1 DEF NothingOut
<1>3. m \in Waiting(w) /\ x \in Entries
  <2>1. m \in Waiting(w)
    BY <1>1, HeadTailProperties DEF WorkTypes
  <2> QED
    BY <2>1 DEF Waiting, WorkerMessages, Entry, Entries
<1> HIDE DEF w, m, x
<1>4. WorkTypes'
  <2>1. /\ list' = [v \in Workers |-> list'[v]]
        /\ \A v \in Workers : list'[v] \in Seq(Waiting(v))
    BY <1>1, ListTyped
  <2> QED
    BY <1>1, <1>3, <2>1 DEF WorkTypes
<1>5. HandFull' /\ LostByFault' /\ NothingOut' /\ Buffered'
  BY <1>1, <1>2 DEF HandFull, LostByFault, NothingOut, Buffered
<1>6. ASSUME NEW e \in Entries, session = "ended" PROVE Copies(e)' = Copies(e)
  <2>1. \A a \in Entries : InList(a) = InList(a)' + One(a, x) /\ InList(a)' \in Nat
    BY <1>1, ListLoses DEF x, m
  <2>2. InList(x) > 0
    BY <1>3, <2>1 DEF One
  <2>3. x \notin lost
    BY <1>1, <1>3, <1>6, <2>2, Alone
  <2>4. Gone(e)' = Gone(e) + One(e, x)
    BY <1>1, <2>3, GoneGains
  <2>5. /\ InFlush(e)' = InFlush(e) /\ InHand(e)' = InHand(e) /\ InDead(e)' = InDead(e)
        /\ One(e, x) \in Nat
    BY <1>1 DEF InFlush, InHand, InDead, One
  <2> QED
    BY <1>1, <2>1, <2>4, <2>5, PlacesCounted DEF Copies
<1>7. JobAccounted'
  BY <1>1, <1>2, <1>5, <1>6 DEF JobAccounted, LostByFault
<1> QED
  BY <1>4, <1>5, <1>7 DEF WorkInv

\* The hooks name a transcript: both workers' jobs are buffered.
LEMMA CaptureStep == ASSUME WorkAssumption, WorkInv, CaptureAndBuffer PROVE WorkInv'
<1>1. /\ WorkTypes /\ HandFull /\ LostByFault /\ NothingOut /\ Buffered /\ JobAccounted
      /\ session = "open" /\ fired \in Nat /\ fired + 1 \in 1 .. MaxHooks
      /\ fired' = fired + 1
      /\ UNCHANGED <<flushing, push, session, list, dlq, hand, wpc, over, lost, faults>>
  BY DEF WorkAssumption, WorkInv, WorkTypes, CaptureAndBuffer
<1>2. HandFull' /\ LostByFault' /\ NothingOut'
  BY <1>1 DEF HandFull, LostByFault, NothingOut
<1>3. JobAccounted'
  BY <1>1, <1>2 DEF JobAccounted, LostByFault
<1>4. CASE UNCHANGED <<buffer, latest>>
  <2>1. WorkTypes'
    BY <1>1, <1>4 DEF WorkTypes
  <2>2. \A k \in Keys : latest[k] \in Nat
    BY <1>1 DEF WorkTypes
  <2>3. Buffered'
    BY <1>1, <1>4, <2>2 DEF Buffered
  <2> QED
    BY <1>2, <1>3, <2>1, <2>3 DEF WorkInv
<1>5. ASSUME NEW k \in Keys,
             buffer' = buffer \o <<[w |-> "memory", key |-> k, n |-> fired + 1],
                                   [w |-> "retrospector", key |-> k, n |-> fired + 1]>>,
             latest' = [latest EXCEPT ![k] = fired + 1]
      PROVE  WorkInv'
  <2> DEFINE a == [w |-> "memory", key |-> k, n |-> fired + 1]
             b == [w |-> "retrospector", key |-> k, n |-> fired + 1]
  <2>1. a \in Entries /\ b \in Entries
    BY <1>1 DEF Entries, Workers
  <2>2. a.key = k /\ a.w = "memory" /\ b.key = k /\ b.w = "retrospector"
    OBVIOUS
  <2>3. PICK n \in Nat : n = Len(buffer) /\ DOMAIN buffer = 1 .. n
    <3>1. buffer \in Seq(Entries)
      BY <1>1 DEF WorkTypes
    <3> QED
      BY <3>1
  <2>4. /\ buffer' \in Seq(Entries) /\ Len(buffer') = n + 2 /\ DOMAIN buffer' = 1 .. n + 2
        /\ \A i \in 1 .. n : buffer'[i] = buffer[i]
        /\ buffer'[n + 1] = a /\ buffer'[n + 2] = b
    <3>1. <<a, b>> \in Seq(Entries) /\ buffer \in Seq(Entries) /\ Len(<<a, b>>) = 2
      BY <1>1, <2>1 DEF WorkTypes
    <3> HIDE DEF a, b
    <3>2. buffer' = buffer \o <<a, b>> /\ <<a, b>>[1] = a /\ <<a, b>>[2] = b
      BY <1>5 DEF a, b
    <3> QED
      BY <2>3, <3>1, <3>2, ConcatProperties
  <2> HIDE DEF a, b
  <2>5. /\ latest' \in [Keys -> 0 .. MaxHooks] /\ latest'[k] = fired + 1
        /\ \A c \in Keys \ {k} : latest'[c] = latest[c]
    BY <1>1, <1>5 DEF WorkTypes
  <2>6. WorkTypes'
    BY <1>1, <2>4, <2>5 DEF WorkTypes
  <2>7. \A i \in 1 .. n : buffer[i] \in Entries /\ buffer[i].key \in Keys
    <3>1. buffer \in Seq(Entries)
      BY <1>1 DEF WorkTypes
    <3>2. \A i \in 1 .. n : buffer[i] \in Entries
      BY <2>3, <3>1
    <3> QED
      BY <3>2 DEF Entries
  <2>8. \A i \in 1 .. n + 2 : i \in 1 .. n \/ i = n + 1 \/ i = n + 2
    BY <2>3
  <2>9. \A i \in DOMAIN buffer' : latest'[buffer'[i].key] > 0
    <3>1. \A i \in 1 .. n : latest[buffer[i].key] > 0
      BY <1>1, <2>3 DEF Buffered
    <3> QED
      BY <1>1, <2>2, <2>4, <2>5, <2>7, <2>8, <3>1
  <2>10. \A c \in Keys : latest'[c] <= fired'
    <3>1. \A c \in Keys : latest[c] <= fired /\ latest[c] \in Nat
      BY <1>1 DEF Buffered, WorkTypes
    <3> QED
      BY <1>1, <2>5, <3>1
  <2>11. ASSUME NEW c \in Keys, NEW w \in Workers, latest'[c] > 0
         PROVE  \E i \in DOMAIN buffer' :
                  /\ buffer'[i] = [w |-> w, key |-> c, n |-> latest'[c]]
                  /\ \A j \in i + 1 .. Len(buffer') : ~SameJob(buffer'[i], buffer'[j])
    <3>1. CASE c = k /\ w = "memory"
      <4>1. \A j \in n + 1 + 1 .. n + 2 : j = n + 2
        BY <2>3
      <4>2. /\ n + 1 \in DOMAIN buffer'
            /\ buffer'[n + 1] = [w |-> w, key |-> c, n |-> latest'[c]]
        BY <2>3, <2>4, <2>5, <3>1 DEF a
      <4> QED
        BY <2>2, <2>4, <4>1, <4>2 DEF SameJob
    <3>2. CASE c = k /\ w = "retrospector"
      <4>1. \A j \in n + 2 + 1 .. n + 2 : FALSE
        BY <2>3
      <4>2. /\ n + 2 \in DOMAIN buffer'
            /\ buffer'[n + 2] = [w |-> w, key |-> c, n |-> latest'[c]]
        BY <2>3, <2>4, <2>5, <3>2 DEF b
      <4> QED
        BY <2>4, <4>1, <4>2
    <3>3. CASE c # k
      <4>1. PICK i \in 1 .. n : /\ buffer[i] = [w |-> w, key |-> c, n |-> latest[c]]
                                /\ \A j \in i + 1 .. n : ~SameJob(buffer[i], buffer[j])
        BY <1>1, <2>3, <2>5, <2>11, <3>3 DEF Buffered
      <4>2. buffer'[i] = [w |-> w, key |-> c, n |-> latest'[c]] /\ buffer[i].key = c
        BY <2>4, <2>5, <3>3, <4>1
      <4>3. \A j \in i + 1 .. n + 2 : ~SameJob(buffer'[i], buffer'[j])
        BY <2>2, <2>4, <2>8, <3>3, <4>1, <4>2 DEF SameJob
      <4> QED
        BY <2>3, <2>4, <4>2, <4>3
    <3> QED
      BY <3>1, <3>2, <3>3 DEF Workers
  <2>12. \A i \in DOMAIN buffer' :
           \E j \in Firsts(buffer') : SameJob(buffer'[i], buffer'[j])
    <3>1. \A j \in Firsts(buffer) : j \in 1 .. n /\ j \in Firsts(buffer')
      BY <2>3, <2>4 DEF Firsts
    <3>2. \A i \in 1 .. n : \E j \in Firsts(buffer) : SameJob(buffer[i], buffer[j])
      BY <1>1, <2>3 DEF Buffered
    <3>3. ASSUME NEW i \in {n + 1, n + 2}
          PROVE  \E j \in Firsts(buffer') : SameJob(buffer'[i], buffer'[j])
      <4>1. CASE \E j \in 1 .. n : SameJob(buffer'[i], buffer[j])
        <5>1. PICK j \in 1 .. n : SameJob(buffer'[i], buffer[j])
          BY <4>1
        <5>2. PICK f \in Firsts(buffer) : SameJob(buffer[j], buffer[f])
          BY <3>2
        <5> QED
          BY <2>4, <3>1, <5>1, <5>2 DEF SameJob
      <4>2. CASE \A j \in 1 .. n : ~SameJob(buffer'[i], buffer[j])
        <5>1. /\ i \in 1 .. n + 2
              /\ \A j \in 1 .. i - 1 : j \in 1 .. n \/ (j = n + 1 /\ i = n + 2)
          BY <2>3
        <5>2. i = n + 2 => ~SameJob(buffer'[i], buffer'[n + 1])
          BY <2>2, <2>4 DEF SameJob
        <5>3. i \in Firsts(buffer')
          BY <2>4, <4>2, <5>1, <5>2 DEF Firsts
        <5> QED
          BY <5>3 DEF SameJob
      <4> QED
        BY <4>1, <4>2
    <3> QED
      BY <2>4, <2>8, <3>1, <3>2, <3>3
  <2>13. Buffered'
    BY <2>9, <2>10, <2>11, <2>12 DEF Buffered
  <2> QED
    BY <1>2, <1>3, <2>6, <2>13 DEF WorkInv
<1> QED
  BY <1>4, <1>5 DEF CaptureAndBuffer

\* The flush keeps one job of each worker and key, the last firing's.
LEMMA FlushStep == ASSUME WorkAssumption, WorkInv, Flush PROVE WorkInv'
<1> DEFINE F == Firsts(buffer)
           D == Dedup(buffer)
           c == Cardinality(F)
           Newest(b) == [w |-> b.w, key |-> b.key, n |-> latest[b.key]]
<1>1. /\ WorkTypes /\ HandFull /\ LostByFault /\ NothingOut /\ Buffered /\ JobAccounted
      /\ session = "open" /\ session' = "ended" /\ flushing' = D /\ buffer' = <<>>
      /\ UNCHANGED <<fired, latest, push, list, dlq, hand, wpc, over, lost, faults>>
  BY DEF WorkInv, Flush
<1>2. buffer \in Seq(Entries) /\ latest \in [Keys -> 0 .. MaxHooks] /\ MaxHooks \in Nat
  BY <1>1 DEF WorkTypes, WorkAssumption
<1>3. PICK n \in Nat : n = Len(buffer) /\ DOMAIN buffer = 1 .. n
  BY <1>2
<1>4. \A i \in 1 .. n : /\ buffer[i] \in Entries /\ buffer[i].key \in Keys
                        /\ buffer[i].w \in Workers
  <2>1. \A i \in 1 .. n : buffer[i] \in Entries
    BY <1>2, <1>3
  <2> QED
    BY <2>1 DEF Entries
<1>5. F \in SUBSET (1 .. n)
  BY <1>3 DEF Firsts
<1>6. \A i \in 1 .. n : latest[buffer[i].key] > 0 /\ Newest(buffer[i]) \in Entries
  <2>1. \A i \in 1 .. n : latest[buffer[i].key] > 0
    BY <1>1, <1>3 DEF Buffered
  <2>2. \A i \in 1 .. n : latest[buffer[i].key] \in 1 .. MaxHooks
    BY <1>2, <1>4, <2>1
  <2> QED
    BY <1>4, <2>1, <2>2 DEF Entries
<1>7. ASSUME NEW i \in 1 .. n PROVE buffer[LastOf(buffer, i)] = Newest(buffer[i])
  <2> DEFINE IsLast(j) == /\ SameJob(buffer[i], buffer[j])
                          /\ \A k \in j + 1 .. Len(buffer) : ~SameJob(buffer[i], buffer[k])
  <2>1. PICK j \in 1 .. n : /\ buffer[j] = Newest(buffer[i])
                            /\ \A k \in j + 1 .. n : ~SameJob(buffer[j], buffer[k])
    BY <1>1, <1>3, <1>4, <1>6 DEF Buffered
  <2>2. SameJob(buffer[i], buffer[j]) /\ IsLast(j)
    BY <1>3, <2>1 DEF SameJob
  <2>3. ASSUME NEW l \in 1 .. n, IsLast(l) PROVE l = j
    <3>1. ~(l \in j + 1 .. n)
      BY <2>1, <2>2, <2>3 DEF SameJob
    <3>2. ~(j \in l + 1 .. n)
      BY <1>3, <2>2, <2>3
    <3> QED
      BY <1>3, <3>1, <3>2
  <2>4. LastOf(buffer, i) = CHOOSE l \in 1 .. n : IsLast(l)
    BY <1>3 DEF LastOf
  <2> HIDE DEF IsLast
  <2>5. LastOf(buffer, i) = j
    BY <2>2, <2>3, <2>4
  <2> QED
    BY <2>1, <2>5
<1>8. /\ c \in Nat /\ \A p \in 1 .. c : Nth(F, p) \in F
      /\ \A i \in F : \E p \in 1 .. c : Nth(F, p) = i
      /\ \A p, q \in 1 .. c : Nth(F, p) = Nth(F, q) => p = q
  <2> HIDE DEF F
  <2> QED
    BY <1>3, <1>5, NthOnce
<1>9. D = [p \in 1 .. c |-> buffer[LastOf(buffer, Nth(F, p))]]
  BY DEF Dedup
<1> HIDE DEF F, D, c
<1>10. \A p \in 1 .. c : D[p] = Newest(buffer[Nth(F, p)]) /\ D[p] \in Entries
  <2> SUFFICES ASSUME NEW p \in 1 .. c
               PROVE  D[p] = Newest(buffer[Nth(F, p)]) /\ D[p] \in Entries
    OBVIOUS
  <2>1. PICK i \in 1 .. n : i = Nth(F, p)
    BY <1>5, <1>8
  <2>2. D[p] = buffer[LastOf(buffer, i)]
    BY <1>9, <2>1
  <2> HIDE DEF Newest
  <2> QED
    BY <1>6, <1>7, <2>1, <2>2
<1>11. D \in Seq(Entries) /\ DOMAIN D = 1 .. c
  <2>1. D \in [1 .. c -> Entries]
    <3>1. D = [p \in 1 .. c |-> D[p]]
      BY <1>9
    <3> QED
      BY <1>10, <3>1
  <2>2. D \in Seq(Entries)
    <3>1. c \in Nat
      BY <1>8
    <3> QED
      BY <2>1, <3>1, SeqDef, Zenon
  <2>3. DOMAIN D = 1 .. c
    BY <2>1
  <2> QED
    BY <2>2, <2>3
<1>12. ASSUME NEW e \in Entries
       PROVE  Cardinality({p \in DOMAIN D : D[p] = e})
                 = IF e.n = latest[e.key] THEN 1 ELSE 0
  <2>1. CASE e.n # latest[e.key]
    <3>1. {p \in DOMAIN D : D[p] = e} = {}
      BY <1>10, <1>11, <2>1
    <3> QED
      BY <2>1, <3>1, FS_EmptySet
  <2>2. CASE e.n = latest[e.key]
    <3>1. /\ e.key \in Keys /\ e.w \in Workers /\ e.n \in 1 .. MaxHooks
          /\ e = [w |-> e.w, key |-> e.key, n |-> latest[e.key]] /\ e.n > 0
      BY <1>2, <2>2 DEF Entries
    <3>2. PICK i \in 1 .. n : buffer[i] = e
      BY <1>1, <1>3, <2>2, <3>1 DEF Buffered
    <3>3. PICK f \in F : SameJob(e, buffer[f])
      BY <1>1, <1>3, <3>2 DEF Buffered, F
    <3>4. PICK p \in 1 .. c : Nth(F, p) = f
      BY <1>8
    <3>5. D[p] = e
      BY <1>10, <3>1, <3>3, <3>4 DEF SameJob
    <3>6. ASSUME NEW q \in 1 .. c, D[q] = e PROVE q = p
      <4>1. Nth(F, q) \in F /\ SameJob(e, buffer[Nth(F, q)])
        <5>1. Nth(F, q) \in F /\ e = Newest(buffer[Nth(F, q)])
          BY <1>8, <1>10, <3>6
        <5>2. e.w = buffer[Nth(F, q)].w /\ e.key = buffer[Nth(F, q)].key
          BY <5>1
        <5> QED
          BY <5>1, <5>2 DEF SameJob
      <4>2. Nth(F, q) = f
        <5>1. PICK g \in F : g = Nth(F, q)
          BY <4>1
        <5>2. g \in 1 .. n /\ f \in 1 .. n
          BY <1>5
        <5>3. SameJob(buffer[g], buffer[f]) /\ SameJob(buffer[f], buffer[g])
          BY <3>3, <4>1, <5>1 DEF SameJob
        <5>4. ~(f \in 1 .. g - 1) /\ ~(g \in 1 .. f - 1)
          BY <5>3 DEF F, Firsts
        <5> QED
          BY <5>1, <5>2, <5>4
      <4> QED
        BY <1>8, <3>4, <4>2
    <3>7. {q \in DOMAIN D : D[q] = e} = {p}
      BY <1>11, <3>5, <3>6
    <3> QED
      BY <2>2, <3>7, FS_Singleton
  <2> QED
    BY <2>1, <2>2
<1>13. WorkTypes'
  <2>1. <<>> \in Seq(Entries)
    OBVIOUS
  <2> QED
    BY <1>1, <1>11, <2>1 DEF WorkTypes
<1>14. HandFull' /\ LostByFault' /\ NothingOut' /\ Buffered'
  BY <1>1 DEF HandFull, LostByFault, NothingOut, Buffered
<1>15. ASSUME NEW e \in Entries PROVE Copies(e)' = IF e.n = latest'[e.key] THEN 1 ELSE 0
  <2>1. e.w \in Workers
    BY DEF Entries
  <2>2. /\ list'[e.w] = <<>> /\ dlq'[e.w] = {} /\ hand'[e.w] = <<>> /\ over' = {}
        /\ lost' = {}
    BY <1>1, <2>1 DEF NothingOut
  <2>3. /\ {i \in DOMAIN list'[e.w] : Entry(list'[e.w][i]) = e} = {}
        /\ {m \in dlq'[e.w] : Entry(m) = e} = {}
    BY <2>2
  <2>4. InList(e)' = 0 /\ InDead(e)' = 0
    BY <2>3, FS_EmptySet DEF InList, InDead
  <2>5. InHand(e)' = 0 /\ Gone(e)' = 0
    BY <2>2 DEF InHand, Gone
  <2>6. InFlush(e)' = IF e.n = latest'[e.key] THEN 1 ELSE 0
    BY <1>1, <1>12 DEF InFlush
  <2> QED
    BY <2>4, <2>5, <2>6 DEF Copies
<1>16. JobAccounted'
  BY <1>1, <1>14, <1>15 DEF JobAccounted, LostByFault
<1> QED
  BY <1>13, <1>14, <1>16 DEF WorkInv

LEMMA WorkStarts == ASSUME WorkAssumption, WorkInit PROVE WorkInv
<1>1. \A S : <<>> \in Seq(S)
  OBVIOUS
<1>2. WorkTypes
  BY <1>1, FS_EmptySet DEF WorkInit, WorkTypes, WorkAssumption
<1>3. HandFull /\ LostByFault /\ NothingOut /\ JobAccounted
  BY DEF WorkInit, HandFull, LostByFault, NothingOut, JobAccounted
<1>4. Buffered
  <2>1. DOMAIN buffer = {} /\ \A k \in Keys : latest[k] = 0 /\ fired = 0
    BY DEF WorkInit
  <2> QED
    BY <2>1 DEF Buffered
<1> QED
  BY <1>2, <1>3, <1>4 DEF WorkInv

LEMMA WorkStep == ASSUME WorkAssumption, WorkInv, [WorkNext]_workVars PROVE WorkInv'
<1>1. CASE CaptureAndBuffer \/ Flush \/ Enqueue \/ EnqueueFails \/ TakeAndDrop
  BY <1>1, CaptureStep, FlushStep, EnqueueStep, EnqueueFailsStep, TakeAndDropStep
<1>2. HandFull /\ WorkTypes
  BY DEF WorkInv
<1>3. ASSUME NEW w \in Workers,
             \/ Finish(w) \/ RetryFails(w) \/ (Die(w) /\ hand[w] # <<>>)
      PROVE  WorkInv'
  <2>1. hand[w] # <<>> /\ Emptied(w) /\ \E p \in {"poll", "exited"} : Goto(w, p)
    BY <1>2, <1>3 DEF Finish, RetryFails, Die, HandFull
  <2>2. \/ over' = over \cup {Entry(hand[w])} /\ UNCHANGED <<lost, faults>>
        \/ lost' = lost \cup {Entry(hand[w])} /\ faults' = faults + 1 /\ over' = over
    BY <1>3, <2>1 DEF Finish, RetryFails, Die, Fault
  <2>3. UNCHANGED <<buffer, fired, latest, flushing, push, session, list, dlq>>
    BY <1>3 DEF Finish, RetryFails, Die
  <2> QED
    BY <2>1, <2>2, <2>3, LetGoStep
<1>4. ASSUME NEW w \in Workers,
             \/ PollFails(w) \/ Terminate(w) \/ Restart(w) \/ (Die(w) /\ hand[w] = <<>>)
      PROVE  WorkInv'
  <2>1. wpc[w] # "work" /\ (faults' = faults + 1 \/ (faults' = faults /\ Goto(w, "poll")))
    BY <1>2, <1>4 DEF PollFails, Terminate, Restart, Die, Fault, HandFull
  <2>2. /\ \E p \in {"poll", "term", "exited"} : Goto(w, p)
        /\ UNCHANGED <<buffer, fired, latest, flushing, push, session, list, dlq, over,
                       lost>>
    BY <1>4 DEF PollFails, Terminate, Restart, Die
  <2>3. hand' = hand
    <3>1. CASE Die(w) /\ hand[w] = <<>>
      BY <1>2, <3>1 DEF Die, Emptied, WorkTypes
    <3> QED
      BY <1>4, <3>1 DEF PollFails, Terminate, Restart
  <2> QED
    BY <2>1, <2>2, <2>3, IdleStep
<1>5. ASSUME NEW w \in Workers, Take(w) \/ FailTransient(w) \/ FailPermanent(w)
      PROVE  WorkInv'
  <2>1. \A max \in {0, MaxJobRetries} : EnqueueForRetry(w, max) => WorkInv'
    BY RetryStep
  <2>2. Take(w) => WorkInv'
    BY TakeStep
  <2> QED
    BY <1>5, <2>1, <2>2 DEF FailTransient, FailPermanent
<1>6. CASE UNCHANGED workVars
  <2>1. WorkTypes' /\ HandFull' /\ LostByFault' /\ NothingOut'
    BY <1>6 DEF workVars, WorkInv, WorkTypes, HandFull, LostByFault, NothingOut
  <2>2. Buffered'
    BY <1>6 DEF workVars, WorkInv, Buffered, Firsts
  <2>3. JobAccounted'
    BY <1>6
       DEF workVars, WorkInv, JobAccounted, Copies, InFlush, InList, InDead, InHand, Gone
  <2> QED
    BY <2>1, <2>2, <2>3 DEF WorkInv
<1>7. CASE ProcessMemory \/ ProcessRetrospector
  BY <1>3, <1>7 DEF ProcessMemory, ProcessRetrospector, Workers
<1> QED
  BY <1>1, <1>3, <1>4, <1>5, <1>6, <1>7 DEF WorkNext

\* Retries, dead-lettering, lost connections, crashes and restarts of the
\* workers neither copy a job nor forget it, for every number of transcripts,
\* hooks, retries and faults.
THEOREM JobsAccounted == ASSUME WorkAssumption PROVE WorkSpec => []JobAccounted
<1>1. WorkInit => WorkInv
  BY WorkStarts
<1>2. WorkInv /\ [WorkNext]_workVars => WorkInv'
  BY WorkStep
<1>3. WorkInv => JobAccounted
  BY DEF WorkInv
<1> QED
  BY <1>1, <1>2, <1>3, PTL DEF WorkSpec

\* The types that the proof above does not need.
WorkRest == push \in 0 .. 1 /\ session \in {"open", "ended"} /\ faults \in 0 .. MaxFaults

WorkTypeInv == WorkInv /\ WorkRest

LEMMA WorkTypesHold == ASSUME WorkAssumption, WorkTypeInv PROVE WorkTypeOK
<1>1. WorkTypes /\ WorkRest
  BY DEF WorkTypeInv, WorkInv
<1>2. ASSUME NEW w \in Workers
      PROVE  /\ Waiting(w) \subseteq WorkerMessages /\ Dead(w) \subseteq WorkerMessages
             /\ list[w] \in Seq(WorkerMessages)
  <2>1. Waiting(w) \subseteq WorkerMessages /\ Dead(w) \subseteq WorkerMessages
    BY DEF Waiting, Dead
  <2>2. list[w] \in Seq(Waiting(w))
    BY <1>1 DEF WorkTypes
  <2>3. list[w] \in [1 .. Len(list[w]) -> Waiting(w)] /\ Len(list[w]) \in Nat
    BY <2>2
  <2>4. list[w] \in [1 .. Len(list[w]) -> WorkerMessages]
    BY <2>1, <2>3
  <2> QED
    BY <2>1, <2>3, <2>4, SeqDef
<1>3. list \in [Workers -> Seq(WorkerMessages)]
  BY <1>1, <1>2 DEF WorkTypes
<1>4. dlq \in [Workers -> SUBSET WorkerMessages]
  BY <1>1, <1>2 DEF WorkTypes
<1>5. hand \in [Workers -> WorkerMessages \cup {<<>>}]
  <2>1. \A w \in Workers : hand[w] \in WorkerMessages \cup {<<>>}
    BY <1>1, <1>2 DEF WorkTypes
  <2> QED
    BY <1>1, <2>1 DEF WorkTypes
<1> QED
  BY <1>1, <1>3, <1>4, <1>5 DEF WorkTypes, WorkRest, WorkTypeOK

LEMMA WorkTypeStarts == ASSUME WorkAssumption, WorkInit PROVE WorkTypeInv
  BY WorkStarts DEF WorkTypeInv, WorkRest, WorkInit, WorkAssumption

LEMMA WorkTypeStep ==
  ASSUME WorkAssumption, WorkTypeInv, [WorkNext]_workVars PROVE WorkTypeInv'
<1>1. WorkInv'
  BY WorkStep DEF WorkTypeInv
<1>2. WorkRest
  BY DEF WorkTypeInv
<1>3. WorkRest'
  <2> USE DEF WorkRest, WorkAssumption, Fault
  <2>1. CASE CaptureAndBuffer \/ Flush \/ Enqueue \/ EnqueueFails
    BY <1>2, <2>1 DEF CaptureAndBuffer, Flush, Enqueue, EnqueueFails
  <2>2. CASE ProcessMemory \/ ProcessRetrospector \/ TakeAndDrop
    BY <1>2, <2>2 DEF ProcessMemory, ProcessRetrospector, Finish, TakeAndDrop
  <2>3. ASSUME NEW w \in Workers, Take(w) \/ FailTransient(w) \/ FailPermanent(w) PROVE WorkRest'
    BY <1>2, <2>3 DEF Take, FailTransient, FailPermanent, EnqueueForRetry
  <2>4. ASSUME NEW w \in Workers,
               RetryFails(w) \/ PollFails(w) \/ Die(w) \/ Terminate(w) \/ Restart(w)
        PROVE  WorkRest'
    BY <1>2, <2>4 DEF RetryFails, PollFails, Die, Terminate, Restart
  <2>5. CASE UNCHANGED workVars
    BY <1>2, <2>5 DEF workVars
  <2> QED
    BY <2>1, <2>2, <2>3, <2>4, <2>5 DEF WorkNext
<1> QED
  BY <1>1, <1>3 DEF WorkTypeInv

\* The workers keep their types: a message has been attempted at most
\* MaxJobRetries times, wherever it is, for every limit on retries.
THEOREM WorkTyped == ASSUME WorkAssumption PROVE WorkSpec => []WorkTypeOK
<1>1. WorkInit => WorkTypeInv
  BY WorkTypeStarts
<1>2. WorkTypeInv /\ [WorkNext]_workVars => WorkTypeInv'
  BY WorkTypeStep
<1>3. WorkTypeInv => WorkTypeOK
  BY WorkTypesHold
<1> QED
  BY <1>1, <1>2, <1>3, PTL DEF WorkSpec

=============================================================================
