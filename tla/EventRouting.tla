---------------------------- MODULE EventRouting ----------------------------
(* From a verified webhook to queued jobs: the command in the body, the    *)
(* fields extracted from the payload, the workflows the command and the    *)
(* event name, the self filter, and, in the agent worker, the flags of the *)
(* comment and the session the job continues.                              *)
(*                                                                         *)
(* A body is a sequence of words.  A payload is abstracted to its event    *)
(* type and action, whether its issue is a pull request, the one field     *)
(* that filters look at, and its sender.  The workflows' configuration is  *)
(* a constant; the engine's command table is a variable, because the       *)
(* webhook process keeps one engine for all deliveries.                    *)
EXTENDS Integers, Sequences, FiniteSets, SequencesExt, Subsequences

CONSTANTS WorkflowOrder, \* the workflows, in the order of workflows.yaml
          Triggers,      \* records [wf, event, action, only]: an event trigger,
                         \* action "" for a bare event, `only` the values its
                         \* filter admits, {} without filters
          CommandsOf,    \* [workflow -> set of commands]: its list names none twice
          FiltersOf,     \* [workflow -> values its own filter admits], {} without
          SkipSelf,      \* workflows with skip_self
          AutoContinue,  \* workflows with auto_continue
          Webhooks,      \* the webhooks to route
          None,
          MaxDeliveries  \* a bound

\* The workflows are the keys of a mapping, so none is listed twice.
RouteAssumption ==
  /\ WorkflowOrder \in Seq(Range(WorkflowOrder)) /\ IsInjective(WorkflowOrder)
  /\ MaxDeliveries \in Nat

VARIABLES commandMap,  \* WorkflowEngine._command_map
          last,        \* the delivery routed last
          out,         \* the jobs it queued
          routed       \* deliveries routed so far

routeVars == <<commandMap, last, out, routed>>

Workflows == Range(WorkflowOrder)
Commands == UNION {CommandsOf[w] : w \in Workflows}
Tiers == {"opus", "sonnet", "haiku"}
PullEvents == {"pull_request", "pull_request_review", "pull_request_review_comment",
               "pull_request_review_thread"}

\* setdefault(command, []).append(name), workflow by workflow.
ConfiguredFor(c) == Filtered(WorkflowOrder, {w \in Workflows : c \in CommandsOf[w]})

RouteTypeOK ==
  /\ commandMap \in [Commands -> Seq(Workflows)]
  /\ last \in Webhooks \cup {None} /\ routed \in 0 .. MaxDeliveries
  /\ \A i \in DOMAIN out :
       /\ out[i].wf \in Workflows /\ out[i].thread \in {"pr", "issue", "discussion"}
       /\ out[i].ref \in {"main", "pull", "heads", "tags", "raw"}
       /\ out[i].mode \in {"new", "resume", "fork"} /\ out[i].tier \in Tiers \cup {None}

RouteInit ==
  /\ commandMap = [c \in Commands |-> ConfiguredFor(c)]
  /\ last = None /\ out = <<>> /\ routed = 0

-----------------------------------------------------------------------------
(* The webhook's reading of a delivery.                                    *)

IsPr(d) == d.pr \/ d.event \in PullEvents

\* _extract_body: bodies are read when a thing is created, never when edited.
ExtractBody(d) ==
  IF /\ d.action \in {"created", "opened"}
     /\ d.event \in {"issues", "pull_request", "discussion", "issue_comment",
                     "discussion_comment"}
  THEN d.body ELSE <<>>

IsSlashWord(x) == x \in Commands \cup {"/unknown", "/BAD"}

\* The first word of the body if it is a slash word, and the words after it.
Command(d) ==
  LET b == ExtractBody(d) IN IF b # <<>> /\ IsSlashWord(Head(b)) THEN Head(b) ELSE None
UserQuery(d) == IF Command(d) = None THEN <<>> ELSE Tail(ExtractBody(d))

\* Refused before routing: a command that is malformed or too long, a comment
\* without a command.
Refused(d) ==
  \/ Command(d) = "/BAD"
  \/ d.event = "issue_comment" /\ ExtractBody(d) # <<>> /\ Command(d) = None

\* _resolve_ref and the override for comments on pull requests: the pull
\* request's head, a branch, a tag, what the payload says, or main.
ResolveRef(d) ==
  CASE d.event \in PullEvents -> "pull"
    [] d.event = "issue_comment" -> IF IsPr(d) THEN "pull" ELSE "main"
    [] d.event \in {"workflow_job", "workflow_run", "check_run", "check_suite"} -> "heads"
    [] d.event \in {"create", "delete"} -> IF d.field = "tag" THEN "tags" ELSE "heads"
    [] d.event = "release" -> "raw"
    [] OTHER -> "main"

-----------------------------------------------------------------------------
(* The workflow engine.                                                    *)

\* _event_map: the workflows with a trigger of this event and action.
EventMap(e, a) ==
  Filtered(WorkflowOrder, {t.wf : t \in {u \in Triggers : u.event = e /\ u.action = a}})

\* The action-qualified entry, else the bare one.
GetWorkflowForEvent(d) ==
  IF d.action # "" /\ EventMap(d.event, d.action) # <<>>
    THEN EventMap(d.event, d.action) ELSE EventMap(d.event, "")

\* check_filters: the filter kept for the workflow under the delivery's own
\* event key, else the workflow's.  A bare trigger's filter is kept under the
\* bare key, so for a delivery that has an action it is not looked at.
CheckFilters(w, d) ==
  LET own == {t \in Triggers : /\ t.wf = w /\ t.event = d.event /\ t.action = d.action
                               /\ t.only # {}}
      admits == IF own # {} THEN (CHOOSE t \in own : TRUE).only ELSE FiltersOf[w]
  IN  admits = {} \/ d.field \in admits

ShouldSkipSelf(w, d) == w \in SkipSelf /\ d.sender = "bot"

\* Command workflows first, then each event workflow that is not among them.
Matching(d) ==
  LET named == IF Command(d) \in Commands THEN commandMap[Command(d)] ELSE <<>>
      more == Filtered(GetWorkflowForEvent(d),
                       {w \in Workflows : CheckFilters(w, d) /\ ~Contains(named, w)})
  IN  named \o more

-----------------------------------------------------------------------------
(* The agent worker's reading of the job.                                  *)

\* Mutant: the is_pr field the webhook records is not looked at.
ThreadTypeOfEvent(d) ==
  IF d.event \in PullEvents THEN "pr"
  ELSE IF d.event \in {"discussion", "discussion_comment"} THEN "discussion" ELSE "issue"

\* resolve_thread_type.
ResolveThreadType(d) ==
  IF d.event \in PullEvents THEN "pr"
  ELSE IF d.event = "issue_comment" /\ IsPr(d) THEN "pr"
  ELSE IF d.event \in {"discussion", "discussion_comment"} THEN "discussion" ELSE "issue"

\* _parse_model_flag: the first --model and its value are cut out wherever
\* they are; an unknown tier counts as none.
ModelFlagAt(q) == SelectInSeq(q, LAMBDA x : x = "--model")
HasModelFlag(q) == ModelFlagAt(q) \in 1 .. Len(q) - 1
ParseModelFlag(q) ==
  IF HasModelFlag(q) /\ q[ModelFlagAt(q) + 1] \in Tiers THEN q[ModelFlagAt(q) + 1] ELSE None
WithoutModelFlag(q) ==
  IF HasModelFlag(q)
    THEN SubSeq(q, 1, ModelFlagAt(q) - 1) \o SubSeq(q, ModelFlagAt(q) + 2, Len(q)) ELSE q

\* _parse_session_flag: the query must begin with a slash word; the flag is
\* the word after it.
ParseSessionFlag(q) ==
  IF Len(q) >= 2 /\ IsSlashWord(q[1])
    THEN CASE q[2] \in {"-c", "--continue"} -> "resume"
           [] q[2] \in {"-f", "--fork"} -> "fork"
           [] q[2] = "--new" -> "new"
           [] OTHER -> ""
    ELSE ""

\* The session a job with a persistent conversation continues.
SessionMode(w, d) ==
  LET flag == ParseSessionFlag(WithoutModelFlag(UserQuery(d))) IN
  IF ~d.session THEN "new"
  ELSE IF flag # "" THEN flag
  ELSE IF w \in AutoContinue THEN "resume" ELSE "new"

Job(w, d) == [wf |-> w, thread |-> ResolveThreadType(d), ref |-> ResolveRef(d),
              tier |-> ParseModelFlag(UserQuery(d)), mode |-> SessionMode(w, d)]

JobsOf(ws, d) == [i \in DOMAIN ws |-> Job(ws[i], d)]

\* The handler.  matching_workflows is the list the engine keeps for the
\* command, not a copy, and append changes it in place.
Route(d) ==
  /\ routed < MaxDeliveries /\ routed' = routed + 1 /\ last' = d
  /\ IF Refused(d)
       THEN out' = <<>> /\ UNCHANGED commandMap
       ELSE /\ LET ws == Filtered(Matching(d), {w \in Workflows : ~ShouldSkipSelf(w, d)})
               IN  out' = JobsOf(ws, d)
            /\ commandMap' = [c \in Commands |->
                                IF c = Command(d) THEN Matching(d) ELSE commandMap[c]]

RouteNext == \E d \in Webhooks : Route(d)

RouteSpec == RouteInit /\ [][RouteNext]_routeVars

-----------------------------------------------------------------------------
(* Properties.                                                             *)

\* The webhook's ref and the agent worker's thread type, each computed on its
\* own, agree: a job runs on a pull request's head exactly when its session,
\* worktree and lock are those of a pull request.
ThreadRefAgree ==
  \A i \in DOMAIN out : out[i].thread = "pr" <=> out[i].ref = "pull"

\* However far the engine's table has grown, a delivery queues one job at most
\* for a workflow: the membership test of the event loop and the keys of the
\* configuration see to it.
StartedOnce == \A i, j \in DOMAIN out : out[i].wf = out[j].wf => i = j

\* "Since workflow configuration is static during runtime": a delivery starts
\* only workflows that workflows.yaml names for its command or its event.
RoutedAsConfigured ==
  \A i \in DOMAIN out :
    \/ Command(last) \in CommandsOf[out[i].wf]
    \/ Contains(GetWorkflowForEvent(last), out[i].wf)

=============================================================================
