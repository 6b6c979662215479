---------------------------- MODULE MCComponents ----------------------------
(***************************************************************************)
(* The components around the job queue and the job processor, side by      *)
(* side.  They share no variable (what one learns from another is an input *)
(* its own module enumerates), so interleaving two of them shows nothing   *)
(* that each alone does not: Init selects one, and the others stay in      *)
(* their first state.                                                      *)
(***************************************************************************)
EXTENDS BrowserFeed, SessionKeys, Worktrees, SdkTurn, WebhookDelivery, BackgroundWorkers,
        Scheduler, RateLimiter, EventRouting, TranscriptTrace

CONSTANTS ra, rb

TwoRepos == <<ra, rb>>

\* A workflows.yaml with each form of trigger, and deliveries for each way the
\* handler can take.
Yaml == <<"triage", "review", "ci">>
YamlTriggers ==
  {[wf |-> "triage", event |-> "issues", action |-> "opened", only |-> {}],
   [wf |-> "triage", event |-> "pull_request", action |-> "opened", only |-> {}],
   [wf |-> "review", event |-> "pull_request", action |-> "labeled", only |-> {"review"}],
   [wf |-> "review", event |-> "pull_request_review", action |-> "", only |-> {}],
   [wf |-> "ci", event |-> "workflow_job", action |-> "completed", only |-> {"failure"}],
   [wf |-> "ci", event |-> "create", action |-> "", only |-> {}]}
YamlCommands == [triage |-> {"/triage"}, review |-> {"/review"}, ci |-> {"/fix-ci"}]
YamlFilters == [triage |-> {}, review |-> {}, ci |-> {}]

Bodies == {<<>>, <<"text">>, <<"/review">>, <<"/review", "-c">>,
           <<"/review", "--model", "opus", "--new">>, <<"/BAD">>, <<"/unknown">>}
Hook(events, actions, bodies, fields, prs) ==
  [event : events, action : actions, body : bodies, field : fields, pr : prs,
   sender : {"user", "bot"}, session : BOOLEAN]
Hooks ==
  Hook({"issues", "pull_request"}, {"opened", "edited"}, Bodies, {""}, {FALSE})
  \cup Hook({"issue_comment", "discussion_comment"}, {"created"}, Bodies, {""}, {FALSE})
  \cup Hook({"issue_comment"}, {"created"}, Bodies, {""}, {TRUE})
  \cup Hook({"pull_request"}, {"labeled"}, {<<>>}, {"review", "bug"}, {FALSE})
  \cup Hook({"workflow_job"}, {"completed"}, {<<>>}, {"failure", "success"}, {FALSE})
  \cup Hook({"pull_request_review"}, {"submitted"}, {<<>>}, {""}, {FALSE})
  \cup Hook({"create"}, {""}, {<<>>}, {"tag", "branch"}, {FALSE})

-----------------------------------------------------------------------------

VARIABLE which  \* the component that runs

Selectable ==
  {"feed", "keys", "trees", "turn", "hook", "work", "sched", "rate", "route", "trace"}

\* The constants satisfy what the theorems about the components assume.
ASSUME Constants ==
  /\ HookAssumption /\ HookBounds /\ RateAssumption /\ KeysAssumption /\ SchedAssumption
  /\ FeedAssumption /\ FeedBounds /\ TraceAssumption /\ RouteAssumption
  /\ TreesAssumption /\ TurnAssumption /\ WorkAssumption

vars == <<which, feedVars, keyVars, treeVars, turnVars, hookVars, workVars, schedVars,
          rateVars, routeVars, traceVars>>

\* The choices other components' Inits leave open are taken once.
Init ==
  /\ which \in Selectable
  /\ FeedInit /\ KeysInit /\ TreesInit /\ TurnInit
  /\ HookInit /\ WorkInit /\ SchedInit /\ RateInit
  /\ RouteInit /\ TraceInit
  /\ which # "trees" => resumes = [j \in Jobs |-> FALSE]
  /\ which # "hook" => load = [d \in Deliveries |-> "job"]
  /\ which # "rate" => backend = "memory"

Next ==
  \/ /\ which = "feed" /\ FeedNext
     /\ UNCHANGED <<which, keyVars, treeVars, turnVars, hookVars, workVars, schedVars,
                    rateVars, routeVars, traceVars>>
  \/ /\ which = "keys" /\ KeysNext
     /\ UNCHANGED <<which, feedVars, treeVars, turnVars, hookVars, workVars, schedVars,
                    rateVars, routeVars, traceVars>>
  \/ /\ which = "trees" /\ TreesNext
     /\ UNCHANGED <<which, feedVars, keyVars, turnVars, hookVars, workVars, schedVars,
                    rateVars, routeVars, traceVars>>
  \/ /\ which = "turn" /\ TurnNext
     /\ UNCHANGED <<which, feedVars, keyVars, treeVars, hookVars, workVars, schedVars,
                    rateVars, routeVars, traceVars>>
  \/ /\ which = "hook" /\ HookNext
     /\ UNCHANGED <<which, feedVars, keyVars, treeVars, turnVars, workVars, schedVars,
                    rateVars, routeVars, traceVars>>
  \/ /\ which = "work" /\ WorkNext
     /\ UNCHANGED <<which, feedVars, keyVars, treeVars, turnVars, hookVars, schedVars,
                    rateVars, routeVars, traceVars>>
  \/ /\ which = "sched" /\ SchedNext
     /\ UNCHANGED <<which, feedVars, keyVars, treeVars, turnVars, hookVars, workVars,
                    rateVars, routeVars, traceVars>>
  \/ /\ which = "rate" /\ RateNext
     /\ UNCHANGED <<which, feedVars, keyVars, treeVars, turnVars, hookVars, workVars,
                    schedVars, routeVars, traceVars>>
  \/ /\ which = "route" /\ RouteNext
     /\ UNCHANGED <<which, feedVars, keyVars, treeVars, turnVars, hookVars, workVars,
                    schedVars, rateVars, traceVars>>
  \/ /\ which = "trace" /\ TraceNext
     /\ UNCHANGED <<which, feedVars, keyVars, treeVars, turnVars, hookVars, workVars,
                    schedVars, rateVars, routeVars>>

Spec == Init /\ [][Next]_vars

-----------------------------------------------------------------------------

\* One component is selected, and it keeps its variables in their types.
TypeOK ==
  /\ which \in Selectable
  /\ which = "feed"  => FeedTypeOK
  /\ which = "keys"  => KeysTypeOK
  /\ which = "trees" => TreesTypeOK
  /\ which = "turn"  => TurnTypeOK
  /\ which = "hook"  => HookTypeOK
  /\ which = "work"  => WorkTypeOK
  /\ which = "sched" => SchedTypeOK
  /\ which = "rate"  => RateTypeOK
  /\ which = "route" => RouteTypeOK
  /\ which = "trace" => TraceTypeOK

=============================================================================
