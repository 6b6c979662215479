-------------------------- MODULE ComponentsProofs --------------------------
(***************************************************************************)
(* The composition of MCComponents implements the specification of each    *)
(* of its components: a step of it is a step of the component that was     *)
(* selected and leaves the others' variables alone.  What is proved of a   *)
(* component by itself therefore holds of the composition, whose           *)
(* invariants the runs check: its type correctness, and the safety         *)
(* properties.                                                             *)
(***************************************************************************)
EXTENDS MCComponents, KeyProofs, ObserverProofs, JobPathProofs

\* Interleaving the components one at a time gives each of them only behaviours
\* of its own, so what runs side by side in MCComponents is what the theorems
\* about the components are about.
THEOREM ComponentsImplement ==
  Spec => /\ FeedSpec /\ KeysSpec /\ TreesSpec /\ TurnSpec /\ HookSpec
          /\ WorkSpec /\ SchedSpec /\ RateSpec /\ RouteSpec /\ TraceSpec
<1>1. Init => /\ FeedInit /\ KeysInit /\ TreesInit /\ TurnInit /\ HookInit
              /\ WorkInit /\ SchedInit /\ RateInit /\ RouteInit /\ TraceInit
  BY DEF Init
<1>2. [Next]_vars => [FeedNext]_feedVars
  BY DEF Next, vars
<1>3. [Next]_vars => [KeysNext]_keyVars
  BY DEF Next, vars
<1>4. [Next]_vars => [TreesNext]_treeVars
  BY DEF Next, vars
<1>5. [Next]_vars => [TurnNext]_turnVars
  BY DEF Next, vars
<1>6. [Next]_vars => [HookNext]_hookVars
  BY DEF Next, vars
<1>7. [Next]_vars => [WorkNext]_workVars
  BY DEF Next, vars
<1>8. [Next]_vars => [SchedNext]_schedVars
  BY DEF Next, vars
<1>9. [Next]_vars => [RateNext]_rateVars
  BY DEF Next, vars
<1>10. [Next]_vars => [RouteNext]_routeVars
  BY DEF Next, vars
<1>11. [Next]_vars => [TraceNext]_traceVars
  BY DEF Next, vars
<1> QED
  BY <1>1, <1>2, <1>3, <1>4, <1>5, <1>6, <1>7, <1>8, <1>9, <1>10, <1>11, PTL
     DEF Spec, FeedSpec, KeysSpec, TreesSpec, TurnSpec, HookSpec, WorkSpec, SchedSpec,
         RateSpec, RouteSpec, TraceSpec

\* The selected component keeps its variables in their types, for all values of
\* all the components' constants that their assumptions allow.
THEOREM ComponentsTyped == Spec => []TypeOK
<1>1. Init => which \in Selectable
  BY DEF Init
<1>2. which \in Selectable /\ [Next]_vars => (which \in Selectable)'
  BY DEF Next, vars
<1>3. /\ which \in Selectable
      /\ FeedTypeOK /\ KeysTypeOK /\ TreesTypeOK /\ TurnTypeOK /\ HookTypeOK
      /\ WorkTypeOK /\ SchedTypeOK /\ RateTypeOK /\ RouteTypeOK /\ TraceTypeOK
      => TypeOK
  BY DEF TypeOK
<1>4. /\ FeedSpec => []FeedTypeOK
      /\ KeysSpec => []KeysTypeOK
      /\ TreesSpec => []TreesTypeOK
      /\ TurnSpec => []TurnTypeOK
      /\ HookSpec => []HookTypeOK
  BY Constants, FeedTyped, KeysTyped, TreesTyped, TurnTyped, HookTyped DEF Constants
<1>5. /\ WorkSpec => []WorkTypeOK
      /\ SchedSpec => []SchedTypeOK
      /\ RateSpec => []RateTypeOK
      /\ RouteSpec => []RouteTypeOK
      /\ TraceSpec => []TraceTypeOK
  BY Constants, WorkTyped, SchedTyped, RateTyped, RouteTyped, TraceTyped DEF Constants
<1> QED
  BY <1>1, <1>2, <1>3, <1>4, <1>5, ComponentsImplement, PTL DEF Spec

\* The safety properties of the components hold of the composition: what the run
\* of MCComponents checks for its small constants, for all values of them.
THEOREM ComponentsSafe ==
  Spec => []( /\ FeedComplete /\ TracedOnce
              /\ SessionReachable /\ NoEternalKey /\ OnePerStamp /\ WindowRespected
              /\ QueuedOnce /\ RetryAccepted /\ ThreadRefAgree
              /\ WorktreeReady /\ ClosedWhenQuiet /\ JobAccounted )
<1>1. /\ FeedSpec => []FeedComplete
      /\ TraceSpec => []TracedOnce
  BY Constants, FeedsComplete, TurnsTracedOnce DEF Constants
<1>2. /\ KeysSpec => []SessionReachable
      /\ KeysSpec => []NoEternalKey
      /\ SchedSpec => []OnePerStamp
      /\ RateSpec => []WindowRespected
  BY Constants, SessionsFound, EveryKeyExpires, TickDeduplicated, WindowBound DEF Constants
<1>3. /\ HookSpec => []QueuedOnce
      /\ HookSpec => []RetryAccepted
      /\ RouteSpec => []ThreadRefAgree
  BY Constants, DeliveryQueuedOnce, RetryNotRefused, RoutesAgree DEF Constants
<1>4. /\ TreesSpec => []WorktreeReady
      /\ TurnSpec => []ClosedWhenQuiet
      /\ WorkSpec => []JobAccounted
  BY Constants, TreesReady, ResultClosesQuiet, JobsAccounted DEF Constants
<1> QED
  BY <1>1, <1>2, <1>3, <1>4, ComponentsImplement, PTL

=============================================================================
