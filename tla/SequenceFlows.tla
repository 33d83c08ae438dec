--------------------------- MODULE SequenceFlows ---------------------------
(***************************************************************************)
(* The flows the instance page colours.  The engine moves one token over a *)
(* process and keeps the history of its activity instances; the page works *)
(* out of that history alone which flows the token took.  Here both are:   *)
(* the token, with the flows it takes, and the rule of the page.           *)
(***************************************************************************)
EXTENDS Parts

CONSTANTS SequenceFlowList, \* of the process: <<source, target>>, in the order of the diagram
          Gateways,         \* its exclusive gateways
          StartEvent,
          MaxActivities,    \* bound of the activity instances of a history
          MaxMoves,         \* bound of the moves of the token
          MaxClock          \* bound of the time, in the engine's milliseconds

Flows == ToSet(SequenceFlowList)
Activities == {f[1] : f \in Flows} \union {f[2] : f \in Flows}
Outgoing(activity) == {f \in Flows : f[1] = activity}

\* A token that leaves an activity has one way to go, unless it is a gateway
ASSUME SequenceFlowsAssumption ==
  /\ SequenceFlowList \in Seq(Activities \X Activities)
  /\ Gateways \subseteq Activities /\ StartEvent \in Activities /\ Absent \notin Activities
  /\ \A a \in Activities \ Gateways : Cardinality(Outgoing(a)) <= 1
  /\ MaxActivities \in Nat /\ MaxMoves \in Nat /\ MaxClock \in Nat

VARIABLES
  historical, \* the activity instances: activityId, startTime, endTime, canceled
  clock,
  taken       \* the flows the token took

flowVars == <<historical, clock, taken>>

Instance(activity, now) ==
  [activityId |-> activity, startTime |-> now, endTime |-> Absent, canceled |-> FALSE]
Current == Len(historical) \* where the token is
TokenWaits == historical[Current].endTime = Absent
Ended(isCanceled) ==
  [historical EXCEPT ![Current] = [historical[Current] EXCEPT !.endTime = clock, !.canceled = isCanceled]]

\* colorSequenceFlows reads the history and, without their times, the active instances
Recorded == ToSet(historical)
InstancesOf(activity) == {i \in Recorded : i.activityId = activity}
HasExited(activity) == \E i \in InstancesOf(activity) : i.endTime # Absent /\ ~i.canceled
\* exclusiveGatewayTargetMap: the instances of all its targets, the active one twice
GatewayTargets(gateway) == {i \in Recorded : <<gateway, i.activityId>> \in Flows}
TargetCount(gateway) ==
  Cardinality({n \in DOMAIN historical : <<gateway, historical[n].activityId>> \in Flows})
    + (IF TokenWaits /\ <<gateway, historical[Current].activityId>> \in Flows THEN 1 ELSE 0)

Place(flow) == CHOOSE n \in DOMAIN SequenceFlowList : SequenceFlowList[n] = flow
\* What a gateway led to is the first of its targets to start after it, and of
\* those that started together the one that comes first in the diagram
LedTo(source, target) ==
  \E i \in GatewayTargets(source.activityId) :
    /\ i.activityId = target /\ i.startTime > source.startTime
    /\ \A j \in GatewayTargets(source.activityId) :
         j.startTime > source.startTime =>
           \/ i.startTime < j.startTime
           \/ /\ i.startTime = j.startTime
              /\ Place(<<source.activityId, target>>) <= Place(<<source.activityId, j.activityId>>)
\* Mutant: any target that started after the gateway will do
GatewayLedToSome(flow) ==
  \E source \in InstancesOf(flow[1]), i \in InstancesOf(flow[2]) : i.startTime > source.startTime
GatewayLedTo(flow) == \E source \in InstancesOf(flow[1]) : LedTo(source, flow[2])

\* An instance of the target started when or after one of the source had ended
InTemporalOrder(flow) ==
  \E source \in InstancesOf(flow[1]), target \in InstancesOf(flow[2]) :
    source.endTime # Absent /\ ~source.canceled /\ target.startTime >= source.endTime

SequencesToHighlight ==
  {flow \in Flows :
     /\ flow[1] \in Gateways /\ InstancesOf(flow[1]) # {} /\ TargetCount(flow[1]) > 1
          => GatewayLedTo(flow)
     /\ HasExited(flow[1]) /\ InstancesOf(flow[2]) # {}
     /\ InTemporalOrder(flow)}
-----------------------------------------------------------------------------
FlowsInit ==
  /\ historical = <<Instance(StartEvent, 1)>> /\ clock = 1 /\ taken = {}

\* The engine's clock
Tick == /\ TokenWaits /\ clock < MaxClock /\ clock' = clock + 1
        /\ UNCHANGED <<historical, taken>>

\* The token leaves its activity over a flow, if there is one, and is at the next at once
Leave(flow) ==
  /\ TokenWaits /\ historical[Current].activityId = flow[1] /\ Current < MaxActivities
  /\ historical' = Append(Ended(FALSE), Instance(flow[2], clock))
  /\ taken' = taken \union {flow}
  /\ UNCHANGED clock

EndEvent ==
  /\ TokenWaits /\ Outgoing(historical[Current].activityId) = {}
  /\ historical' = Ended(FALSE)
  /\ UNCHANGED <<clock, taken>>

\* A user moves the token, some time after it came and never from a gateway,
\* which the engine leaves in the transaction that enters it: its activity is canceled, another started
MoveToken(activity) ==
  /\ Event(MaxMoves) /\ TokenWaits /\ Current < MaxActivities
  /\ historical[Current].startTime < clock /\ historical[Current].activityId \notin Gateways
  /\ historical' = Append(Ended(TRUE), Instance(activity, clock))
  /\ UNCHANGED <<clock, taken>>

FlowsNext ==
  \/ (Tick \/ EndEvent \/ \E flow \in Flows : Leave(flow)) /\ UNCHANGED events
  \/ \E activity \in Activities : MoveToken(activity)
-----------------------------------------------------------------------------
\* The times of the history tell a gateway from what it led to, and one target of it from another
TimesTellApart ==
  \A m, n \in DOMAIN historical :
    LET earlier == historical[m] later == historical[n] IN
    m < n /\ (\E g \in Gateways : /\ <<g, later.activityId>> \in Flows
                                 /\ (earlier.activityId = g \/ <<g, earlier.activityId>> \in Flows))
      => earlier.startTime < later.startTime

\* The page colours the flows the token took and no other, through loops and
\* over activities that were canceled and moved, as long as the times of the
\* history tell apart what the rule tells apart by them (colorSequenceFlows).
ColouredFlowsWereTaken == TimesTellApart => SequencesToHighlight = taken
=============================================================================
