----------------------------- MODULE MCFlowControl -----------------------------
(* FlowControl for TLC, with a client that keeps to one scenario. *)
EXTENDS MCConnection, FlowControl

CONSTANT Scenarios \* what the client may do: frames, at most how many, and the
                   \* initial window of its first SETTINGS

ASSUME ScenariosAssumption ==
  \A c \in Scenarios : c.frames \subseteq ClientFrames /\ c.most <= MaxFrames

VARIABLE scenario

scenarioVars == <<flowVars, scenario>>

ScenarioInit == FlowInit /\ scenario \in Scenarios /\ leastWindow = scenario.window
ScenarioNext ==
  /\ UNCHANGED scenario
  /\ \/ \E f \in scenario.frames :
          framesRead < scenario.most /\ ReadFrame(f) /\ Granting(f) /\ Announcing(f)
     \/ OtherThanReading /\ UNCHANGED <<granted, leastWindow>>
ScenarioSpec     == ScenarioInit /\ [][ScenarioNext]_scenarioVars
ScenarioFairSpec == ScenarioSpec /\ Fairness

TrafficScenarios ==
  {[frames |-> RequestFrames, most |-> 3, window |-> InitWindow],
   [frames |-> TrailerFrames, most |-> 4, window |-> InitWindow],
   [frames |-> ControlFrames, most |-> 3, window |-> InitWindow]}
ProgressScenarios ==
  {[frames |-> ContendingFrames, most |-> 3, window |-> InitWindow],
   [frames |-> BodyFrames, most |-> 3, window |-> InitWindow]}
SmallScenarios ==
  {[frames |-> CreditFrames, most |-> 2, window |-> InitWindow - 1]}

AnyFrame == UNION {c.frames : c \in TrafficScenarios \cup ProgressScenarios}
=============================================================================
