----------------------------- MODULE Autoscaler -----------------------------
(***************************************************************************)
(* The autoscaler of one project (internal/autoscaler) with the handlers   *)
(* that call it: requests evaluate the policy concurrently, and each may   *)
(* scale the running deployment.                                           *)
(*                                                                         *)
(* Time is counted in ticks.  A stamp is represented by its age, up to the *)
(* age at which no cooldown window contains it.                            *)
(***************************************************************************)
EXTENDS Integers, FiniteSets

CONSTANTS
    Evals,          \* evaluation requests
    Policies,       \* the policies that may be set: [min, max, tolerance in percent]
    Metrics,        \* values of the metric
    TargetValue,
    ScaleUpCooldown, ScaleDownCooldown,
    MaxReplicas     \* bound on what users scale to

Old == IF ScaleUpCooldown > ScaleDownCooldown THEN ScaleUpCooldown ELSE ScaleDownCooldown
ScaleAges == 0..Old

ASSUME AutoscalerAssumption ==
    /\ Policies \subseteq [min : Nat, max : Nat, tolerance : Nat] /\ Policies # {}
    /\ Metrics \subseteq Nat /\ TargetValue \in Nat \ {0}
    /\ ScaleUpCooldown \in Nat /\ ScaleDownCooldown \in Nat /\ MaxReplicas \in Nat

VARIABLES
    replicas,               \* InstanceCount of the running deployment
    policy,                 \* the policy set, as a set: empty until there is one
    lastScaleUp, lastScaleDown,
    eval,                   \* the evaluation of each request
    overlap,                \* the requests under way during each one (history)
    scaledUp, scaledDown    \* the time since it last scaled up, or down (history)

autoscaler == <<replicas, policy, lastScaleUp, lastScaleDown, eval, overlap, scaledUp, scaledDown>>
stamps == <<lastScaleUp, lastScaleDown>>
scaled == <<scaledUp, scaledDown>>

NoEval == [at |-> "idle", policy |-> CHOOSE p \in Policies : TRUE, up |-> Old, down |-> Old,
           from |-> 1, to |-> 1, action |-> "NONE", metric |-> 0]

AutoscalerInit ==
    /\ replicas = 1
    /\ policy = {}
    /\ lastScaleUp = Old /\ lastScaleDown = Old
    /\ eval = [e \in Evals |-> NoEval]
    /\ overlap = [e \in Evals |-> {}]
    /\ scaledUp = Old /\ scaledDown = Old

-----------------------------------------------------------------------------
(* CalculateDesiredReplicas                                                 *)

Ceil(n, d) == (n + d - 1) \div d
Lower(m, n) == IF m <= n THEN m ELSE n
Upper(m, n) == IF m >= n THEN m ELSE n

\* MinReplicas and MaxReplicas as normalised.
Floor(p) == Upper(p.min, 1)
Ceiling(p) == Upper(p.max, Floor(p))

Tolerance(p) == IF p.tolerance = 0 THEN 10 ELSE p.tolerance

\* Metrics and targets are float64 in the code.  Where the exact value lies on the
\* edge of the deadband the rounded ratio may fall on either side of it ...
InDeadband(metric, p) ==
    LET distance == IF metric > TargetValue THEN metric - TargetValue ELSE TargetValue - metric
        width == Tolerance(p) * TargetValue
    IN  IF 100 * distance = width THEN BOOLEAN ELSE {100 * distance < width}

\* ... and where it is a whole number of replicas, reached through a ratio that is
\* not, the rounded product may lie on it or to either side.
Edge(current, metric) == metric % TargetValue # 0 /\ (current * metric) % TargetValue = 0

Ceils(current, metric) ==
    LET c == Ceil(current * metric, TargetValue)
    IN  IF Edge(current, metric) THEN {c, c + 1} ELSE {c}

Floors(current, metric) ==
    LET f == (current * metric) \div TargetValue
    IN  IF Edge(current, metric) THEN {f, f - 1} ELSE {f}

\* Mutant: a partly used replica is not counted.
DesiredUp_Floor(current, metric, p) ==
    {Lower(Upper(n, current + 1), Ceiling(p)) : n \in Floors(current, metric)}

DesiredUp(current, metric, p) ==
    {Lower(Upper(n, current + 1), Ceiling(p)) : n \in Ceils(current, metric)}

DesiredDown(current, metric, p) ==
    {Upper(Lower(n, current - 1), Floor(p)) : n \in Floors(current, metric)}

\* The counts the policy may ask for; none is asked for inside the deadband.
Desired(current, metric, p) ==
    (IF TRUE \in InDeadband(metric, p) THEN {current} ELSE {})
    \cup (IF FALSE \in InDeadband(metric, p)
           THEN IF metric > TargetValue THEN DesiredUp(current, metric, p)
                                        ELSE DesiredDown(current, metric, p)
           ELSE {})

Action(current, metric, desired) ==
    IF desired = current THEN "NONE"
    ELSE IF metric > TargetValue THEN "SCALE_UP" ELSE "SCALE_DOWN"

-----------------------------------------------------------------------------
(* EvaluateAndScale                                                         *)

\* Evaluate reads the policy and the stamps under the lock; without a policy it
\* returns ...
ReadPolicy(e) ==
    /\ eval[e].at = "idle"
    /\ \E p \in policy :
         eval' = [eval EXCEPT ![e] = [NoEval EXCEPT !.at = "decide", !.policy = p,
                                                    !.up = lastScaleUp, !.down = lastScaleDown]]
    /\ LET active == {f \in Evals \ {e} : eval[f].at # "idle"} IN
         overlap' = [f \in Evals |-> IF f = e THEN active
                                     ELSE IF f \in active THEN overlap[f] \cup {e} ELSE overlap[f]]
    /\ UNCHANGED <<replicas, policy, stamps, scaled>>

Suppressed(e, action) ==
    \/ action = "SCALE_UP" /\ eval[e].up < ScaleUpCooldown
    \/ action = "SCALE_DOWN" /\ (eval[e].down < ScaleDownCooldown \/ eval[e].up < ScaleDownCooldown)

\* ... then the replica count and the metric, and decides.  Without a running
\* deployment or a metric nothing is done.
Decide(e) ==
    /\ eval[e].at = "decide"
    /\ \/ eval' = [eval EXCEPT ![e] = NoEval]
       \/ \E metric \in Metrics : \E desired \in Desired(replicas, metric, eval[e].policy) :
            LET action == Action(replicas, metric, desired) IN
              eval' = [eval EXCEPT ![e] =
                         IF action = "NONE" \/ Suppressed(e, action) THEN NoEval
                         ELSE [NoEval EXCEPT !.at = "scale", !.policy = eval[e].policy, !.action = action,
                                 !.metric = metric, !.from = replicas, !.to = desired]]
    /\ UNCHANGED <<replicas, policy, stamps, overlap, scaled>>

\* ScaleDeployment, which may fail: the count is written last, so that a scale-up
\* that fails half way has started instances but changes neither count nor stamp.
Scale(e) ==
    /\ eval[e].at = "scale"
    /\ \/ /\ replicas' = eval[e].to
          /\ eval' = [eval EXCEPT ![e] = [NoEval EXCEPT !.at = "stamp", !.action = eval[e].action]]
          /\ scaledUp' = IF eval[e].action = "SCALE_UP" THEN 0 ELSE scaledUp
          /\ scaledDown' = IF eval[e].action = "SCALE_DOWN" THEN 0 ELSE scaledDown
       \/ eval' = [eval EXCEPT ![e] = NoEval] /\ UNCHANGED <<replicas, scaled>>
    /\ UNCHANGED <<policy, stamps, overlap>>

\* Mutant: the other action's stamp is set.
Stamp_Swapped(e) ==
    /\ eval[e].at = "stamp"
    /\ lastScaleUp' = IF eval[e].action = "SCALE_DOWN" THEN 0 ELSE lastScaleUp
    /\ lastScaleDown' = IF eval[e].action = "SCALE_UP" THEN 0 ELSE lastScaleDown
    /\ eval' = [eval EXCEPT ![e] = NoEval]
    /\ UNCHANGED <<replicas, policy, overlap, scaled>>

\* The project's record and the event that follow are not read here.
Stamp(e) ==
    /\ eval[e].at = "stamp"
    /\ lastScaleUp' = IF eval[e].action = "SCALE_UP" THEN 0 ELSE lastScaleUp
    /\ lastScaleDown' = IF eval[e].action = "SCALE_DOWN" THEN 0 ELSE lastScaleDown
    /\ eval' = [eval EXCEPT ![e] = NoEval]
    /\ UNCHANGED <<replicas, policy, overlap, scaled>>

EvaluateAutoscaler(e) == ReadPolicy(e) \/ Decide(e) \/ Scale(e) \/ Stamp(e)

\* setAutoscalerPolicy replaces the policy.
SetPolicy(p) ==
    /\ policy # {p} /\ policy' = {p}
    /\ UNCHANGED <<replicas, stamps, eval, overlap, scaled>>

\* scaleProject: a user scales, past the policy and the stamps.
ScaleProject(n) ==
    /\ replicas # n /\ replicas' = n
    /\ UNCHANGED <<policy, stamps, eval, overlap, scaled>>

Age(a) == IF a < Old THEN a + 1 ELSE Old

ScaleTick ==
    /\ lastScaleUp' = Age(lastScaleUp) /\ lastScaleDown' = Age(lastScaleDown)
    /\ scaledUp' = Age(scaledUp) /\ scaledDown' = Age(scaledDown)
    /\ eval' = [e \in Evals |-> [eval[e] EXCEPT !.up = Age(@), !.down = Age(@)]]
    /\ UNCHANGED <<replicas, policy, overlap>>

AutoscalerNext ==
    \/ \E e \in Evals : EvaluateAutoscaler(e)
    \/ \E p \in Policies : SetPolicy(p)
    \/ \E n \in 1..MaxReplicas : ScaleProject(n)
    \/ ScaleTick

AutoscalerSpec == AutoscalerInit /\ [][AutoscalerNext]_autoscaler

-----------------------------------------------------------------------------
(* Properties                                                               *)

\* A decision follows from what was measured: up to the fewest replicas that bring
\* the metric down to the target, never past the policy's ceiling, or down to the
\* most that bring it up to the target, never past the floor.  Only the bound in
\* the direction of the step is enforced.  The floating-point division may cost one
\* replica more, or one less, when the target is met exactly, and no further.
DecisionSound ==
    \A e \in Evals : eval[e].at = "scale" =>
      LET lo == Floor(eval[e].policy)
          hi == Ceiling(eval[e].policy)
          to == eval[e].to
          load == eval[e].from * eval[e].metric
      IN  /\ to # eval[e].from
          /\ IF eval[e].action = "SCALE_UP"
               THEN \/ to = hi
                    \/ to < hi /\ to * TargetValue >= load /\ (to - 1) * TargetValue <= load
               ELSE \/ to = lo
                    \/ to > lo /\ to * TargetValue <= load /\ (to + 1) * TargetValue >= load

\* Gate G-32: an evaluation that no other overlapped scales up, or down, only
\* outside the cooldown windows of the scalings that succeeded before it.
CooldownKept ==
    [][\A e \in Evals :
         eval[e].at = "scale" /\ eval'[e].at = "stamp" /\ overlap[e] = {} =>
           IF eval[e].action = "SCALE_UP"
             THEN scaledUp >= ScaleUpCooldown
             ELSE scaledUp >= ScaleDownCooldown /\ scaledDown >= ScaleDownCooldown]_autoscaler

=============================================================================
