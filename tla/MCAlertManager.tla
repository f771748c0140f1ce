--------------------------- MODULE MCAlertManager ---------------------------
(***************************************************************************)
(* Constants of the model-checking runs of AlertManager.                   *)
(***************************************************************************)
EXTENDS AlertManager, TLC

CONSTANTS e1, d1, d2

OneDevice == [d \in {d1} |-> e1]
TwoDevices == [d \in {d1, d2} |-> e1]

HotRule == [type |-> "metric", op |-> "gt", threshold |-> 1, hysteresis |-> 1, window |-> NoWindow]
SlowRule == [type |-> "metric", op |-> "gt", threshold |-> 1, hysteresis |-> 0, window |-> 1]
GoneRule == [type |-> "offline", maxPollAge |-> 1]
FailRule == [type |-> "prediction", ptype |-> "wear", minProb |-> 1, maxEta |-> NoEta]
EitherRule == [type |-> "composite", op |-> "or", parts |-> {GoneRule, SlowRule}]

\* Reports: a healthy device below the hysteresis band, and a failing one
\* whose metric is past the threshold.
Report(status, reading) == [status |-> status, reading |-> reading]
Low == Report(Healthy, Number(0))
High == Report(ErrorState, Number(2))

ForRule(v) == [r \in Rules |-> v]
CapOne == ForRule(1)
RuleSlowOrGone == ForRule(EitherRule)
LowHigh == {Low, High}
RuleHot == ForRule(HotRule)
RuleFail == ForRule(FailRule)
OnlyStrong == {[prob |-> 2, eta |-> NoEta]}
WithOrWithout == {Rules, {}}
AllConfigured == {Rules}
ZeroEach == [s \in Sources |-> 0]
OneEach == [s \in Sources |-> 1]
DeviceSymmetry == Permutations({d1, d2})
====
