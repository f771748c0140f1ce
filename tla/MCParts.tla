------------------------------- MODULE MCParts -------------------------------
(***************************************************************************)
(* Ten components that share no state, explored side by side: a behaviour  *)
(* is one of the component `part` while the others stay as they started.   *)
(***************************************************************************)
EXTENDS PredictionModels, AnomalyDetector, Notifier, RuleSetup, Widget, WidgetWindow, WidgetPoll,
        NiDrivers, Conversation, SimEdge, TLC

VARIABLE part

-----------------------------------------------------------------------------
(* Predictions: a metric that climbs or falls by several degrees a minute,   *)
(* read every one or two minutes or after a pause, with the clock set back   *)
(* by one.                                                                   *)

MCSteps == {-1, 1, 2, 5}
MCThresholdPairs == {<<4, 6>>, <<2, 5>>}

-----------------------------------------------------------------------------
(* Notifications: a channel that refuses, one that works, one that is off,   *)
(* and a type that is not known.                                             *)

Channel(id, type, enabled, smtp) == [id |-> id, type |-> type, enabled |-> enabled, smtp |-> smtp]
MCConfigured == << Channel("mail", "email", TRUE, "password_without_tls"),
                   Channel("hook", "webhook", TRUE, "none"),
                   Channel("old", "slack", FALSE, "none"),
                   Channel("pager", "sms", FALSE, "none") >>
MCRuleChannels == [r1 |-> {}, r2 |-> {"hook"}, r3 |-> {"old", "gone"}]

-----------------------------------------------------------------------------
(* Rules: names that come to one id, or to the id another gets by number.    *)

Leaf(key, fields) == [key |-> key, fields |-> fields, parts |-> <<>>]
Hot == Leaf("", [metric |-> "ok", threshold |-> "ok", comparison |-> "ok"])
Dead == Leaf("", [max_minutes_since_poll |-> "ok"])
NoThreshold == Leaf("MetricThreshold", [metric |-> "ok"])
BadStatus == Leaf("HealthStatusChange", [to |-> "refused"])
Unreadable == Leaf("Prediction", [prediction_type |-> "ok", min_probability |-> "null"])
AllOf(parts) == [key |-> "Composite", fields |-> [operator |-> "ok", conditions |-> "ok"], parts |-> parts]

Entry(name, condition, action, fallback) ==
  [name |-> name, condition |-> condition, action |-> action, fallback |-> fallback,
   severity |-> "warning", cooldown |-> {}]
MCEntries ==
  { Entry(<<"High", "_", "temp">>, Hot, "none", "script"),
    Entry(<<"High", "_", "Temp", "_">>, AllOf(<<Hot, Dead>>), "script", "custom_script"),
    Entry(<<"High", "_", "temp", "_", "2">>, Hot, "custom_script", "none"),
    Entry(<<"_">>, AllOf(<<Hot, BadStatus>>), "power_cycle", "none"),
    [Entry(<<"rule">>, Hot, "none", "none") EXCEPT !.cooldown = {-1}],
    Entry(<<"rule">>, NoThreshold, "none", "none"),
    Entry(<<"_">>, Hot, "script", "script_as_user"),
    Entry(<<"rule">>, Unreadable, "none", "none") }
MCLowerCase == [w \in {"High", "temp", "Temp", "2", "rule"} |->
                  CASE w = "High" -> "high" [] w = "Temp" -> "temp" [] OTHER -> w]
MCBuiltIn == << [id |-> <<"rule", "high", "temp">>, entry |-> 0, cooldown |-> 5] >>
BelowZero == -3

-----------------------------------------------------------------------------
(* Hosts of the hub: console, service and widget.  The widget's hub takes no *)
(* samples, since how they are kept is the same under each.                  *)

MCSamples == [h \in Hosts |-> IF h = "widget" THEN 0 ELSE 2]

-----------------------------------------------------------------------------
(* The widget's window: monitors of two scales, side by side or one below.   *)

Rect(x, y, w, h) == [x |-> x, y |-> y, w |-> w, h |-> h]
Left == [bounds |-> Rect(0, 0, 20, 14), work |-> Rect(0, 0, 20, 13), scale |-> 1]
Right == [bounds |-> Rect(20, 0, 40, 26), work |-> Rect(20, 0, 40, 24), scale |-> 2]
Low == [bounds |-> Rect(-18, 6, 18, 12), work |-> Rect(-18, 6, 18, 12), scale |-> 1]
MCSetups == {<<Left, Right>>, <<Right>>, <<Left, Low>>}
MCMoves == {<<-8, -5>>, <<9, 5>>}
MCSaved == {[dock |-> <<45, 7>>, locked |-> FALSE], [dock |-> <<-7, 9>>, locked |-> TRUE]}

-----------------------------------------------------------------------------

(* The simulated edge's back-off: short at first.                            *)

MCBackoffs == <<1, 4>>

-----------------------------------------------------------------------------

\* A component that is not looked at starts in one way only.
PartsInit ==
  /\ part \in {"trend", "anomaly", "notices", "rules", "hosts", "window", "poll", "drivers",
              "talk", "simulator"}
  /\ Init /\ DetectorInit /\ NotifierInit /\ SetupInit /\ WidgetInit /\ WindowInit /\ PollInit
  /\ NiInit /\ TalkInit /\ SimInit
  /\ part # "trend" => thresholds = <<4, 6>>
  /\ part # "hosts" => host = "console"
  /\ part # "window" => monitors = <<Right>> /\ ~locked
  /\ part # "poll" => hubUp
  /\ part # "drivers" => library = "visa" /\ installed
  /\ part # "talk" => peer = "ours"
  /\ part # "simulator" => scenario = "offline"

PartsNext ==
  /\ UNCHANGED part
  /\ \/ /\ part = "trend" /\ Next
        /\ UNCHANGED <<detectorVars, notifierVars, setupVars, widgetVars, windowVars,
                       pollVars, niVars, talkVars, simVars>>
     \/ /\ part = "anomaly" /\ DetectorNext
        /\ UNCHANGED <<vars, notifierVars, setupVars, widgetVars, windowVars,
                       pollVars, niVars, talkVars, simVars>>
     \/ /\ part = "notices" /\ NotifierNext
        /\ UNCHANGED <<vars, detectorVars, setupVars, widgetVars, windowVars,
                       pollVars, niVars, talkVars, simVars>>
     \/ /\ part = "rules" /\ SetupNext
        /\ UNCHANGED <<vars, detectorVars, notifierVars, widgetVars, windowVars,
                       pollVars, niVars, talkVars, simVars>>
     \/ /\ part = "hosts" /\ WidgetNext
        /\ UNCHANGED <<vars, detectorVars, notifierVars, setupVars, windowVars,
                       pollVars, niVars, talkVars, simVars>>
     \/ /\ part = "window" /\ WindowNext
        /\ UNCHANGED <<vars, detectorVars, notifierVars, setupVars, widgetVars,
                       pollVars, niVars, talkVars, simVars>>
     \/ /\ part = "poll" /\ PollNext
        /\ UNCHANGED <<vars, detectorVars, notifierVars, setupVars, widgetVars,
                       windowVars, niVars, talkVars, simVars>>
     \/ /\ part = "drivers" /\ NiNext
        /\ UNCHANGED <<vars, detectorVars, notifierVars, setupVars, widgetVars,
                       windowVars, pollVars, talkVars, simVars>>
     \/ /\ part = "talk" /\ TalkNext
        /\ UNCHANGED <<vars, detectorVars, notifierVars, setupVars, widgetVars,
                       windowVars, pollVars, niVars, simVars>>
     \/ /\ part = "simulator" /\ SimNext
        /\ UNCHANGED <<vars, detectorVars, notifierVars, setupVars, widgetVars,
                       windowVars, pollVars, niVars, talkVars>>

partsVars == <<part, vars, detectorVars, notifierVars, setupVars, widgetVars, windowVars,
               pollVars, niVars, talkVars, simVars>>

PartsSpec ==
  PartsInit /\ [][PartsNext]_partsVars /\ NotifierFairness /\ WidgetFairness

-----------------------------------------------------------------------------
(* What is asked of a component as a whole.                                  *)

\* Predictions say what the readings do, and are made when they do it: the trend, the
\* bands and what stands out from the readings before (prediction/models.rs).
PredictionsAreTrue == TrendIsRegression /\ TroubleIsAnnounced /\ AnomalyIsRise

\* What the widget shows can be reached with the mouse, and settings of a hub that is
\* gone are not shown for current (nimon-widget main.rs).
WidgetTrue == BarReachable /\ SettingsCurrent
=============================================================================
