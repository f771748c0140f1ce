----------------------------- MODULE WidgetPoll -----------------------------
(***************************************************************************)
(* The widget's polls of the hub (nimon-widget/src/main.rs, poll_blocking): *)
(* one after the other, each a burst of concurrent requests, of which the   *)
(* last good copy is kept (Resource).  The settings, fetched less often     *)
(* than the rest, stand for all of them.                                    *)
(***************************************************************************)
EXTENDS Integers, FiniteSets

CONSTANTS
  SettingsTtl, \* SETTINGS_TTL, in polls
  MaxRestarts  \* bound: restarts of the hub

ASSUME TtlAssumption == SettingsTtl \in Nat \ {0} /\ MaxRestarts \in Nat

VARIABLES
  hubUp,      \* the hub answers
  hubVersion, \* which start of the hub it is
  settings    \* the settings' Resource: version, age in polls, error; and whether a
              \* poll missed the hub since they were fetched

pollVars == <<hubUp, hubVersion, settings>>

NoSettings == [version |-> 0, age |-> 0, error |-> FALSE, missed |-> FALSE]

PollInit == hubUp \in BOOLEAN /\ hubVersion = 1 /\ settings = NoSettings

HubGoes == hubUp /\ hubUp' = FALSE /\ UNCHANGED <<hubVersion, settings>>

\* It is back, perhaps with other settings.
HubComes ==
  /\ ~ hubUp /\ hubVersion <= MaxRestarts
  /\ hubUp' = TRUE /\ hubVersion' = hubVersion + 1
  /\ UNCHANGED settings

\* need_settings, a poll after the last.
Older == [settings EXCEPT !.age = IF @ < SettingsTtl THEN @ + 1 ELSE @]
NeedSettings == settings.error \/ settings.version = 0 \/ Older.age >= SettingsTtl

\* Mutant: settings that were not asked for stay as good as they were.
KeepSettings(up) == [Older EXCEPT !.missed = @ \/ ~ up]

\* A poll that does not fetch the settings: they are in doubt when the hub is down.
WithoutFetch(up) == [Older EXCEPT !.error = @ \/ ~ up, !.missed = @ \/ ~ up]

\* Resource::record of a fetch.
Fetched == [version |-> hubVersion, age |-> 0, error |-> FALSE, missed |-> FALSE]
Failed(up) == [Older EXCEPT !.error = TRUE, !.missed = @ \/ ~ up]

\* Health and settings are asked for at the same time, and either may fail alone.
Poll ==
  /\ \E up \in IF hubUp THEN BOOLEAN ELSE {FALSE} :
       \/ ~ NeedSettings /\ settings' = WithoutFetch(up)
       \/ NeedSettings /\ settings' = Failed(up)
       \/ NeedSettings /\ hubUp /\ settings' = Fetched
  /\ UNCHANGED <<hubUp, hubVersion>>

PollNext == HubGoes \/ HubComes \/ Poll
PollSpec == PollInit /\ [][PollNext]_pollVars

-----------------------------------------------------------------------------
(* Properties *)

\* Settings that are shown as good are those of the running hub, unless it was
\* restarted within the settings' lifetime and between two polls.
SettingsCurrent ==
  settings.version > 0 /\ ~ settings.error /\ settings.version # hubVersion
    => settings.age < SettingsTtl /\ ~ settings.missed
=============================================================================
