----------------------------- MODULE RuleSetup -----------------------------
(***************************************************************************)
(* From the hub's configuration file to the rules of its alert manager     *)
(* (nimon-hub config.rs and AlertManagerConfig::from_hub_config).  A file  *)
(* that does not parse or validate stops the start of the hub; an entry    *)
(* that parses and then does not convert is left out with an error.  Each  *)
(* entry that converts gets an id made from its name, and with it its      *)
(* action and fallback are kept.  Alerts are stored under rule ids, so the *)
(* ids matter from one start of the hub to the next: an administrator      *)
(* stops the hub, changes the file, and starts it again.                   *)
(*                                                                         *)
(* A condition as written is a record [key, fields, parts]: the type it    *)
(* names ("" in the flat shape), the keys it has with the quality of their *)
(* values ("ok", "null", "mistyped", or "refused" for a well-typed value   *)
(* with no meaning), and the conditions nested in a composite.  The values *)
(* themselves are left out.  A name is a sequence of words and separators. *)
(***************************************************************************)
EXTENDS Integers, Sequences, SequencesExt, FiniteSets

CONSTANTS
  Entries,       \* entries of the rule list the administrator may write
  Separator,     \* the token for characters of a name that are not alphanumeric
  LowerCase,     \* word -> the word in lower case
  DefaultCooldown, \* alert.default_cooldown_minutes, any integer
  MaxCooldown,   \* the greatest cooldown a rule can hold (i32::MAX)
  BuiltIn,       \* the rules of the manager when none is configured
  MaxEntries     \* bound: entries in the file

ASSUME SetupAssumption ==
  /\ DefaultCooldown \in Int /\ MaxCooldown \in Nat /\ MaxEntries \in Nat
  /\ \A e \in Entries : e.action \in STRING

VARIABLES
  file,    \* the entries of the rule list, in order
  hub,     \* "stopped", "edited", "building", "running" or "refused"
  built,   \* BuiltRules: the rules, their actions by id, the entries that failed
  watched, \* the rules of the alert manager
  last     \* history: the file and the rules of the last run of the hub

setupVars == <<file, hub, built, watched, last>>

-----------------------------------------------------------------------------
(* Conditions *)

\* get_field and the field_* readers, which treat a null as an absent key.
Given(c, key) == key \in DOMAIN c.fields /\ c.fields[key] # "null"
Meaningless(c, key) == key \in DOMAIN c.fields /\ c.fields[key] = "refused"

Keys == [MetricThreshold    |-> {"metric", "threshold", "comparison", "duration_minutes", "hysteresis"},
         DeviceOffline      |-> {"max_minutes_since_poll"},
         HealthStatusChange |-> {"from", "to"},
         Prediction         |-> {"prediction_type", "min_probability", "max_eta_minutes"},
         Composite          |-> {"op", "operator", "conditions"}]

Needed == [MetricThreshold    |-> {"metric"},
           DeviceOffline      |-> {"max_minutes_since_poll"},
           HealthStatusChange |-> {"to"},
           Prediction         |-> {"prediction_type", "min_probability"},
           Composite          |-> {"conditions"}]

\* parse_condition: the flat shape is told by the first of these keys it has.
FlatShapes == << <<"metric", "MetricThreshold">>,
                 <<"max_minutes_since_poll", "DeviceOffline">>,
                 <<"prediction_type", "Prediction">>,
                 <<"min_probability", "Prediction">>,
                 <<"conditions", "Composite">>,
                 <<"to", "HealthStatusChange">>,
                 <<"from", "HealthStatusChange">> >>

KindOf(c) ==
  IF c.key \in DOMAIN Keys THEN c.key
  ELSE LET shapes == SelectSeq(FlatShapes, LAMBDA s : s[1] \in DOMAIN c.fields)
       IN  IF shapes = <<>> THEN "unrecognized" ELSE Head(shapes)[2]

\* parse_condition_inner: an unreadable condition makes the whole file unreadable.
RECURSIVE Parses(_)
Parses(c) ==
  LET kind == KindOf(c)
  IN  /\ kind # "unrecognized"
      /\ \A key \in Needed[kind] : Given(c, key)
      /\ \A key \in Keys[kind] \cap DOMAIN c.fields : c.fields[key] # "mistyped"
      /\ kind = "Composite" => \A i \in DOMAIN c.parts : Parses(c.parts[i])

\* TryFrom<ConditionConfig>: a threshold is only asked for here, and so are an
\* operator, a status or a margin that means something.  `operator` is read when
\* there is no `op`.
RECURSIVE Converts(_)
Converts(c) ==
  LET kind == KindOf(c)
  IN  /\ kind = "MetricThreshold" =>
           /\ Given(c, "threshold")
           /\ ~Meaningless(c, "comparison") /\ ~Meaningless(c, "hysteresis")
      /\ kind = "HealthStatusChange" => ~Meaningless(c, "from") /\ ~Meaningless(c, "to")
      /\ kind = "Composite" =>
           /\ ~Meaningless(c, IF Given(c, "op") THEN "op" ELSE "operator")
           /\ \A i \in DOMAIN c.parts : Converts(c.parts[i])

-----------------------------------------------------------------------------
(* Rules *)

\* rule_slug: the words of the name in lower case, with one dash between them.
Slug(name) ==
  LET words == SelectSeq(name, LAMBDA w : w # Separator)
  IN  IF words = <<>> THEN <<"rule">> ELSE [i \in DOMAIN words |-> LowerCase[words[i]]]

\* ActionConfig::validate, for the action and the fallback alike: run_as is not
\* supported, and validate refuses the file for it.
Runnable(e) == "script_as_user" \notin {e.action, e.fallback}

Distance(x, y) == IF x < y THEN y - x ELSE x - y

\* A rule without a cooldown takes the configured default, held to what fits.
Cooldown(e) ==
  IF e.cooldown = {}
    THEN CHOOSE c \in 0 .. MaxCooldown :
           \A d \in 0 .. MaxCooldown : Distance(c, DefaultCooldown) <= Distance(d, DefaultCooldown)
    ELSE CHOOSE c \in e.cooldown : TRUE

\* try_rule_config_to_alert_rule_with_defaults: the entries that become rules.
Convertible(e) ==
  /\ Converts(e.condition)
  /\ e.severity \in {"info", "warning", "critical"}
  /\ Runnable(e)
  /\ Cooldown(e) >= 0

\* HubConfig::from_file: the file is read and validated as a whole.
Loads(f) == \A i \in DOMAIN f : Parses(f[i].condition) /\ Runnable(f[i])

\* ActionConfig::to_action: an edge runs a custom script as a command.
Executable(action) == IF action = "custom_script" THEN "edge_command" ELSE action

Nothing == [rules |-> <<>>, actions |-> <<>>, errors |-> {}, next |-> 1]

Ids(rules) == {rules[i].id : i \in DOMAIN rules}

\* Mutant: only the second entry of a name gets a number of its own.
NumberOnce(base, used) == IF base \in used THEN Append(base, "2") ELSE base

\* build_rules: the name itself, or with the first number from 2 not yet taken,
\* which may be the name of another entry.
Numbers == <<"2", "3", "4", "5", "6", "7", "8", "9">>
FreeId(base, used) ==
  LET candidates == <<base>> \o [i \in DOMAIN Numbers |-> Append(base, Numbers[i])]
  IN  Head(SelectSeq(candidates, LAMBDA id : id \notin used))

\* Mutant: actions are kept under the name, not under the id.
BuildByName(b, e, pos) ==
  IF ~Convertible(e)
    THEN [b EXCEPT !.errors = @ \cup {pos}, !.next = @ + 1]
    ELSE LET id == FreeId(Slug(e.name), Ids(b.rules))
             spec == [action |-> Executable(e.action), fallback |-> Executable(e.fallback), of |-> id]
             key == Slug(e.name)
         IN  [rules   |-> Append(b.rules, [id |-> id, entry |-> pos, cooldown |-> Cooldown(e)]),
              actions |-> IF e.action = "none" THEN b.actions
                          ELSE [k \in DOMAIN b.actions \cup {key} |->
                                  IF k = key THEN spec ELSE b.actions[k]],
              errors  |-> b.errors,
              next    |-> b.next + 1]

\* The body of the loop of build_rules.  A fallback without an action is ignored.
Build(b, e, pos) ==
  IF ~Convertible(e)
    THEN [b EXCEPT !.errors = @ \cup {pos}, !.next = @ + 1]
    ELSE LET id == FreeId(Slug(e.name), Ids(b.rules))
             spec == [action |-> Executable(e.action), fallback |-> Executable(e.fallback), of |-> id]
         IN  [rules   |-> Append(b.rules, [id |-> id, entry |-> pos, cooldown |-> Cooldown(e)]),
              actions |-> IF e.action = "none" THEN b.actions
                          ELSE [k \in DOMAIN b.actions \cup {id} |->
                                  IF k = id THEN spec ELSE b.actions[k]],
              errors  |-> b.errors,
              next    |-> b.next + 1]

\* Mutant: the built-in rules stand in whenever no rule was built.
RulesOrBuiltIn(f, b) == IF b.rules = <<>> THEN BuiltIn ELSE b.rules

\* AlertManager::new: the built-in rules stand in for a list that is empty, not
\* for one whose entries all failed.
ManagerRules(f, b) == IF f = <<>> THEN BuiltIn ELSE b.rules

\* dispatch_action: the action of the rule an alert was opened for.
ActionFor(b, id) ==
  IF id \in DOMAIN b.actions THEN b.actions[id] ELSE [action |-> "none", fallback |-> "none", of |-> id]

-----------------------------------------------------------------------------
(* Runs of the hub and changes of its file *)

SetupInit ==
  /\ file = <<>> /\ hub = "stopped"
  /\ built = Nothing /\ watched = <<>>
  /\ last = [file |-> <<>>, rules |-> <<>>]

\* The administrator adds an entry at the end or takes one out, with the hub
\* stopped (or refusing to start).  Bound: one change before the next start.
Edit ==
  /\ hub \in {"stopped", "refused"}
  /\ \/ /\ Len(file) < MaxEntries
        /\ \E e \in Entries : file' = Append(file, e)
     \/ \E i \in DOMAIN file : file' = RemoveAt(file, i)
  /\ hub' = "edited"
  /\ UNCHANGED <<built, watched, last>>

\* The hub starts: load_or_default, then from_hub_config begins with build_rules.
LoadFile ==
  /\ hub \in {"stopped", "edited"}
  /\ hub' = IF Loads(file) THEN "building" ELSE "refused"
  /\ built' = Nothing
  /\ UNCHANGED <<file, watched, last>>

BuildNext ==
  /\ hub = "building" /\ built.next <= Len(file)
  /\ built' = Build(built, file[built.next], built.next)
  /\ UNCHANGED <<file, hub, watched, last>>

\* The manager starts with the rules built.
Run ==
  /\ hub = "building" /\ built.next > Len(file)
  /\ hub' = "running"
  /\ watched' = ManagerRules(file, built)
  /\ UNCHANGED <<file, built, last>>

Stop ==
  /\ hub = "running"
  /\ hub' = "stopped"
  /\ built' = Nothing /\ watched' = <<>>
  /\ last' = [file |-> file, rules |-> built.rules]
  /\ UNCHANGED file

SetupNext == Edit \/ LoadFile \/ BuildNext \/ Run \/ Stop

SetupSpec == SetupInit /\ [][SetupNext]_setupVars

-----------------------------------------------------------------------------
(* Properties *)

Positions(rules) == [i \in DOMAIN rules |-> rules[i].entry]
Meant == SelectSeq([i \in DOMAIN file |-> i], LAMBDA i : Convertible(file[i]))

\* One bad entry costs that entry only, the order stays, the built-in rules keep
\* out of a list that was written, and no two rules share an id whatever names
\* the administrator chose, also when the number given to one rule makes the
\* name of another.
OneRulePerEntry ==
  /\ file # <<>> => Positions(watched) = Meant
  /\ built.errors = DOMAIN file \ Range(Meant)
  /\ Cardinality(Ids(watched)) = Len(watched)

\* An alert of a rule runs the action written beside that rule and no other.
ActionsFollowRules ==
  file # <<>> => \A i \in DOMAIN watched :
    LET e == file[watched[i].entry]
    IN  /\ ActionFor(built, watched[i].id).action = Executable(e.action)
        /\ e.action # "none" =>
             ActionFor(built, watched[i].id).fallback = Executable(e.fallback)

\* Entries added at the end leave the ids of the others alone, so the alerts the
\* last run left open are still those of the rules that opened them.
IdsSurviveAdding == IsPrefix(last.file, file) => IsPrefix(last.rules, built.rules)

\* What a running hub watches for is what its file says: a rule for
\* every entry that converts, under an id of its own that stays when the list
\* grows, with the action written beside it (build_rules, AlertManager::new,
\* dispatch_action).
RulesBuilt ==
  hub = "running" => OneRulePerEntry /\ ActionsFollowRules /\ IdsSurviveAdding
=============================================================================
