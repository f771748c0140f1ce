------------------------------ MODULE Notifier ------------------------------
(***************************************************************************)
(* The notifications of nimon-hub (alert/notifier.rs and the part of        *)
(* alert/manager.rs that feeds it): the alert manager posts one notice when *)
(* an alert fires and one when it resolves, the notifier actor starts a     *)
(* delivery of its own for each, and a delivery tries the channels of the   *)
(* alert's rule one after the other, in the order of the configuration.     *)
(* Nothing is retried and an error is only logged.                          *)
(***************************************************************************)
EXTENDS Integers, Sequences, SequencesExt

CONSTANTS
  Configured,   \* the configured channels, in order: [id, type, enabled, smtp]
  RuleChannels, \* rule -> the channel names it asks for, {} for every one
  MaxNotices    \* bound: notices posted

ASSUME NoticesAssumption == MaxNotices \in Nat

VARIABLES
  inbox,      \* mailbox of the notifier actor: the notices posted, as numbers
  notices,    \* what each notice says: the rule of its alert and its status
  deliveries, \* notice -> positions of the channels still to try
  tried       \* notice -> positions of the channels tried, and how it went

notifierVars == <<inbox, notices, deliveries, tried>>

-----------------------------------------------------------------------------
(* Channels *)

\* notification_channel_from_config: a type it does not know is the console.
ChannelTypes == {"console", "email", "webhook", "slack", "teams"}
ChannelOf(c) ==
  [c EXCEPT !.type = IF c.type \in ChannelTypes THEN c.type ELSE "console"]

ConsoleChannel == [id |-> "console", type |-> "console", enabled |-> TRUE, smtp |-> "none"]

\* start_notifier: a console is implied when none is configured; one that is
\* configured and disabled counts.
Channels ==
  LET mapped == [i \in 1 .. Len(Configured) |-> ChannelOf(Configured[i])]
  IN  IF \E i \in DOMAIN mapped : mapped[i].type = "console"
        THEN mapped
        ELSE Append(mapped, ConsoleChannel)

\* Mutant: a rule's channels need not be enabled.
ResolveAnyChannels(requested) ==
  SelectSeq([i \in DOMAIN Channels |-> i],
            LAMBDA i : requested = {} \/ Channels[i].id \in requested)

\* resolve_channels: positions of the enabled channels a rule asks for, all the
\* enabled ones when it asks for none.
ResolveChannels(requested) ==
  SelectSeq([i \in DOMAIN Channels |-> i],
            LAMBDA i : /\ Channels[i].enabled
                       /\ requested = {} \/ Channels[i].id \in requested)

\* effective_tls_mode refuses to send a password over a connection without TLS.
\* `smtp` names what the settings of an e-mail channel come to.
Refused(c) == c.type = "email" /\ c.smtp = "password_without_tls"

\* What trying a channel may come to.  The console is the log.
Outcomes(c) == CASE c.type = "console" -> {"sent"}
                 [] Refused(c) -> {"failed"}
                 [] OTHER -> {"sent", "failed"}

-----------------------------------------------------------------------------
NotifierInit ==
  /\ inbox = <<>>
  /\ notices = <<>>
  /\ deliveries = <<>>
  /\ tried = <<>>

\* AlertManager::notify: an alert fires, or one that was announced resolves.
Notify(rule, status) ==
  /\ Len(notices) < MaxNotices
  /\ status = "resolved" =>
       \E n \in DOMAIN notices : notices[n] = [rule |-> rule, status |-> "firing"]
  /\ notices' = Append(notices, [rule |-> rule, status |-> status])
  /\ inbox' = Append(inbox, Len(notices) + 1)
  /\ deliveries' = Append(deliveries, <<>>)
  /\ tried' = Append(tried, <<>>)

\* Mutant: nobody hears of an alert that no channel takes.
StartQuietly(n) ==
  /\ deliveries' = [deliveries EXCEPT ![n] = ResolveChannels(RuleChannels[notices[n].rule])]
  /\ UNCHANGED tried

\* send_alert begins: without a channel the alert is logged (position 0).
StartDelivery(n) ==
  LET channels == ResolveChannels(RuleChannels[notices[n].rule])
  IN  /\ deliveries' = [deliveries EXCEPT ![n] = channels]
      /\ tried' = [tried EXCEPT ![n] = IF channels = <<>> THEN <<<<0, "sent">>>> ELSE @]

\* Handler<SendNotification>: each notice gets a task of its own.
HandleNotification ==
  /\ inbox # <<>>
  /\ inbox' = Tail(inbox)
  /\ StartDelivery(Head(inbox))
  /\ UNCHANGED notices

\* Mutant: a channel that fails ends the delivery.
AfterFailure(n, outcome) == IF outcome = "failed" THEN <<>> ELSE Tail(deliveries[n])

\* What is left to try: an error of a channel is logged, the loop goes on.
AfterChannel(n, outcome) == Tail(deliveries[n])

\* The next channel of a delivery answers or runs into its timeout.  Deliveries
\* are concurrent, so a resolution may overtake the firing it ends.
TryChannel(n) ==
  /\ deliveries[n] # <<>>
  /\ \E outcome \in Outcomes(Channels[Head(deliveries[n])]) :
       /\ tried' = [tried EXCEPT ![n] = Append(@, <<Head(deliveries[n]), outcome>>)]
       /\ deliveries' = [deliveries EXCEPT ![n] = AfterChannel(n, outcome)]
  /\ UNCHANGED <<inbox, notices>>

NotifierNext ==
  \/ \E rule \in DOMAIN RuleChannels, status \in {"firing", "resolved"} : Notify(rule, status)
  \/ HandleNotification
  \/ \E n \in DOMAIN notices : TryChannel(n)

\* The actor runs, and every request has a timeout (15 s, 30 s for e-mail).
NotifierFairness ==
  /\ WF_notifierVars(HandleNotification)
  /\ \A n \in 1 .. MaxNotices : WF_notifierVars(n \in DOMAIN notices /\ TryChannel(n))

-----------------------------------------------------------------------------
(* Properties *)

TriedFor(n) == {tried[n][i][1] : i \in DOMAIN tried[n]}

\* The positions a notice is meant for, from the configuration.
MeantFor(n) ==
  LET asked == RuleChannels[notices[n].rule]
  IN  {i \in DOMAIN Channels : Channels[i].enabled /\ (asked = {} \/ Channels[i].id \in asked)}

\* Every notice reaches each enabled channel of its rule in the end, whatever the
\* channels before it did, or the log when there is none; no disabled channel
\* hears of it.
AnnouncedEverywhere ==
  \A n \in 1 .. MaxNotices :
    n \in DOMAIN notices ~>
      n \in DOMAIN notices /\ TriedFor(n) = (IF MeantFor(n) = {} THEN {0} ELSE MeantFor(n))
=============================================================================
