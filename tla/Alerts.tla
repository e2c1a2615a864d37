------------------------------- MODULE Alerts -------------------------------
(***************************************************************************)
(* internal/alerts: alerts, notification channels, and the suppression of  *)
(* external notifications while the alert's host is in maintenance.  A     *)
(* request stores the alert, looks the host up, stamps the row and sends   *)
(* to one channel after another: hosts enter and leave maintenance, and    *)
(* other requests change the alert and the channels, in between.  Rules    *)
(* (AlertRule) are rows that nothing evaluates and no route reaches.       *)
(***************************************************************************)
EXTENDS Integers, Sequences, SequencesExt

CONSTANTS
  Requests,   \* requests under way
  AlertIds, ChannelIds,
  MaxNamed    \* bound: channels named in one request

VARIABLES
  alerts,       \* the alerts table
  channels,     \* the channels table
  maintained,   \* the one host that is looked up is in maintenance
  call,         \* each request: where it is and what it holds
  delivered,    \* what the dispatcher was given, as pairs <<alert, channel>>
  was,          \* ghost: "in" and "out", as the host was during the alert's request
  struck        \* ghost: alerts that a database error or a crash has struck

alertVars == <<alerts, channels, maintained, call, delivered, was, struck>>

LogChannel == "log"     \* the synthetic channel without an ID
ASSUME AlertsAssumption == LogChannel \notin ChannelIds /\ MaxNamed \in Nat
NoRow == [live |-> FALSE]
NoCall == [pc |-> "idle"]
Lists == SeqOf(ChannelIds, MaxNamed)
HostIs(m) == IF m THEN "in" ELSE "out"

AlertsInit ==
  /\ alerts = [a \in AlertIds |-> NoRow] /\ channels = [h \in ChannelIds |-> NoRow]
  /\ maintained = FALSE
  /\ call = [r \in Requests |-> NoCall]
  /\ delivered = {} /\ struck = {}
  /\ was = [a \in AlertIds |-> {}]

CallGoes(r, pc) == call' = [call EXCEPT ![r].pc = pc]
CallEnds(r) == call' = [call EXCEPT ![r] = NoCall]
New(rows, id) == rows[id] = NoRow

-----------------------------------------------------------------------------
(* CreateAlert and dispatchChannels.                                       *)

\* Input that is not valid, or a row that cannot be stored, changes nothing.
Fire(r, a, source, list) ==
  /\ call[r] = NoCall /\ New(alerts, a)
  /\ alerts' = [alerts EXCEPT ![a] =
       [live |-> TRUE, state |-> "firing", source |-> source, suppressed |-> FALSE]]
  /\ call' = [call EXCEPT ![r] =
       [pc |-> IF source = "host" THEN "look" ELSE "log",
        alert |-> a, list |-> list, suppress |-> FALSE]]
  /\ was' = [was EXCEPT ![a] = {HostIs(maintained)}]
  /\ UNCHANGED <<channels, maintained, delivered, struck>>

\* A host that cannot be read counts as not in maintenance.
LookAtHost(r) ==
  /\ call[r].pc = "look"
  /\ \/ /\ call' = [call EXCEPT ![r].pc = IF maintained THEN "stamp" ELSE "log",
                                ![r].suppress = maintained]
        /\ UNCHANGED struck
     \/ CallGoes(r, "log") /\ struck' = struck \cup {call[r].alert}
  /\ UNCHANGED <<alerts, channels, maintained, delivered, was>>

\* The result of the update is discarded.
Stamp(r) ==
  /\ call[r].pc = "stamp"
  /\ \/ /\ alerts' = IF alerts[call[r].alert].live
                     THEN [alerts EXCEPT ![call[r].alert].suppressed = TRUE] ELSE alerts
        /\ UNCHANGED struck
     \/ struck' = struck \cup {call[r].alert} /\ UNCHANGED alerts
  /\ CallGoes(r, "log")
  /\ UNCHANGED <<channels, maintained, delivered, was>>

DispatchLog(r) ==
  /\ call[r].pc = "log"
  /\ delivered' = delivered \cup {<<call[r].alert, LogChannel>>}
  /\ CallGoes(r, "channels")
  /\ UNCHANGED <<alerts, channels, maintained, was, struck>>

\* Mutant: the host is looked up again for every channel.
WantedNow(r, h) ==
  /\ channels[h].live /\ channels[h].enabled
  /\ ~(maintained /\ channels[h].external)

\* The channel exists, is enabled, and is not an external one of a suppressed alert.
Wanted(r, h) ==
  /\ channels[h].live /\ channels[h].enabled
  /\ ~(call[r].suppress /\ channels[h].external)

Dispatch(r) ==
  /\ call[r].pc = "channels" /\ call[r].list # <<>>
  /\ LET h == Head(call[r].list) IN
     delivered' = delivered \cup (IF Wanted(r, h) THEN {<<call[r].alert, h>>} ELSE {})
  /\ call' = [call EXCEPT ![r].list = Tail(@)]
  /\ UNCHANGED <<alerts, channels, maintained, was, struck>>

ReturnCall(r) ==
  /\ call[r].pc = "channels" /\ call[r].list = <<>>
  /\ CallEnds(r)
  /\ UNCHANGED <<alerts, channels, maintained, delivered, was, struck>>

-----------------------------------------------------------------------------
(* Acknowledge and Resolve look the row up, then update it whatever its    *)
(* state is by then, also a resolved one; Delete is one statement.  Who    *)
(* acknowledged, and the times, are not kept.                              *)

LoadAlert(r, a, op) ==
  /\ call[r] = NoCall /\ alerts[a].live
  /\ call' = [call EXCEPT ![r] = [pc |-> op, row |-> a]]
  /\ UNCHANGED <<alerts, channels, maintained, delivered, was, struck>>

WriteAlert(r) ==
  /\ call[r].pc \in {"acknowledge", "resolve"}
  /\ LET a == call[r].row IN
     alerts' = IF ~alerts[a].live THEN alerts
               ELSE [alerts EXCEPT ![a].state =
                      IF call[r].pc = "acknowledge" THEN "acknowledged" ELSE "resolved"]
  /\ CallEnds(r)
  /\ UNCHANGED <<channels, maintained, delivered, was, struck>>

DeleteAlert(a) ==
  /\ alerts[a].live
  /\ alerts' = [alerts EXCEPT ![a].live = FALSE]
  /\ UNCHANGED <<channels, maintained, call, delivered, was, struck>>

-----------------------------------------------------------------------------
(* Channels.  The column's default is true, and GORM stores the default    *)
(* for a false: a channel is created enabled whatever the request says.    *)
(* The update route cannot change the type.                                *)

CreateChannel(h, external) ==
  /\ New(channels, h)
  /\ channels' = [channels EXCEPT ![h] = [live |-> TRUE, enabled |-> TRUE, external |-> external]]
  /\ UNCHANGED <<alerts, maintained, call, delivered, was, struck>>

LoadChannel(r, h, enabled) ==
  /\ call[r] = NoCall /\ channels[h].live
  /\ call' = [call EXCEPT ![r] = [pc |-> "update", row |-> h, enabled |-> enabled]]
  /\ UNCHANGED <<alerts, channels, maintained, delivered, was, struck>>

\* A channel deleted meanwhile is a 404; one deleted before the handler reads it again
\* makes the handler panic, and the recovery middleware answers 500.
UpdateChannel(r) ==
  /\ call[r].pc = "update"
  /\ channels' = IF channels[call[r].row].live
                 THEN [channels EXCEPT ![call[r].row].enabled = call[r].enabled] ELSE channels
  /\ CallEnds(r)
  /\ UNCHANGED <<alerts, maintained, delivered, was, struck>>

DeleteChannel(h) ==
  /\ channels[h].live
  /\ channels' = [channels EXCEPT ![h].live = FALSE]
  /\ UNCHANGED <<alerts, maintained, call, delivered, was, struck>>

-----------------------------------------------------------------------------
Fired(r) == call[r].pc \in {"look", "stamp", "log", "channels"}

\* physicalhost: the host enters or leaves maintenance.
Maintain ==
  /\ maintained' = ~maintained
  /\ was' = [a \in AlertIds |->
       IF \E r \in Requests : Fired(r) /\ call[r].alert = a
       THEN was[a] \cup {HostIs(~maintained)} ELSE was[a]]
  /\ UNCHANGED <<alerts, channels, call, delivered, struck>>

\* The process ends: every request is lost.
AlertsCrash ==
  /\ \E r \in Requests : Fired(r)
  /\ struck' = struck \cup {call[r].alert : r \in {q \in Requests : Fired(q)}}
  /\ call' = [r \in Requests |-> NoCall]
  /\ UNCHANGED <<alerts, channels, maintained, delivered, was>>

AlertsNext ==
  \/ \E r \in Requests, a \in AlertIds, s \in {"host", "other"}, l \in Lists : Fire(r, a, s, l)
  \/ \E r \in Requests : LookAtHost(r) \/ Stamp(r) \/ DispatchLog(r) \/ Dispatch(r) \/ ReturnCall(r)
  \/ \E r \in Requests, a \in AlertIds, op \in {"acknowledge", "resolve"} : LoadAlert(r, a, op)
  \/ \E r \in Requests : WriteAlert(r) \/ UpdateChannel(r)
  \/ \E a \in AlertIds : DeleteAlert(a)
  \/ \E h \in ChannelIds, b \in BOOLEAN : CreateChannel(h, b)
  \/ \E r \in Requests, h \in ChannelIds, b \in BOOLEAN : LoadChannel(r, h, b)
  \/ \E h \in ChannelIds : DeleteChannel(h)
  \/ Maintain \/ AlertsCrash

AlertsSpec == AlertsInit /\ [][AlertsNext]_alertVars

-----------------------------------------------------------------------------
(* Every variable holds what the code can put in it.                       *)
AlertsTypeOK ==
  /\ \A a \in AlertIds : alerts[a] = NoRow \/ alerts[a] \in
       [live : BOOLEAN, state : {"firing", "acknowledged", "resolved"}, source : {"host", "other"},
        suppressed : BOOLEAN]
  /\ \A h \in ChannelIds : channels[h] = NoRow \/ channels[h] \in
       [live : BOOLEAN, enabled : BOOLEAN, external : BOOLEAN]
  /\ maintained \in BOOLEAN
  /\ \A r \in Requests :
       \/ call[r] = NoCall
       \/ call[r] \in [pc : {"look", "stamp", "log", "channels"}, alert : AlertIds,
                       list : Lists, suppress : BOOLEAN]
       \/ call[r] \in [pc : {"acknowledge", "resolve"}, row : AlertIds]
       \/ call[r] \in [pc : {"update"}, row : ChannelIds, enabled : BOOLEAN]
  /\ delivered \subseteq AlertIds \X (ChannelIds \cup {LogChannel})
  /\ was \in [AlertIds -> SUBSET {"in", "out"}] /\ struck \subseteq AlertIds

(***************************************************************************)
(* What dispatchChannels decides, told from the rows and from what was     *)
(* sent: an alert stamped suppressed went to no external channel and its   *)
(* host was in maintenance at some moment of the request; a host's alert   *)
(* that went to an external channel met a moment outside maintenance; and  *)
(* every alert whose request has ended went to the log ("the audit trail   *)
(* survives maintenance suppression", service.go).  A database error or a  *)
(* crash in the request is the only excuse.                                *)
(***************************************************************************)
SuppressionTold ==
  \A a \in AlertIds : alerts[a] # NoRow =>
    LET external == {h \in ChannelIds : <<a, h>> \in delivered /\ channels[h].external} IN
    /\ alerts[a].suppressed => external = {} /\ "in" \in was[a]
    /\ external # {} /\ alerts[a].source = "host" => "out" \in was[a] \/ a \in struck
    /\ <<a, LogChannel>> \in delivered \/ a \in struck
       \/ \E r \in Requests : Fired(r) /\ call[r].alert = a
=============================================================================
