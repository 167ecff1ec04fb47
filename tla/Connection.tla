----------------------------- MODULE Connection -----------------------------
(***************************************************************************)
(* The broker connection of one gateway (messaging/rabbitmq.ts) and the    *)
(* consumers that attach a channel of their own on every (re)connection.   *)
(*                                                                         *)
(* Close events are handled by the class, not by the connection that       *)
(* closed, and a failed establish() does not close what it has opened.     *)
(***************************************************************************)
EXTENDS Naturals, FiniteSets

CONSTANTS
  Consumers,  \* the callbacks of onConnected: faces, imports, notifications
  Conns,      \* connections that may be open at a time, numbered from 1
  MaxFaults   \* bound on outages, dropped connections and broken channels

ASSUME ConnectionAssumption ==
  /\ Conns \subseteq Nat \ {0}
  /\ MaxFaults \in Nat

VARIABLES
  up,          \* the broker accepts connections
  open,        \* connections that are open
  connection,  \* this.connection; 0 for null
  channel,     \* the connection of this.channel; 0 for null
  connecting,  \* where establish() is; "none" when this.connecting is null
  trying,      \* the connection it has opened; 0 before
  timers,      \* reconnects scheduled and not yet fired
  closing,     \* close() was called
  attaching,   \* <<consumer, connection>>: consume() is under way
  attached,    \* <<consumer, connection>>: the consumer receives messages
  leaked,      \* history: open connections a failed establish() left behind
  orphaned,    \* history: open connections forgotten because another one closed
  faults       \* faults injected so far

fields == <<connection, channel>>
attempt == <<connecting, trying>>
consuming == <<attaching, attached>>
history == <<leaked, orphaned>>
vars == <<up, open, fields, attempt, timers, closing, consuming, history, faults>>

TypeOK ==
  /\ up \in BOOLEAN /\ closing \in BOOLEAN
  /\ open \subseteq Conns /\ leaked \subseteq open /\ orphaned \subseteq open
  /\ connection \in Conns \cup {0}
  /\ channel \in {0, connection}
  /\ connecting \in {"none", "tcp", "confirm", "topology"}
  /\ trying \in Conns \cup {0}
  /\ timers \in Nat
  /\ attaching \subseteq Consumers \X Conns
  /\ attached \subseteq Consumers \X open
  /\ faults \in 0..MaxFaults

\* The start of server.ts: consumers registered, connect() called once.
Init ==
  /\ up \in BOOLEAN
  /\ open = {}
  /\ connection = 0 /\ channel = 0
  /\ connecting = "none" /\ trying = 0
  /\ timers = 1
  /\ closing = FALSE
  /\ attaching = {} /\ attached = {}
  /\ leaked = {} /\ orphaned = {}
  /\ faults = 0

Fault == faults < MaxFaults /\ faults' = faults + 1

-----------------------------------------------------------------------------
\* Seeded fault: connect() does not look whether it is connected or connecting.
ConnectAnyway ==
  /\ timers > 0
  /\ timers' = timers - 1
  /\ connecting' = "tcp" /\ trying' = 0
  /\ UNCHANGED <<up, open, fields, closing, consuming, history, faults>>

\* The timer fires: connect(), which does nothing while there is a channel or an
\* attempt.  It does not look at closing.
Connect ==
  /\ timers > 0
  /\ timers' = timers - 1
  /\ IF channel # 0 \/ connecting # "none"
     THEN UNCHANGED attempt
     ELSE connecting' = "tcp" /\ UNCHANGED trying
  /\ UNCHANGED <<up, open, fields, closing, consuming, history, faults>>

\* Numbers of connections nothing refers to any more.
Unused == {c \in Conns \ open : \A a \in attaching : a[2] # c}

\* amqp.connect succeeds.
Opened ==
  /\ connecting = "tcp" /\ up
  /\ \E c \in Unused :
       /\ \A d \in Unused : c <= d
       /\ open' = open \cup {c}
       /\ trying' = c
  /\ connecting' = "confirm"
  /\ UNCHANGED <<up, fields, timers, closing, consuming, history, faults>>

ChannelCreated ==
  /\ connecting = "confirm" /\ trying \in open
  /\ connecting' = "topology"
  /\ UNCHANGED <<up, open, fields, trying, timers, closing, consuming, history, faults>>

\* The topology is asserted: the fields are set and every consumer called back.
Established ==
  /\ connecting = "topology" /\ trying \in open
  /\ connection' = trying /\ channel' = trying
  /\ attaching' = attaching \cup (Consumers \X {trying})
  /\ connecting' = "none" /\ trying' = 0
  /\ UNCHANGED <<up, open, timers, closing, attached, history, faults>>

\* Seeded fault: no reconnect after a close, because connect() is thought to retry.
ScheduledNever == timers

\* Seeded fault: whoever fails schedules, and so does its caller.
ScheduledTwice == IF closing THEN timers ELSE timers + 2

\* scheduleReconnect.
Scheduled == IF closing THEN timers ELSE timers + 1

\* The catch block of establish(): no connection, or its closing, or a channel
\* the broker breaks on a connection that stays open and is forgotten.
EstablishFails ==
  /\ \/ connecting = "tcp" /\ ~up /\ UNCHANGED <<leaked, faults>>
     \/ trying # 0 /\ trying \notin open /\ UNCHANGED <<leaked, faults>>
     \/ trying \in open /\ Fault /\ leaked' = leaked \cup {trying}
  /\ connection' = 0 /\ channel' = 0
  /\ timers' = Scheduled
  /\ connecting' = "none" /\ trying' = 0
  /\ UNCHANGED <<up, open, closing, consuming, orphaned>>

\* Seeded fault: handleClose clears the connection and keeps the channel.
ClearedHalf == connection' = 0 /\ UNCHANGED channel

Cleared == connection' = 0 /\ channel' = 0

\* A connection closes, alone or with its broker: handleClose clears the fields
\* even if they hold another one, which is open and forgotten from now on.
Close(c) ==
  /\ c \in open
  /\ IF up THEN Fault ELSE UNCHANGED faults
  /\ open' = open \ {c}
  /\ Cleared
  /\ timers' = Scheduled
  /\ attached' = {a \in attached : a[2] # c}
  /\ leaked' = leaked \ {c}
  /\ orphaned' = (orphaned \ {c}) \cup
       (IF c \in leaked \cup orphaned THEN {connection} \cap open' ELSE {})
  /\ UNCHANGED <<up, attempt, closing, attaching>>

\* consume() of one consumer: it has a channel and receives messages, or its
\* connection has closed in the meantime and the error is logged.
Attach(a) ==
  /\ a \in attaching
  /\ attaching' = attaching \ {a}
  /\ attached' = IF a[2] \in open THEN attached \cup {a} ELSE attached
  /\ UNCHANGED <<up, open, fields, attempt, timers, closing, history, faults>>

\* rabbit.close() at shutdown: what this.connection holds closes without a
\* reconnect, and the fields are cleared.
Shutdown ==
  /\ ~closing
  /\ closing' = TRUE
  /\ connection' = 0 /\ channel' = 0
  /\ open' = open \ {connection}
  /\ attached' = {a \in attached : a[2] # connection}
  /\ leaked' = leaked \ {connection} /\ orphaned' = orphaned \ {connection}
  /\ UNCHANGED <<up, attempt, timers, attaching, faults>>

BrokerDown ==
  /\ up /\ Fault
  /\ up' = FALSE
  /\ UNCHANGED <<open, fields, attempt, timers, closing, consuming, history>>

BrokerUp ==
  /\ ~up
  /\ up' = TRUE
  /\ UNCHANGED <<open, fields, attempt, timers, closing, consuming, history, faults>>

-----------------------------------------------------------------------------
Establish == Opened \/ ChannelCreated \/ Established \/ EstablishFails

Next ==
  \/ Connect \/ Establish \/ Shutdown \/ BrokerDown \/ BrokerUp
  \/ \E c \in Conns : Close(c)
  \/ \E a \in attaching : Attach(a)

Spec == Init /\ [][Next]_vars

\* Timers fire, promises settle one way or the other, the broker comes back.
Fairness ==
  /\ WF_vars(Connect) /\ WF_vars(Establish) /\ WF_vars(BrokerUp)
  /\ WF_vars(\E a \in attaching : Attach(a))

FairSpec == Spec /\ Fairness

-----------------------------------------------------------------------------
(* Properties.                                                             *)

\* isReady() tells the truth about the connection: the channel that publish()
\* takes belongs to one that is open (rabbitmq.ts:26-28, :93-95).
ReadyMeansOpen == channel # 0 => channel \in open /\ connection = channel

\* A consumer is attached to two connections at once only when one of them was
\* forgotten because a connection leaked by a failed establish() closed later
\* (rabbitmq.ts:65-104).
AttachedTwiceOnlyAfterALeak ==
  \A a, b \in attached :
    a[1] = b[1] /\ a[2] # b[2] => {a[2], b[2]} \cap orphaned # {}

\* Reconnects do not multiply: whatever closes and fails on the way, each fault
\* leaves at most one timer more (rabbitmq.ts:88-103).
ReconnectsDoNotPileUp ==
  timers + (IF connecting = "none" THEN 0 ELSE 1) <= 1 + faults

\* Once faults stop the gateway is connected for good, with every consumer
\* attached to the connection it publishes on.
ConnectedInTheEnd ==
  <>[](closing \/ (channel # 0 /\ Consumers \X {channel} \subseteq attached))
=============================================================================
