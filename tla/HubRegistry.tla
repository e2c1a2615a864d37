----------------------------- MODULE HubRegistry -----------------------------
(***************************************************************************)
(* internal/ws/hub: who is connected to the hub and subscribed to what.    *)
(* The hub's map of clients, the channel registry and every client's own   *)
(* set of channels have a lock each; a read pump, a write pump, the Run    *)
(* loop's broadcast and Shutdown change them in several steps.             *)
(***************************************************************************)
EXTENDS Integers, FiniteSets

CONSTANTS
  Clients,         \* WebSocket connections
  Topics,          \* channel names
  MaxConnections,  \* limits.go: 1000
  MaxChannels,     \* limits.go, MaxChannelsPerConn: 32
  OutBuffer        \* limits.go, OutBufferSize: 256

\* limits.go, Validate: each of the three must be positive.
ASSUME RegistryAssumption ==
  MaxConnections \in Nat \ {0} /\ MaxChannels \in Nat \ {0} /\ OutBuffer \in Nat \ {0}

VARIABLES
  clients,   \* hub.clients
  subs,      \* the registry, as pairs <<topic, client>>
  own,       \* each client's own set of topics
  open,      \* clients whose connection has not been closed
  reader,    \* each read pump: where it is, and the topic it is working on
  writer,    \* each write pump: "none", "run" or "gone"
  out,       \* frames in each client's Send channel
  fan,       \* Run's broadcast: the subscribers it has still to send to
  shutdown,  \* Shutdown: the clients it has still to take out, and where it is
  expelled   \* ghost: clients Shutdown has taken out

regVars == <<clients, subs, own, open, reader, writer, out, fan, shutdown, expelled>>

NoTopic == "no topic"
In(pc) == [pc |-> pc, topic |-> NoTopic]
TopicsOf(c) == {t \in Topics : <<t, c>> \in subs}
Without(c) == {s \in subs : s[2] # c}

RegistryInit ==
  /\ clients = {} /\ subs = {} /\ open = {} /\ expelled = {}
  /\ own = [c \in Clients |-> {}]
  /\ reader = [c \in Clients |-> In("none")]
  /\ writer = [c \in Clients |-> "none"]
  /\ out = [c \in Clients |-> 0]
  /\ fan = {}
  /\ shutdown = [pc |-> "none", cur |-> {}, rest |-> {}]

-----------------------------------------------------------------------------
(* handleUpgrade: register, queue the confirmation, start the pumps; at    *)
(* capacity the connection is closed.                                      *)

Full == Cardinality(clients) >= MaxConnections
RegisterClient(c) == ~Full /\ clients' = clients \cup {c}

Upgrade(c) ==
  /\ reader[c].pc = "none"
  /\ \/ /\ RegisterClient(c) /\ open' = open \cup {c}
        /\ out' = [out EXCEPT ![c] = 1]
        /\ reader' = [reader EXCEPT ![c] = In("idle")]
        /\ writer' = [writer EXCEPT ![c] = "run"]
     \/ /\ Full
        /\ reader' = [reader EXCEPT ![c] = In("gone")]
        /\ writer' = [writer EXCEPT ![c] = "gone"]
        /\ UNCHANGED <<clients, open, out>>
  /\ UNCHANGED <<subs, own, fan, shutdown, expelled>>

\* sendOK and sendError: dropped when Send is full.  What is queued once the write pump
\* has gone is never read, and not counted.
AnswerSent(c) == out' = [out EXCEPT ![c] = IF writer[c] = "run" /\ @ < OutBuffer THEN @ + 1 ELSE @]

-----------------------------------------------------------------------------
(* A message: subscribe is the client's own set first, under its cap, then *)
(* the registry.  The read pump may still get one message after its        *)
(* connection is closed or its write pump gone; then it sees that it must  *)
(* end.                                                                    *)

MustEnd(c) == c \notin open \/ writer[c] = "gone"
MessageDone(c) ==
  reader' = [reader EXCEPT ![c] = In(IF MustEnd(c) THEN "ending" ELSE "idle")]

\* Mutant: the cap is not looked at.
SubscribeOwnUncapped(c, t) ==
  /\ reader[c].pc = "idle"
  /\ own' = [own EXCEPT ![c] = @ \cup {t}]
  /\ reader' = [reader EXCEPT ![c] = [pc |-> "subscribe", topic |-> t]]
  /\ UNCHANGED <<clients, subs, open, writer, out, fan, shutdown, expelled>>

SubscribeOwn(c, t) ==
  /\ reader[c].pc = "idle"
  /\ IF t \in own[c] \/ Cardinality(own[c]) < MaxChannels
     THEN /\ own' = [own EXCEPT ![c] = @ \cup {t}]
          /\ reader' = [reader EXCEPT ![c] = [pc |-> "subscribe", topic |-> t]]
          /\ UNCHANGED out
     ELSE AnswerSent(c) /\ MessageDone(c) /\ UNCHANGED own
  /\ UNCHANGED <<clients, subs, open, writer, fan, shutdown, expelled>>

SubscribeRegistry(c) ==
  /\ reader[c].pc = "subscribe"
  /\ subs' = subs \cup {<<reader[c].topic, c>>}
  /\ MessageDone(c)
  /\ AnswerSent(c)
  /\ UNCHANGED <<clients, own, open, writer, fan, shutdown, expelled>>

UnsubscribeOwn(c, t) ==
  /\ reader[c].pc = "idle"
  /\ own' = [own EXCEPT ![c] = @ \ {t}]
  /\ reader' = [reader EXCEPT ![c] = [pc |-> "unsubscribe", topic |-> t]]
  /\ UNCHANGED <<clients, subs, open, writer, out, fan, shutdown, expelled>>

\* Mutant: the registry is left alone.
UnsubscribeOwnOnly(c) ==
  /\ reader[c].pc = "unsubscribe"
  /\ MessageDone(c)
  /\ AnswerSent(c)
  /\ UNCHANGED <<clients, subs, own, open, writer, fan, shutdown, expelled>>

UnsubscribeRegistry(c) ==
  /\ reader[c].pc = "unsubscribe"
  /\ subs' = subs \ {<<reader[c].topic, c>>}
  /\ MessageDone(c)
  /\ AnswerSent(c)
  /\ UNCHANGED <<clients, own, open, writer, fan, shutdown, expelled>>

-----------------------------------------------------------------------------
(* The end of a connection.  The read pump returns when a read fails, or,  *)
(* after the read it was in, when it finds the connection closed or its    *)
(* context cancelled by the write pump's return: it closes the connection, *)
(* then unregisters the client in two steps.                               *)

ReadEnds(c) ==
  /\ reader[c].pc \in {"idle", "ending"}
  /\ open' = open \ {c}
  /\ reader' = [reader EXCEPT ![c] = In("closing")]
  /\ UNCHANGED <<clients, subs, own, writer, out, fan, shutdown, expelled>>

\* Unregister: a client the hub does not know is left alone.
Unregister(c) ==
  /\ reader[c].pc = "closing"
  /\ clients' = clients \ {c}
  /\ reader' = [reader EXCEPT ![c] = In(IF c \in clients THEN "leaving" ELSE "gone")]
  /\ UNCHANGED <<subs, own, open, writer, out, fan, shutdown, expelled>>

\* Mutant: only the topic looked at last is given up.
RemoveOne(c) ==
  /\ reader[c].pc = "leaving"
  /\ subs' = subs \ {<<CHOOSE t \in Topics : TRUE, c>>}
  /\ reader' = [reader EXCEPT ![c] = In("gone")]
  /\ UNCHANGED <<clients, own, open, writer, out, fan, shutdown, expelled>>

RemoveAll(c) ==
  /\ reader[c].pc = "leaving"
  /\ subs' = Without(c)
  /\ reader' = [reader EXCEPT ![c] = In("gone")]
  /\ UNCHANGED <<clients, own, open, writer, out, fan, shutdown, expelled>>

\* The write pump writes a frame, or returns: its write failed, or the connection
\* or the context is done.
WriteFrame(c) ==
  /\ writer[c] = "run" /\ out[c] > 0 /\ c \in open
  /\ out' = [out EXCEPT ![c] = @ - 1]
  /\ UNCHANGED <<clients, subs, own, open, reader, writer, fan, shutdown, expelled>>

WriteEnds(c) ==
  /\ writer[c] = "run"
  /\ writer' = [writer EXCEPT ![c] = "gone"] /\ out' = [out EXCEPT ![c] = 0]
  /\ UNCHANGED <<clients, subs, own, open, reader, fan, shutdown, expelled>>

-----------------------------------------------------------------------------
(* ChannelRegistry.Broadcast: a snapshot of the subscribers under the lock,*)
(* then a send to each that does not wait.                                 *)

BroadcastSnapshot(t) ==
  /\ fan = {}
  /\ fan' = {c \in Clients : <<t, c>> \in subs} /\ fan' # {}
  /\ UNCHANGED <<clients, subs, own, open, reader, writer, out, shutdown, expelled>>

\* Mutant: the send does not look for room.
BroadcastWaits(c) ==
  /\ c \in fan
  /\ fan' = fan \ {c}
  /\ out' = [out EXCEPT ![c] = @ + 1]
  /\ UNCHANGED <<clients, subs, own, open, reader, writer, shutdown, expelled>>

BroadcastSend(c) ==
  /\ c \in fan
  /\ fan' = fan \ {c}
  /\ AnswerSent(c)
  /\ UNCHANGED <<clients, subs, own, open, reader, writer, shutdown, expelled>>

-----------------------------------------------------------------------------
(* Shutdown: a snapshot of the clients, then each is taken out of the map, *)
(* out of every channel, and closed.                                       *)

ShutdownSnapshot ==
  /\ shutdown.pc = "none"
  /\ shutdown' = [pc |-> "next", cur |-> {}, rest |-> clients]
  /\ UNCHANGED <<clients, subs, own, open, reader, writer, out, fan, expelled>>

ShutdownForget(c) ==
  /\ shutdown.pc = "next" /\ c \in shutdown.rest
  /\ shutdown' = [pc |-> IF c \in clients THEN "remove" ELSE "close",
                  cur |-> {c}, rest |-> shutdown.rest \ {c}]
  /\ clients' = clients \ {c}
  /\ expelled' = expelled \cup (clients \cap {c})
  /\ UNCHANGED <<subs, own, open, reader, writer, out, fan>>

ShutdownRemove ==
  /\ shutdown.pc = "remove"
  /\ subs' = {s \in subs : s[2] \notin shutdown.cur}
  /\ shutdown' = [shutdown EXCEPT !.pc = "close"]
  /\ UNCHANGED <<clients, own, open, reader, writer, out, fan, expelled>>

ShutdownClose ==
  /\ shutdown.pc = "close"
  /\ open' = open \ shutdown.cur
  /\ shutdown' = [shutdown EXCEPT !.pc = "next", !.cur = {}]
  /\ UNCHANGED <<clients, subs, own, reader, writer, out, fan, expelled>>

ReadPump(c) ==
  SubscribeRegistry(c) \/ UnsubscribeRegistry(c) \/ Unregister(c) \/ RemoveAll(c)

RegistryNext ==
  \/ \E c \in Clients : Upgrade(c) \/ ReadPump(c) \/ ReadEnds(c)
  \/ \E c \in Clients : WriteFrame(c) \/ WriteEnds(c) \/ BroadcastSend(c) \/ ShutdownForget(c)
  \/ \E c \in Clients, t \in Topics : SubscribeOwn(c, t) \/ UnsubscribeOwn(c, t)
  \/ \E t \in Topics : BroadcastSnapshot(t)
  \/ ShutdownSnapshot \/ ShutdownRemove \/ ShutdownClose

RegistrySpec == RegistryInit /\ [][RegistryNext]_regVars

(* A read pump goes on, and one whose connection is closed or whose write  *)
(* pump is gone ends: its read fails, at the read deadline at the latest.  *)
RegistryFairness ==
  \A c \in Clients : WF_regVars(ReadPump(c)) /\ WF_regVars(MustEnd(c) /\ ReadEnds(c))

-----------------------------------------------------------------------------
(* Every variable holds what the code can put in it, the three caps with   *)
(* it: connections, channels per connection, frames per connection.        *)
RegistryTypeOK ==
  /\ clients \subseteq Clients /\ Cardinality(clients) <= MaxConnections
  /\ subs \subseteq Topics \X Clients
  /\ own \in [Clients -> SUBSET Topics]
  /\ \A c \in Clients : Cardinality(own[c]) <= MaxChannels
  /\ open \subseteq Clients /\ fan \subseteq Clients /\ expelled \subseteq Clients
  /\ \A c \in Clients :
       \/ reader[c] \in [pc : {"none", "idle", "ending", "closing", "leaving", "gone"}, topic : {NoTopic}]
       \/ reader[c] \in [pc : {"subscribe", "unsubscribe"}, topic : Topics]
  /\ writer \in [Clients -> {"none", "run", "gone"}]
  /\ out \in [Clients -> 0..OutBuffer]
  /\ shutdown \in [pc : {"none", "next", "remove", "close"},
                   cur : SUBSET Clients, rest : SUBSET Clients]

(***************************************************************************)
(* The registry and the clients' own sets are kept apart and must agree: a *)
(* connected client whose read pump is between two messages is in exactly  *)
(* the channels it has asked for; one that is gone is in none, unless      *)
(* Shutdown took it out under its read pump ("Unregister(c) // also drops  *)
(* the channel subscriptions", hub.go): then what it subscribed afterwards *)
(* stays for good.                                                         *)
(***************************************************************************)
RegistryFollowsClients ==
  \A c \in Clients :
    /\ reader[c].pc = "idle" /\ c \in clients => TopicsOf(c) = own[c]
    /\ reader[c].pc = "gone" /\ TopicsOf(c) # {} => c \in expelled

(***************************************************************************)
(* A connection that is closed, or whose write pump has given up, is taken *)
(* out of the hub: its place under MaxConnections is free again.           *)
(***************************************************************************)
RegistrySettled == \A c \in clients : ~MustEnd(c)
BrokenClientsLeave == []<>RegistrySettled
=============================================================================
