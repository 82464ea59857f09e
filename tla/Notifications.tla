---------------------------- MODULE Notifications ----------------------------
(***************************************************************************)
(* Wallet events on their way to the plugins: the notification bus of the  *)
(* main process (services/notification.service.js), the IPC channel to the *)
(* child process (index.js), the child's own bus (plugins/child.js) and    *)
(* the handlers the plugins register there.                                *)
(*                                                                         *)
(* State and connection events are published when they are raised; those   *)
(* about a transaction after its balance was awaited.  Whatever kills one  *)
(* process is noticed by the other as events of the channel.  What a       *)
(* plugin does with an event outside the process is external.              *)
(***************************************************************************)
EXTENDS Naturals, Sequences, SequencesExt

CONSTANTS
  TxEvents,    \* raised by 'new-tx' and 'update-tx'
  StateEvents, \* raised by the states and the other connection events
  Enabled,     \* config.enabled_plugins, in order
  Typed,       \* plugins that listen to the events' own names, not 'message'
  Late,        \* plugins that register when their broker is connected (rabbitmq)
  Ws,          \* the websocket plugin
  Clients      \* websocket clients

Events == TxEvents \cup StateEvents
Plugins == Range(Enabled)

ASSUME NotificationsAssumption ==
  /\ TxEvents \cap StateEvents = {}
  /\ Enabled \in Seq(Plugins) /\ IsInjective(Enabled)
  /\ Typed \cup Late \cup {Ws} \subseteq Plugins /\ Typed \cap Late = {}

VARIABLES
  raised,     \* the events the wallet-lib raised, in order
  computing,  \* transaction events that await getTxBalance
  emitted,    \* the events emitted on the main process' bus, in order
  connected,  \* child.connected
  killed,     \* child.killed
  parent,     \* the main process: "up" or "exited"
  child,      \* the plugins' process: "up" or "dead"
  channel,    \* messages on their way to the child
  next,       \* index of the plugin whose init() main() awaits
  connecting, \* plugins waiting for their broker
  listeners,  \* plugins in the order they registered a handler
  since,      \* since[p]: how many messages were handled before p registered
  got,        \* got[p]: the events the handler of p was called with
  sockets,    \* open websocket connections
  inbox       \* inbox[c]: what was sent to client c, and from where on

parentVars == <<raised, computing, emitted, connected, killed, parent>>
childVars == <<child, next, connecting, listeners, since, got, sockets, inbox>>
vars == <<parentVars, channel, childVars>>

Init ==
  /\ raised = << >> /\ computing = {} /\ emitted = << >>
  /\ connected = TRUE /\ killed = FALSE /\ parent = "up"
  /\ child = "up" /\ channel = << >> /\ next = 1 /\ connecting = {}
  /\ listeners = << >>
  /\ since = [p \in Plugins |-> 0] /\ got = [p \in Plugins |-> << >>]
  /\ sockets = {} /\ inbox = [c \in Clients |-> [from |-> 0, events |-> << >>]]

-----------------------------------------------------------------------------
(* The main process. *)

(* emit(type), emit('message'): the latter is sent to a child that can hear. *)
Emit(e) ==
  /\ emitted' = Append(emitted, e)
  /\ channel' = IF killed \/ ~connected THEN channel ELSE Append(channel, e)

(* Slip: every event waits for the balance, if it needs one or not. *)
RaiseAllAwait(e) ==
  /\ parent = "up" /\ ~Contains(raised, e)
  /\ raised' = Append(raised, e)
  /\ computing' = computing \cup {e} /\ UNCHANGED <<emitted, channel>>
  /\ UNCHANGED <<connected, killed, parent, childVars>>

(* A wallet raises an event its listeners of subscribeHathorWallet get. *)
Raise(e) ==
  /\ parent = "up" /\ ~Contains(raised, e)
  /\ raised' = Append(raised, e)
  /\ IF e \in StateEvents
       THEN Emit(e) /\ UNCHANGED computing
       ELSE computing' = computing \cup {e} /\ UNCHANGED <<emitted, channel>>
  /\ UNCHANGED <<connected, killed, parent, childVars>>

BalanceComputed(e) ==
  /\ parent = "up" /\ e \in computing
  /\ computing' = computing \ {e}
  /\ Emit(e)
  /\ UNCHANGED <<raised, connected, killed, parent, childVars>>

(* process.exit, or an exception nobody catches, as when getTxBalance rejects:
   the exit handler, or the end of the process, closes the channel. *)
ParentExits ==
  /\ parent = "up" /\ parent' = "exited"
  /\ connected' = FALSE
  /\ UNCHANGED <<raised, computing, emitted, killed, channel, childVars>>

(* Slip: the child's end is logged, and the process goes on without plugins. *)
ParentSurvives ==
  /\ parent = "up" /\ child = "dead" /\ connected
  /\ connected' = FALSE
  /\ UNCHANGED <<raised, computing, emitted, killed, parent, channel, childVars>>

(* The child's 'exit' event: process.exit(code || 127). *)
ParentFollows == child = "dead" /\ ParentExits

(* The child's 'disconnect' event: child.kill(). *)
ChildDisconnected ==
  /\ parent = "up" /\ child = "dead" /\ connected
  /\ connected' = FALSE /\ killed' = TRUE
  /\ UNCHANGED <<raised, computing, emitted, parent, channel, childVars>>

-----------------------------------------------------------------------------
(* The child process: main() and the plugins' init(). *)

ChildDies ==
  /\ child = "up" /\ child' = "dead"
  /\ channel' = << >> /\ sockets' = {}
  /\ UNCHANGED <<parentVars, next, connecting, listeners, since, got, inbox>>

(* Slip: the child lets its websocket clients go first. *)
ChildFollowsIdle == parent = "exited" /\ sockets = {} /\ ChildDies

(* The child's 'disconnect' event: process.exit(127). *)
ChildFollows == parent = "exited" /\ ChildDies

(* bus.on(...), from the next message on. *)
Register(p) ==
  /\ listeners' = Append(listeners, p)
  /\ since' = [since EXCEPT ![p] = Len(emitted) - Len(channel)]

(* init() of the next plugin: its dependencies are there, its settings good. *)
PluginStarts ==
  /\ child = "up" /\ next <= Len(Enabled)
  /\ LET p == Enabled[next] IN
     IF p \in Late
       THEN connecting' = connecting \cup {p} /\ UNCHANGED <<listeners, since>>
       ELSE Register(p) /\ UNCHANGED connecting
  /\ next' = next + 1
  /\ UNCHANGED <<parentVars, channel, child, got, sockets, inbox>>

(* A module, a dependency or a setting is missing: process.exit(127), or a
   rejection of main() that nobody handles. *)
PluginStartFails == next <= Len(Enabled) /\ ChildDies

(* createChannel calls back. *)
BrokerConnected(p) ==
  /\ child = "up" /\ p \in connecting
  /\ connecting' = connecting \ {p}
  /\ Register(p)
  /\ UNCHANGED <<parentVars, channel, child, next, got, sockets, inbox>>

(* `throw connErr`, `throw channelErr` *)
BrokerFails(p) == p \in connecting /\ ChildDies

-----------------------------------------------------------------------------
(* Messages in the child. *)

(* The handlers called before p for a message, p the k-th listener: those of
   'message' come first, then those of the event's own name. *)
CalledBefore(k) ==
  LET p == listeners[k] IN
  {listeners[j] : j \in {i \in DOMAIN listeners :
      IF p \in Typed THEN listeners[i] \notin Typed \/ i < k ELSE listeners[i] \notin Typed /\ i < k}}

Hear(ps, e) ==
  /\ got' = [p \in Plugins |-> IF p \in ps THEN Append(got[p], e) ELSE got[p]]
  /\ inbox' = [c \in Clients |->
                 IF Ws \in ps /\ c \in sockets
                   THEN [inbox[c] EXCEPT !.events = Append(@, e)] ELSE inbox[c]]

(* Slip: the event's own name is not repeated on the child's bus. *)
HandleMessageOnly ==
  /\ child = "up" /\ channel # << >>
  /\ channel' = Tail(channel)
  /\ Hear(Range(listeners) \ Typed, Head(channel))
  /\ UNCHANGED <<parentVars, child, next, connecting, listeners, since, sockets>>

(* handleMessage: 'message', then the event's own name. *)
HandleMessage ==
  /\ child = "up" /\ channel # << >>
  /\ channel' = Tail(channel)
  /\ Hear(Range(listeners), Head(channel))
  /\ UNCHANGED <<parentVars, child, next, connecting, listeners, since, sockets>>

(* A handler throws: nobody after it hears of the event, and the child ends. *)
HandlerThrows ==
  /\ child = "up" /\ channel # << >>
  /\ \E k \in DOMAIN listeners : Hear(CalledBefore(k), Head(channel))
  /\ child' = "dead" /\ channel' = << >> /\ sockets' = {}
  /\ UNCHANGED <<parentVars, next, connecting, listeners, since>>

(* A websocket client connects, once. *)
SocketOpens(c) ==
  /\ child = "up" /\ Contains(listeners, Ws) /\ inbox[c].events = << >> /\ c \notin sockets
  /\ sockets' = sockets \cup {c}
  /\ inbox' = [inbox EXCEPT ![c].from = Len(got[Ws])]
  /\ UNCHANGED <<parentVars, channel, child, next, connecting, listeners, since, got>>

SocketCloses(c) ==
  /\ child = "up" /\ c \in sockets /\ sockets' = sockets \ {c}
  /\ UNCHANGED <<parentVars, channel, child, next, connecting, listeners, since, got, inbox>>

-----------------------------------------------------------------------------
(* Both processes gone. *)
Ended == parent = "exited" /\ child = "dead" /\ UNCHANGED vars

Next ==
  \/ \E e \in Events : Raise(e) \/ BalanceComputed(e)
  \/ ParentExits \/ ParentFollows \/ ChildDisconnected
  \/ ChildFollows \/ PluginStarts \/ PluginStartFails
  \/ \E p \in Late : BrokerConnected(p) \/ BrokerFails(p)
  \/ HandleMessage \/ HandlerThrows
  \/ \E c \in Clients : SocketOpens(c) \/ SocketCloses(c)
  \/ Ended

(* Promises settle, Node delivers messages and the ends of processes. *)
Fairness ==
  /\ WF_vars(\E e \in Events : BalanceComputed(e))
  /\ WF_vars(ParentFollows) /\ WF_vars(ChildFollows)
  /\ WF_vars(HandleMessage \/ HandlerThrows)

Spec == Init /\ [][Next]_vars /\ Fairness

-----------------------------------------------------------------------------
(* e comes before f in s. *)
Before(s, e, f) == \E i, j \in DOMAIN s : i < j /\ s[i] = e /\ s[j] = f

(***************************************************************************)
(* From the moment it listens, a plugin gets every event the main process  *)
(* publishes, once and in the order of publication, though two buses and a *)
(* channel are in between and the bus carries every event under two names; *)
(* and a websocket client, everything from its connection on.              *)
(* (index.js:69-76, child.js:121-128, hathor_websocket.js:55-70)           *)
(***************************************************************************)
HeardOnceInOrder ==
  child = "up" /\ connected =>
    /\ \A p \in Range(listeners) :
         got[p] \o channel = SubSeq(emitted, since[p] + 1, Len(emitted))
    /\ \A c \in sockets :
         inbox[c].events = SubSeq(got[Ws], inbox[c].from + 1, Len(got[Ws]))

(***************************************************************************)
(* States of wallets and connections are published in the order they were  *)
(* raised, none is held back, and no transaction event is published before *)
(* it was raised or twice, although those are published after an await and *)
(* overtake each other.  (notification.service.js:33-98)                   *)
(***************************************************************************)
StatesInOrder ==
  /\ Range(raised) \cap StateEvents \subseteq Range(emitted)
  /\ \A e, f \in StateEvents : Before(emitted, e, f) <=> Before(raised, e, f)
  /\ IsInjective(emitted) /\ Range(emitted) \subseteq Range(raised)

(***************************************************************************)
(* The wallets never run on without the plugins they were configured with, *)
(* nor the plugins without the wallets: the end of either process, from    *)
(* whatever cause, is followed by the other's.  (index.js:35-66)           *)
(***************************************************************************)
EndTogether == []<>((parent = "exited") = (child = "dead"))

(***************************************************************************)
(* No event is lost between its wallet and a plugin that listens: unless   *)
(* the process ends, every listener gets all that was raised since, though *)
(* the balance is awaited, the child hears of each event under two names   *)
(* and a handler may throw.  (notification.service.js:62-87,               *)
(* child.js:121-128)                                                       *)
(***************************************************************************)
RaisedIsHeard ==
  []<>(\/ parent = "exited"
       \/ /\ Range(emitted) = Range(raised)
          /\ \A p \in Range(listeners) : got[p] = SubSeq(emitted, since[p] + 1, Len(emitted)))
=============================================================================
