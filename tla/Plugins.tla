------------------------------- MODULE Plugins -------------------------------
(***************************************************************************)
(* Plugins: internal/plugin (registry and RPC server), internal/events and   *)
(* internal/hostapi.  An external plugin holds a WebSocket connection, over   *)
(* which it calls the host and is sent the events it subscribes to; builtin   *)
(* plugins that wrap a remote service are probed.  Every method of the        *)
(* registry and of the bus is one step under its lock; a connection's handler *)
(* takes them one after another, and nothing ties a connection to the         *)
(* registry's status but the calls it makes.                                 *)
(***************************************************************************)
EXTENDS Integers, Sequences, FiniteSets

CONSTANTS
    Externals, Remotes,         \* external socket plugins; probed builtins
    OldABI,                     \* externals built for another host ABI
    Subscribing,                \* externals that subscribe to the one event type
    PluginsOn, PluginsOff,      \* plugins_enabled, plugins_disabled
    PluginConns,                \* connections, each used once
    Backlog,                    \* events queued for a connection (64)
    MaxEvents, MaxToggles       \* bounds: events; enables and disables

ASSUME PluginsConfig ==
    /\ Externals \cap Remotes = {} /\ OldABI \cup Subscribing \subseteq Externals
    /\ Backlog \in Nat \ {0} /\ {MaxEvents, MaxToggles} \subseteq Nat
    /\ 0 \notin PluginConns

VARIABLES
    plugin,      \* Registry.plugins: enabled, status
    conn,        \* handleConn: where it is, its plugin, bus slot, queue, what it was sent
    subscribers, \* Bus.subscribers of the event type: connections, or NoConn
    publishing,  \* the event a connection publishes, and the handlers still to call
    publisher,   \* who published each event
    probing,     \* answers of /healthz not yet recorded
    toggles

pluginVars == <<plugin, conn, subscribers, publishing, publisher, probing, toggles>>

PluginIds == Externals \cup Remotes
NoConn    == 0
NotPublishing == [event |-> 0, todo |-> <<>>]
Gone      == {"closing", "unsubscribed", "over"}

PluginsTypeOK ==
    /\ plugin \in [PluginIds -> [enabled : BOOLEAN,
                      status : {"connected", "disconnected", "disabled", "incompatible"}]]
    /\ \A c \in PluginConns :
          /\ conn[c].at \in {"unborn", "open", "authed", "marked", "serving"} \cup Gone
          /\ Len(conn[c].queue) <= Backlog /\ conn[c].slot \in Nat
    /\ subscribers \in Seq(PluginConns \cup {NoConn})
    /\ DOMAIN publisher = 1 .. Len(publisher) /\ Len(publisher) <= MaxEvents
    /\ probing \in [Remotes -> {"none", "ok", "down"}] /\ toggles \in 0 .. MaxToggles

-----------------------------------------------------------------------------
(* The registry.                                                             *)

\* An empty enabled list allows all; the disabled list wins.
activeInSets(p) == (PluginsOn = {} \/ p \in PluginsOn) /\ p \notin PluginsOff
Compatible(p) == p \notin OldABI
\* The status of an enabled plugin before anything has been heard of it.
Unheard(p) == IF ~Compatible(p) THEN "incompatible"
              ELSE IF p \in Remotes THEN "connected" ELSE "disconnected"
addManifest(p) == IF activeInSets(p) THEN [enabled |-> TRUE, status |-> Unheard(p)]
                  ELSE [enabled |-> FALSE, status |-> "disabled"]
Available(p) == plugin[p].enabled /\ plugin[p].status # "incompatible"

Becomes(p, status) == plugin' = [plugin EXCEPT ![p].status = status]
Toggles == toggles < MaxToggles /\ toggles' = toggles + 1
Enable(p) ==
    /\ Toggles
    /\ plugin' = [plugin EXCEPT ![p] = [enabled |-> TRUE, status |-> Unheard(p)]]
    /\ UNCHANGED <<conn, subscribers, publishing, publisher, probing>>
Disable(p) ==
    /\ Toggles
    /\ plugin' = [plugin EXCEPT ![p] = [enabled |-> FALSE, status |-> "disabled"]]
    /\ UNCHANGED <<conn, subscribers, publishing, publisher, probing>>
MarkConnected(p) ==
    IF plugin[p].enabled /\ Compatible(p) THEN Becomes(p, "connected") ELSE UNCHANGED plugin
MarkDisconnected(p) ==
    IF plugin[p].enabled /\ p \notin Remotes /\ Compatible(p) THEN Becomes(p, "disconnected")
    ELSE UNCHANGED plugin
\* probeHealthz: the answer comes first and is recorded later.
probeHealthz(r, answer) ==
    /\ probing[r] = "none" /\ probing' = [probing EXCEPT ![r] = answer]
    /\ UNCHANGED <<plugin, conn, subscribers, publishing, publisher, toggles>>
SetProbeResult(r) ==
    /\ probing[r] # "none" /\ probing' = [probing EXCEPT ![r] = "none"]
    /\ IF ~plugin[r].enabled THEN UNCHANGED plugin
       ELSE Becomes(r, IF probing[r] = "ok" THEN "connected" ELSE "disconnected")
    /\ UNCHANGED <<conn, subscribers, publishing, publisher, toggles>>

-----------------------------------------------------------------------------
(* The event bus.                                                            *)

\* Subscribe returns the slot that its unsubscribe will clear.
Subscribe(c) == subscribers' = Append(subscribers, c)
\* A variant: unsubscribing closes the gap.
VacatedShrinks(slot) ==
    IF slot \in 1 .. Len(subscribers)
    THEN SubSeq(subscribers, 1, slot - 1) \o SubSeq(subscribers, slot + 1, Len(subscribers))
    ELSE subscribers
\* The slot is emptied and never used again, so the others keep theirs.
Vacated(slot) ==
    IF slot \in 1 .. Len(subscribers) THEN [subscribers EXCEPT ![slot] = NoConn]
    ELSE subscribers

-----------------------------------------------------------------------------
(* A connection.                                                             *)

ConnAt(c, at) == conn' = [conn EXCEPT ![c].at = at]
\* authenticate: an enabled external plugin of the host's ABI, which the peer
\* claims to be; a refusal closes the connection before it has a plugin.
authenticate(c, p) ==
    /\ conn[c].at = "open"
    /\ \/ Compatible(p) /\ Available(p) /\ p \in Externals
          /\ conn' = [conn EXCEPT ![c].at = "authed", ![c].plugin = {p}]
       \/ ConnAt(c, "over")
    /\ UNCHANGED <<plugin, subscribers, publishing, publisher, probing, toggles>>
PluginOf(c) == CHOOSE p \in conn[c].plugin : TRUE
\* The handler ignores that MarkConnected may refuse a plugin disabled since.
Registers(c) ==
    /\ conn[c].at = "authed" /\ ConnAt(c, "marked") /\ MarkConnected(PluginOf(c))
    /\ UNCHANGED <<subscribers, publishing, publisher, probing, toggles>>
subscribeConnection(c) ==
    /\ conn[c].at = "marked"
    /\ IF PluginOf(c) \in Subscribing
       THEN /\ Subscribe(c)
            /\ conn' = [conn EXCEPT ![c].at = "serving", ![c].slot = Len(subscribers) + 1]
       ELSE ConnAt(c, "serving") /\ UNCHANGED subscribers
    /\ UNCHANGED <<plugin, publishing, publisher, probing, toggles>>

\* events/publish, the host method that changes state: Publish takes a copy
\* of the handlers and calls them outside the lock.
eventsPublish(c) ==
    /\ conn[c].at = "serving" /\ publishing[c] = NotPublishing /\ Len(publisher) < MaxEvents
    /\ publisher' = Append(publisher, c)
    /\ publishing' = [publishing EXCEPT ![c] = [event |-> Len(publisher) + 1,
                                                todo |-> subscribers]]
    /\ UNCHANGED <<plugin, conn, subscribers, probing, toggles>>
\* Mutant: the handler's select has no default.
HasRoomAlways(c) == TRUE
\* The handler's select: room in the connection's channel.
HasRoom(c) == Len(conn[c].queue) < Backlog
\* One handler: it never blocks.  The queue of a connection that has gone may
\* still take the event (select has two ready cases); nobody reads it.
Publish(c) ==
    LET s == publishing[c].todo IN
    /\ s # <<>>
    /\ publishing' = [publishing EXCEPT ![c] =
          IF Len(s) = 1 THEN NotPublishing ELSE [@ EXCEPT !.todo = Tail(s)]]
    /\ IF s[1] # NoConn /\ conn[s[1]].at \notin {"unsubscribed", "over"}
          /\ HasRoom(s[1])
       THEN conn' = [conn EXCEPT ![s[1]].queue = Append(@, publishing[c].event)]
       ELSE UNCHANGED conn
    /\ UNCHANGED <<plugin, subscribers, publisher, probing, toggles>>
PublishNobody(c) ==
    /\ publishing[c].event # 0 /\ publishing[c].todo = <<>>
    /\ publishing' = [publishing EXCEPT ![c] = NotPublishing]
    /\ UNCHANGED <<plugin, conn, subscribers, publisher, probing, toggles>>
\* The goroutine that writes events; a failed write ends it, not the connection.
Push(c) ==
    /\ conn[c].queue # <<>> /\ conn[c].pump /\ conn[c].at \notin {"unsubscribed", "over"}
    /\ \/ conn' = [conn EXCEPT ![c].queue = Tail(@), ![c].sent = Append(@, Head(conn[c].queue))]
       \/ conn' = [conn EXCEPT ![c].queue = Tail(@), ![c].pump = FALSE]
    /\ UNCHANGED <<plugin, subscribers, publishing, publisher, probing, toggles>>

\* The peer closes, or breaks: handleConn returns between two messages.
HangUp(c) ==
    /\ conn[c].at \in {"open", "serving"} /\ publishing[c] = NotPublishing
    /\ ConnAt(c, IF conn[c].at = "open" THEN "over" ELSE "closing")
    /\ UNCHANGED <<plugin, subscribers, publishing, publisher, probing, toggles>>
\* The deferred calls.
Unsubscribes(c) ==
    /\ conn[c].at = "closing" /\ conn' = [conn EXCEPT ![c].at = "unsubscribed", ![c].queue = <<>>]
    /\ subscribers' = Vacated(conn[c].slot)
    /\ UNCHANGED <<plugin, publishing, publisher, probing, toggles>>
Leaves(c) ==
    /\ conn[c].at = "unsubscribed" /\ ConnAt(c, "over") /\ MarkDisconnected(PluginOf(c))
    /\ UNCHANGED <<subscribers, publishing, publisher, probing, toggles>>

Connects(c) ==
    /\ conn[c].at = "unborn" /\ ConnAt(c, "open")
    /\ UNCHANGED <<plugin, subscribers, publishing, publisher, probing, toggles>>

PluginsInit ==
    /\ plugin = [p \in PluginIds |-> addManifest(p)]
    /\ conn = [c \in PluginConns |-> [at |-> "unborn", plugin |-> {}, slot |-> 0,
                                      queue |-> <<>>, sent |-> <<>>, pump |-> TRUE]]
    /\ subscribers = <<>> /\ publisher = <<>> /\ toggles = 0
    /\ publishing = [c \in PluginConns |-> NotPublishing]
    /\ probing = [r \in Remotes |-> "none"]

PluginsNext ==
    \/ \E p \in PluginIds : Enable(p) \/ Disable(p)
    \/ \E r \in Remotes : SetProbeResult(r) \/ \E a \in {"ok", "down"} : probeHealthz(r, a)
    \/ \E c \in PluginConns :
          \/ Connects(c) \/ Registers(c) \/ subscribeConnection(c)
          \/ \E p \in PluginIds : authenticate(c, p)
          \/ eventsPublish(c) \/ Publish(c) \/ PublishNobody(c) \/ Push(c)
          \/ HangUp(c) \/ Unsubscribes(c) \/ Leaves(c)
PluginsSpec == PluginsInit /\ [][PluginsNext]_pluginVars

-----------------------------------------------------------------------------
(* Properties.                                                               *)

SlotsOf(c) == {i \in 1 .. Len(subscribers) : subscribers[i] = c}
\* An external plugin is shown connected only while a connection of it is
\* there, a disabled plugin is shown as such whatever a late probe or handshake
\* says, the bus calls exactly the connections that serve subscribers (leaving
\* never takes another's subscription), and each is sent a publisher's events
\* in order and once.
PluginsSound ==
    /\ \A p \in PluginIds : (plugin[p].status = "disabled") = ~plugin[p].enabled
    /\ \A p \in Externals : plugin[p].status = "connected" =>
          \E c \in PluginConns : p \in conn[c].plugin /\ conn[c].at # "over"
    /\ \A c \in PluginConns :
          SlotsOf(c) = IF conn[c].at \in {"serving", "closing"} /\ PluginOf(c) \in Subscribing
                       THEN {conn[c].slot} ELSE {}
    /\ \A c \in PluginConns : \A i, j \in 1 .. Len(conn[c].sent) :
          LET d == conn[c].sent[i]  e == conn[c].sent[j]
          IN  i < j => d # e /\ (publisher[d] = publisher[e] => d < e)
==============================================================================
