--------------------------- MODULE FeedConnection ---------------------------
(***************************************************************************)
(* The connection of the WebSocket client (clients/websocket.js and        *)
(* reconnect() in message_pump.js): connect, disconnect, setBase, the      *)
(* listeners of each socket, and the reconnect timer.  The listeners close *)
(* over the client and not over their socket, so an event of any socket,   *)
(* the current one or not, changes the client's state.                     *)
(***************************************************************************)
EXTENDS Integers, Sequences, FiniteSets

CONSTANTS
    NoSocket,
    MaxAttempts,  \* maxReconnectAttempts
    Calls,        \* what the caller does: subset of {"connect", "disconnect", "setBase"}
    Failures,     \* whether a connection attempt may fail
    MaxCalls,     \* bound on the caller's calls
    MaxCuts      \* bound on connections lost

ASSUME ConnectionAssumption == {MaxAttempts, MaxCalls, MaxCuts} \subseteq Nat

VARIABLES
    socks,        \* the sockets made so far: state, WELCOME seen, who called connect()
    ws,           \* the client's current socket, or NoSocket
    connected, intentionalClose, reconnectAttempts,
    timers,       \* reconnect timers pending
    hooks,        \* connect() calls awaiting the ready hook, by caller
    wants,        \* history: the caller wants to be connected
    lost,         \* history: connection_lost was emitted
    failed,       \* history: an attempt to connect failed
    quiet,        \* history: every call met a connection at rest, and was not a
                  \* setBase(), which closes one socket and opens another at once
    calls, cuts

connVars == <<socks, ws, connected, intentionalClose, reconnectAttempts, timers, hooks, wants, lost,
          failed, quiet, calls, cuts>>
flags == <<intentionalClose, reconnectAttempts>>
counts == <<calls, cuts>>
history == <<wants, lost, failed, quiet>>

Ids == DOMAIN socks
Is(s, states) == socks[s].st \in states

ConnInit ==
    /\ socks = <<>> /\ ws = NoSocket
    /\ connected = FALSE /\ intentionalClose = FALSE /\ reconnectAttempts = 0
    /\ timers = 0 /\ hooks = [user |-> 0, timer |-> 0]
    /\ wants = FALSE /\ lost = FALSE /\ failed = FALSE /\ quiet = TRUE
    /\ calls = 0 /\ cuts = 0

-----------------------------------------------------------------------------
(* connect() *)

HasSocket == ws # NoSocket /\ Is(ws, {"connecting", "open"})

\* connect() up to the ready hook: nothing to do while there is a socket.
ConnectCall(h, by) == IF HasSocket THEN h ELSE [h EXCEPT ![by] = @ + 1]

\* connect() after the hook: the socket is not looked at again.
OpenSocket(by) ==
    /\ hooks[by] > 0
    /\ hooks' = [hooks EXCEPT ![by] = @ - 1]
    /\ intentionalClose' = FALSE
    /\ socks' = Append(socks, [st |-> "connecting", welcomed |-> FALSE, by |-> by])
    /\ ws' = Len(socks) + 1
    /\ UNCHANGED <<connected, reconnectAttempts, timers, history, counts>>

\* At rest: nothing in flight that the caller could wait for.
AtRest ==
    /\ timers = 0 /\ hooks = [user |-> 0, timer |-> 0]
    /\ \A s \in Ids : Is(s, {"open", "closed"}) /\ (Is(s, {"open"}) => socks[s].welcomed)

MayCall(what) ==
    /\ what \in Calls /\ calls < MaxCalls /\ calls' = calls + 1
    /\ quiet' = (quiet /\ AtRest /\ what # "setBase")

Connect ==
    /\ MayCall("connect")
    /\ wants' = TRUE
    /\ hooks' = ConnectCall(hooks, "user")
    /\ UNCHANGED <<socks, ws, connected, flags, timers, lost, failed, cuts>>

\* disconnect()
Closed ==
    /\ intentionalClose' = TRUE
    /\ connected' = FALSE
    /\ socks' = IF ws = NoSocket THEN socks
                ELSE [socks EXCEPT ![ws].st = IF @ = "closed" THEN @ ELSE "closing"]
    /\ ws' = NoSocket

Disconnect ==
    /\ MayCall("disconnect")
    /\ wants' = FALSE
    /\ Closed
    /\ UNCHANGED <<reconnectAttempts, timers, hooks, lost, failed, cuts>>

\* setBase() while connected: disconnect() and connect() in one go.
SetBase ==
    /\ MayCall("setBase")
    /\ connected /\ ws # NoSocket /\ Is(ws, {"open"})
    /\ Closed
    /\ hooks' = [hooks EXCEPT !.user = @ + 1]
    /\ UNCHANGED <<reconnectAttempts, timers, wants, lost, failed, cuts>>

-----------------------------------------------------------------------------
(* The listeners of a socket. *)

OnOpen(s) ==
    /\ Is(s, {"connecting"})
    /\ socks' = [socks EXCEPT ![s].st = "open"]
    /\ connected' = TRUE
    /\ reconnectAttempts' = 0
    /\ UNCHANGED <<ws, intentionalClose, timers, hooks, history, counts>>

OnWelcome(s) ==
    /\ Is(s, {"open"}) /\ ~socks[s].welcomed
    /\ socks' = [socks EXCEPT ![s].welcomed = TRUE]
    /\ UNCHANGED <<ws, connected, flags, timers, hooks, history, counts>>

\* Mutant: a lost connection is left alone.
ReconnectUnarmed == UNCHANGED <<reconnectAttempts, timers, lost>>

\* reconnect()
ReconnectLater ==
    IF intentionalClose THEN UNCHANGED <<reconnectAttempts, timers, lost>>
    ELSE IF reconnectAttempts >= MaxAttempts
    THEN lost' = TRUE /\ UNCHANGED <<reconnectAttempts, timers>>
    ELSE /\ reconnectAttempts' = reconnectAttempts + 1
         /\ timers' = timers + 1
         /\ UNCHANGED lost

\* The close listener; before WELCOME it only rejects connect()'s promise.
OnClose(s) ==
    /\ socks' = [socks EXCEPT ![s].st = "closed"]
    /\ connected' = FALSE
    /\ IF socks[s].welcomed THEN ReconnectLater ELSE UNCHANGED <<reconnectAttempts, timers, lost>>
    /\ UNCHANGED <<ws, intentionalClose, hooks>>

\* The close the client asked for.
CloseDone(s) ==
    /\ Is(s, {"closing"})
    /\ OnClose(s)
    /\ UNCHANGED <<wants, failed, quiet, counts>>

\* A connection is lost.
Cut(s) ==
    /\ Is(s, {"open"}) /\ socks[s].welcomed /\ cuts < MaxCuts
    /\ cuts' = cuts + 1
    /\ OnClose(s)
    /\ UNCHANGED <<wants, failed, quiet, calls>>

\* An attempt fails before WELCOME: the caller of connect() is told, and the
\* reconnect timer's own call swallows it.
Fail(s) ==
    /\ Failures
    /\ Is(s, {"connecting", "open"}) /\ ~socks[s].welcomed
    /\ OnClose(s)
    /\ wants' = IF socks[s].by = "user" THEN FALSE ELSE wants
    /\ failed' = TRUE
    /\ UNCHANGED <<quiet, counts>>

\* The reconnect timer fires.
TimerFires ==
    /\ timers > 0
    /\ timers' = timers - 1
    /\ hooks' = ConnectCall(hooks, "timer")
    /\ UNCHANGED <<socks, ws, connected, flags, history, counts>>

Caller == Connect \/ Disconnect \/ SetBase
Progress(s) == OnOpen(s) \/ OnWelcome(s) \/ CloseDone(s)
Opening == OpenSocket("user") \/ OpenSocket("timer")

ConnNext ==
    \/ Caller \/ Opening \/ TimerFires
    \/ \E s \in Ids : Progress(s) \/ Cut(s) \/ Fail(s)

ConnSpec == ConnInit /\ [][ConnNext]_connVars

\* The ready hook resolves, timers fire, and the sockets' events arrive: a socket
\* has three at most, so fairness to all of them together starves none.
ConnFairness ==
    WF_connVars(Opening) /\ WF_connVars(TimerFires) /\ WF_connVars(\E s \in Ids : Progress(s))

-----------------------------------------------------------------------------
ConnTypeOK ==
    /\ ws \in Ids \cup {NoSocket}
    /\ \A s \in Ids : /\ Is(s, {"connecting", "open", "closing", "closed"})
                      /\ socks[s].welcomed \in BOOLEAN /\ socks[s].by \in {"user", "timer"}
    /\ connected \in BOOLEAN /\ intentionalClose \in BOOLEAN
    /\ reconnectAttempts \in 0..MaxAttempts
    /\ timers \in 0..(MaxCuts + MaxCalls)

\* A client that wants a connection gets it back, is told it is lost, or no
\* longer wants it (README: "WebSocket streaming with automatic reconnection"),
\* when no attempt fails and the caller lets the connection come to rest between
\* calls.
ComesBackUnlessFailing == wants ~> (connected \/ lost \/ ~wants \/ failed \/ ~quiet)
=============================================================================
