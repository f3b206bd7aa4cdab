------------------------------ MODULE Extension ------------------------------
(***************************************************************************)
(* The Lua binding (myextension.cpp): the vector of clients, the update    *)
(* hook that walks it by index, and the script whose callbacks, run from   *)
(* inside that walk, create, connect and close clients.  What a client's   *)
(* net thread does is in ConnClient; here it puts callbacks in its queue.  *)
(***************************************************************************)
EXTENDS Integers, SequencesExt, FiniteSetsExt

CONSTANTS
    Clients,        \* bound: the clients a script may create
    Kinds,          \* kinds of callbacks; "log" among them
    MaxOut,         \* bound: callbacks waiting in one out_queue_
    MaxEvents       \* bound: callbacks one client ever queues

None == "none"

\* What an instance must give these constants.
ExtensionAssumption ==
    /\ "log" \in Kinds
    /\ MaxOut \in Nat /\ MaxEvents \in Nat
    /\ None \notin Clients

VARIABLES
    g_connclients,  \* the vector
    created,        \* clients that exist; none is ever deleted
    started,        \* clients whose net thread was started
    cbs,            \* the callbacks a client has been given
    out,            \* out_queue_ of each client
    events,         \* callbacks each client has queued so far
    i,              \* index of the update hook, 0 outside of it
    cur,            \* the client whose Update runs
    in_callback,    \* a callback of it runs
    begin,          \* history: the clients in the vector when the hook was called
    updated,        \* history: the clients updated since, in order
    closes          \* history: close calls since

client_vars == <<g_connclients, created, started, cbs>>
queue_vars == <<out, events>>
hook_vars == <<i, cur, in_callback, begin, updated>>
vars == <<client_vars, queue_vars, hook_vars, closes>>

Init ==
    /\ g_connclients = <<>> /\ created = {} /\ started = {}
    /\ cbs = [c \in Clients |-> {}]
    /\ out = [c \in Clients |-> <<>>] /\ events = [c \in Clients |-> 0]
    /\ i = 0 /\ cur = None /\ in_callback = FALSE
    /\ begin = {} /\ updated = <<>> /\ closes = 0

IsConnectionValid(c) == \E k \in 1 .. Len(g_connclients) : g_connclients[k] = c

\* The index of c.
IndexOf(c) == CHOOSE k \in 1 .. Len(g_connclients) : g_connclients[k] = c

\* erase.
RemoveConnection(c) == RemoveAt(g_connclients, IndexOf(c))

-----------------------------------------------------------------------------
(* The script: outside of the hook, or in a callback                       *)

Script == i = 0 \/ in_callback

\* Mutant: a new client comes first.
CreateFirst(c) == <<c>> \o g_connclients

\* push_back.
PushBack(c) == Append(g_connclients, c)

Create(c) ==
    /\ Script /\ c \notin created
    /\ created' = created \cup {c}
    /\ g_connclients' = PushBack(c)
    /\ UNCHANGED <<started, cbs, queue_vars, hook_vars, closes>>

SetCallback(c, kind) ==
    /\ Script /\ IsConnectionValid(c)
    /\ cbs' = [cbs EXCEPT ![c] = @ \cup {kind}]
    /\ UNCHANGED <<g_connclients, created, started, queue_vars, hook_vars, closes>>

\* An event without a callback is not queued.
Queued(c, kind) ==
    IF kind \in cbs[c]
    THEN /\ out' = [out EXCEPT ![c] = Append(@, kind)]
         /\ events' = [events EXCEPT ![c] = @ + 1]
    ELSE UNCHANGED queue_vars

\* Connect writes a log entry on this thread, and starts the net thread.
Connect(c) ==
    /\ Script /\ IsConnectionValid(c)
    /\ Len(out[c]) < MaxOut /\ events[c] < MaxEvents
    /\ started' = started \cup {c}
    /\ Queued(c, "log")
    /\ UNCHANGED <<g_connclients, created, cbs, hook_vars, closes>>

\* Close asks the net thread to stop, and the client leaves the vector at once;
\* the object is never deleted, so a handle a script keeps names no later client.
CloseClient(c) ==
    /\ Script /\ IsConnectionValid(c)
    /\ g_connclients' = RemoveConnection(c)
    /\ closes' = closes + 1
    /\ UNCHANGED <<created, started, cbs, queue_vars, hook_vars>>

CallbackReturns ==
    /\ in_callback
    /\ in_callback' = FALSE
    /\ UNCHANGED <<client_vars, queue_vars, i, cur, begin, updated, closes>>

(* A net thread                                                            *)

Event(c, kind) ==
    /\ c \in started
    /\ Len(out[c]) < MaxOut /\ events[c] < MaxEvents
    /\ kind \in cbs[c]
    /\ Queued(c, kind)
    /\ UNCHANGED <<client_vars, hook_vars, closes>>

-----------------------------------------------------------------------------
(* The engine calls OnUpdateMyExtension                                    *)

\* Mutant: the first index.
FirstIndexOne == 2
FirstIndex == 1

HookBegins ==
    /\ i = 0
    /\ i' = FirstIndex
    /\ begin' = ToSet(g_connclients) /\ updated' = <<>> /\ closes' = 0
    /\ UNCHANGED <<client_vars, queue_vars, cur, in_callback>>

\* The size of the vector is read again on every turn.
UpdateBegins ==
    /\ i \in 1 .. Len(g_connclients) /\ cur = None
    /\ cur' = g_connclients[i]
    /\ updated' = Append(updated, cur')
    /\ UNCHANGED <<client_vars, queue_vars, i, in_callback, begin, closes>>

\* ConnClientPrivate::Update runs the oldest callback.
Deliver ==
    /\ cur # None /\ ~ in_callback /\ out[cur] # <<>>
    /\ out' = [out EXCEPT ![cur] = Tail(@)]
    /\ in_callback' = TRUE
    /\ UNCHANGED <<client_vars, events, i, cur, begin, updated, closes>>

UpdateEnds ==
    /\ cur # None /\ ~ in_callback /\ out[cur] = <<>>
    /\ cur' = None
    /\ i' = i + 1
    /\ UNCHANGED <<client_vars, queue_vars, in_callback, begin, updated, closes>>

HookEnds ==
    /\ i > Len(g_connclients) /\ cur = None
    /\ i' = 0
    /\ UNCHANGED <<client_vars, queue_vars, cur, in_callback, begin, updated, closes>>

Hook == HookBegins \/ UpdateBegins \/ Deliver \/ UpdateEnds \/ HookEnds

Next ==
    \/ \E c \in Clients : Create(c) \/ Connect(c) \/ CloseClient(c)
    \/ \E c \in Clients, kind \in Kinds : SetCallback(c, kind) \/ Event(c, kind)
    \/ CallbackReturns
    \/ Hook

\* The engine calls the hook every frame, and callbacks return.
Spec == Init /\ [][Next]_vars /\ WF_vars(Hook) /\ WF_vars(CallbackReturns)

-----------------------------------------------------------------------------
(* Properties                                                              *)

\* Whatever the callbacks create and close, no client is updated twice in a
\* frame (:277-283).
UpdatedOnce == \A j, k \in 1 .. Len(updated) : updated[j] = updated[k] => j = k

\* The walk misses at most one client for each close its callbacks make: erase
\* moves the clients behind by one, and the index goes on (:32, :279).
MissedAtMostClosed ==
    i > Len(g_connclients) /\ cur = None =>
        Cardinality((begin \cap ToSet(g_connclients)) \ ToSet(updated)) <= closes

\* A client that is missed is updated later: a callback waits only until a
\* following frame (:277-283).
CallbacksDelivered ==
    \A c \in Clients : out[c] # <<>> ~> out[c] = <<>> \/ ~ IsConnectionValid(c)
=============================================================================
