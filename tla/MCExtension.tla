---------------------------- MODULE MCExtension ----------------------------
(***************************************************************************)
(* The Lua binding, by the names it has in the client's world: a script    *)
(* whose callbacks create and close clients below the walk of the hook.    *)
(***************************************************************************)
EXTENDS TLC

CONSTANTS Clients, Kinds, MaxOut, MaxEvents

VARIABLES
    g_connclients, created, started, cbs, out, events, i, cur, in_callback,
    begin, updated, closes

Binding == INSTANCE Extension

ASSUME BindingAssumption == Binding!ExtensionAssumption

BindingSpec == Binding!Spec

-----------------------------------------------------------------------------
(* The properties of Extension, by the names they have there.              *)

\* Whatever the callbacks create and close, no client is updated twice in a frame.
UpdatedOnce == Binding!UpdatedOnce

\* The walk misses at most one client for each close its callbacks make.
MissedAtMostClosed == Binding!MissedAtMostClosed

\* A client that is missed is updated later.
CallbacksDelivered == Binding!CallbacksDelivered
=============================================================================
