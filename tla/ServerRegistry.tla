--------------------------- MODULE ServerRegistry ---------------------------
(***************************************************************************)
(* The two containers that know the remote servers:                        *)
(*                                                                         *)
(*   servers   CommandProcessor's unordered_map from a server's name to a  *)
(*             shared_ptr<Server>.  operator[] is used for every lookup,   *)
(*             so looking a name up can insert a null pointer under it.    *)
(*   services  EventLoop's vector of the objects polled on every frame.    *)
(*             Nothing is ever taken out of it.                            *)
(*                                                                         *)
(* RPCCalls (which calls those servers) and EventLoop (which polls them)   *)
(* both extend this module.  Servers listed in rpc.json are registered by  *)
(* SDK_OnLoad with the two calls RPCAddServer makes, so every registry a   *)
(* configuration can produce is reached from the empty one.                *)
(***************************************************************************)
EXTENDS Naturals, Sequences, Functions

CONSTANTS
  Names,     \* names of servers
  Objs,      \* Server objects the process may allocate
  Absent,    \* the map has no entry for the name
  NullPtr    \* the map's entry for the name is a null shared_ptr

ASSUME RegistryConstants ==
  /\ Absent \notin Objs
  /\ NullPtr \notin Objs
  /\ Absent # NullPtr

VARIABLES servers, services

registryVars == <<servers, services>>

RegistryTypeOK ==
  /\ servers \in [Names -> Objs \cup {Absent, NullPtr}]
  /\ services \in Seq(Objs)

RegistryInit ==
  /\ servers = [n \in Names |-> Absent]
  /\ services = <<>>

-----------------------------------------------------------------------------
\* The name is bound to a server object: `if(server)` holds for the lookup.
Known(n) == servers[n] \in Objs

\* What servers[name] leaves behind: a missing key is default-inserted.
AfterLookup(n) == [servers EXCEPT ![n] = IF @ = Absent THEN NullPtr ELSE @]

RegisterService(s) == services' = Append(services, s)

\* What was registered under the name is replaced.
RegisterServer(n, s) == servers' = [servers EXCEPT ![n] = s]

\* RPCAddServer, for a name GetServer does not find.
RPCAddServer(n, s) ==
  /\ ~Known(n)
  /\ s \notin Range(services)
  /\ RegisterService(s)
  /\ RegisterServer(n, s)

\* RPCRemoveServer erases a known name; services keeps the object.  The
\* GetServer it starts with leaves a null entry for a name nobody added.
RPCRemoveServer(n) ==
  /\ servers' = IF Known(n) THEN [servers EXCEPT ![n] = Absent] ELSE AfterLookup(n)
  /\ UNCHANGED services

\* RPCGetServerPort and RPCGetServerAddress, and RPCAddServer for a known name.
LookUpServer(n) ==
  /\ servers' = AfterLookup(n)
  /\ UNCHANGED services

\* The names RPCGetServers puts in the array it returns.
RPCGetServers == {n \in Names : servers[n] # Absent}
=============================================================================
