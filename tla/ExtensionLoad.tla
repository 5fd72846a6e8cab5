--------------------------- MODULE ExtensionLoad ---------------------------
(***************************************************************************)
(* Loading and unloading the extension around its event loop.  SourceMod   *)
(* calls OnExtensionLoad, which reads rpc.json, checks it, opens the       *)
(* listening socket, connects to the configured servers and hooks the game *)
(* frame.  OnExtensionUnload only removes the hook: the objects EventLoop  *)
(* allocated with new are never deleted, so the socket goes on listening   *)
(* until the process ends.                                                 *)
(*                                                                         *)
(* An administrator may edit rpc.json and reload the extension.  Whether   *)
(* dlclose really unmaps the library, and so resets its globals, is up to  *)
(* the dynamic linker (a library with unique symbols stays); keeps is that *)
(* choice.  CoreConfig::Init writes only the keys the file has, so in a    *)
(* library that stayed the old values live on.                             *)
(*                                                                         *)
(* A file is a record of its shape and of its three top-level keys and the *)
(* entries of "servers".  Ports are within the range of int.               *)
(***************************************************************************)
EXTENDS EventLoop

CONSTANTS
  Files,           \* what rpc.json may hold when the extension is loaded
  NotGiven,        \* the key is absent, null or of another type
  NotAnAddress,    \* an address from_string rejects, such as a host name
  TakenElsewhere,  \* endpoints other processes listen on
  MaxLoads         \* bound: attempts to load the extension

ASSUME LoadConstants == MaxLoads \in Nat

\* A file that cannot be parsed, or that is not an object, gives nothing.
ASSUME FileConstants ==
  /\ IsFiniteSet(Names)
  /\ \A f \in Files :
       /\ DOMAIN f.servers \subseteq Names
       /\ f.shape # "object" =>
            f.port = NotGiven /\ f.address = NotGiven /\ DOMAIN f.servers = {}

VARIABLES
  conf,     \* the global CoreConfig, servers as the set of their names
  held,     \* the endpoints this process listens on
  file,     \* the file of the last attempt
  loads,    \* attempts to load
  touched,  \* history: names plugins added or removed since the last load
  stayed    \* history: the library outlived an attempt or an unload

loadVars == <<conf, held, file, loads, touched, stayed>>
vars == <<registryVars, loopVars, loadVars>>

NoFile == [shape |-> "unreadable", port |-> NotGiven, address |-> NotGiven,
           secret |-> NotGiven, servers |-> <<>>]

\* The members of CoreConfig as its constructor sets them.
DefaultConfig == [port |-> -1, address |-> "", secret |-> "", servers |-> {}]

Config ==
  [port : {f.port : f \in Files} \cup {DefaultConfig.port},
   address : {f.address : f \in Files} \cup {DefaultConfig.address},
   secret : {f.secret : f \in Files} \cup {DefaultConfig.secret},
   servers : SUBSET Names]

-----------------------------------------------------------------------------
(* CoreConfig::Init. *)

\* The library's operator[] throws for a value that is neither an object nor
\* null, and the catch is for another type of exception.
Throws(f) ==
  \/ f.shape = "other"
  \/ f.shape = "object" /\ \E n \in DOMAIN f.servers : f.servers[n].shape = "other"

ServersOf_Unchecked(f) == DOMAIN f.servers  \* mutant: no entry is skipped

\* An entry without an integer port or without a string address is skipped.
ServersOf(f) ==
  {n \in DOMAIN f.servers : f.servers[n].port /\ f.servers[n].address}

Given(new, old) == IF new = NotGiven THEN old ELSE new

\* What a file makes of the configuration.  A file that does not parse, or is
\* missing, changes nothing; a top-level null is an object without keys.
CoreConfigInit(f) ==
  IF f.shape = "unreadable" THEN conf
  ELSE [port |-> Given(f.port, conf.port),
        address |-> Given(f.address, conf.address),
        secret |-> Given(f.secret, conf.secret),
        servers |-> conf.servers \cup ServersOf(f)]

-----------------------------------------------------------------------------
(* SDK_OnLoad. *)

Valid(c) ==
  /\ c.port > 0 /\ c.port <= 65535
  /\ c.address # ""
  /\ c.secret # ""

Endpoint(c) == <<c.address, c.port>>

\* The constructor of the acceptor binds and listens, and throws if it cannot.
CanListen(c) ==
  c.address # NotAnAddress /\ Endpoint(c) \notin held \cup TakenElsewhere

\* The library is unmapped and its globals are gone, or it stays.  The leaked
\* acceptor holds its endpoint either way.
Release(keeps, c) ==
  IF keeps
  THEN conf' = c /\ stayed' = TRUE /\ UNCHANGED <<registryVars, capacity>>
  ELSE /\ conf' = DefaultConfig
       /\ servers' = [n \in Names |-> Absent]
       /\ services' = <<>>
       /\ capacity' = 0
       /\ stayed' = FALSE

Attempt(f) ==
  /\ ~hooked
  /\ loads < MaxLoads
  /\ loads' = loads + 1
  /\ file' = f
  /\ touched' = {}

\* OnExtensionLoad finds no interface it needs, or SDK_OnLoad refuses the
\* configuration; SourceMod then closes the library.
LoadRefused(f, keeps) ==
  /\ Attempt(f)
  /\ \/ Release(keeps, conf)
     \/ /\ ~Throws(f)
        /\ ~Valid(CoreConfigInit(f))
        /\ Release(keeps, CoreConfigInit(f))
  /\ UNCHANGED <<frame, cursor, last, moved, hooked, accepting, backlog, accepted,
                 fault, polled, atStart, addedInLoop, held>>

\* An exception leaves SDK_OnLoad, and nothing on the way up catches it.
LoadCrashes(f) ==
  /\ Attempt(f)
  /\ \/ Throws(f)
     \/ Valid(CoreConfigInit(f)) /\ ~CanListen(CoreConfigInit(f))
  /\ fault' = "exception"
  /\ UNCHANGED <<registryVars, capacity, frame, cursor, last, moved, hooked,
                 accepting, backlog, accepted, polled, atStart, addedInLoop, conf,
                 held, stayed>>

\* EventLoop::Init: a new io_service, with an acceptor nobody has yet
\* connected to and its first accept pending.
EventLoopInit ==
  /\ held' = held \cup {Endpoint(conf')}
  /\ accepting' = "pending"
  /\ backlog' = 0

RegisterConfigured_NotPolled(new) ==  \* mutant: RegisterService is not called
  /\ servers' = [n \in Names |-> IF n \in DOMAIN new THEN new[n] ELSE servers[n]]
  /\ UNCHANGED <<services, capacity>>

RegisterConfigured_KeepsOld(new) ==  \* mutant: insert() instead of operator[]
  /\ servers' = [n \in Names |->
       IF n \in DOMAIN new /\ servers[n] = Absent THEN new[n] ELSE servers[n]]
  /\ \E order \in Bijection(1..Cardinality(DOMAIN new), DOMAIN new) :
       services' = services \o [k \in DOMAIN order |-> new[order[k]]]
  /\ capacity' \in {Len(services'), capacity}

\* Every server of the configuration gets an object of its own, in the order
\* of the unordered_map.
RegisterConfigured(new) ==
  /\ servers' = [n \in Names |-> IF n \in DOMAIN new THEN new[n] ELSE servers[n]]
  /\ \E order \in Bijection(1..Cardinality(DOMAIN new), DOMAIN new) :
       services' = services \o [k \in DOMAIN order |-> new[order[k]]]
  /\ IF Len(services') <= capacity
     THEN UNCHANGED capacity
     ELSE capacity' \in Grown(Len(services'))

\* The hook goes in with the natives and the handle types, by OnExtLoad of
\* every SMRPCBase.
LoadSucceeds(f) ==
  /\ Attempt(f)
  /\ ~Throws(f)
  /\ Valid(CoreConfigInit(f))
  /\ CanListen(CoreConfigInit(f))
  /\ conf' = CoreConfigInit(f)
  /\ EventLoopInit
  /\ \E new \in Injection(conf'.servers, Objs \ Range(services)) :
       RegisterConfigured(new)
  /\ OnExtLoad
  /\ UNCHANGED <<frame, cursor, last, moved, accepted, fault, polled, atStart,
                 addedInLoop, stayed>>

\* OnExtUnload of every SMRPCBase: the event loop's, and the handle types'.
SDK_OnUnload == OnExtUnload

\* Between frames.
OnExtensionUnload(keeps) ==
  /\ hooked
  /\ frame = "idle"
  /\ SDK_OnUnload
  /\ Release(keeps, conf)
  /\ UNCHANGED <<frame, cursor, last, moved, accepting, backlog, accepted, fault,
                 polled, atStart, addedInLoop, held, file, loads, touched>>

-----------------------------------------------------------------------------
\* Plugins call natives while the extension is loaded.
PluginCalls(n) ==
  /\ hooked
  /\ \/ LookUp(n) /\ UNCHANGED touched
     \/ /\ RemoveServer(n) \/ \E s \in Objs : AddServer(n, s)
        /\ touched' = touched \cup {n}
  /\ UNCHANGED <<conf, held, file, loads, stayed>>

\* The kernel completes connections on a socket that listens, polled or not.
Connects ==
  /\ held # {}
  /\ ClientConnects

Init ==
  /\ LoopInit
  /\ conf = DefaultConfig
  /\ held = {}
  /\ file = NoFile
  /\ loads = 0
  /\ touched = {}
  /\ stayed = FALSE

Next ==
  /\ fault = "none"
  /\ \/ (Run \/ AcceptFails \/ Connects) /\ UNCHANGED loadVars
     \/ \E n \in Names : PluginCalls(n)
     \/ \E f \in Files : LoadSucceeds(f) \/ LoadCrashes(f)
     \/ \E f \in Files, keeps \in BOOLEAN : LoadRefused(f, keeps)
     \/ \E keeps \in BOOLEAN : OnExtensionUnload(keeps)

Spec == Init /\ [][Next]_vars

\* The host calls the hook every frame, handlers return, and connections that
\* wait are accepted when the listening socket is polled.  Nobody has to load
\* or unload the extension, and no plugin has to call anything.
FairSpec == Spec /\ WF_vars(fault = "none" /\ Run /\ UNCHANGED loadVars)

-----------------------------------------------------------------------------
(* Properties. *)

TypeOK ==
  /\ LoopTypeOK
  /\ conf \in Config
  /\ file \in Files \cup {NoFile}
  /\ loads \in 0..MaxLoads
  /\ touched \subseteq Names
  /\ stayed \in BOOLEAN

\* A server the file lists with a port and an address can be called and is
\* polled once the extension has loaded, until a plugin removes it: after a
\* reload too, whatever objects the last load left behind under its name.
ConfiguredServersKnown ==
  hooked => \A n \in ServersOf(file) \ touched :
    Known(n) /\ \E k \in DOMAIN services : services[k] = servers[n]

\* The servers that can be called after a load come from the file just read or
\* from a plugin, unless the library stayed mapped: CoreConfig::Init takes no
\* server away, so one deleted from rpc.json comes back.
KnownHasSource ==
  hooked /\ ~stayed =>
    \A n \in Names : Known(n) =>
      \/ n \in touched
      \/ n \in DOMAIN file.servers /\ file.servers[n].port /\ file.servers[n].address
=============================================================================
