------------------------ MODULE ExtensionLoadProofs ------------------------
(***************************************************************************)
(* Proofs about EventLoop and ExtensionLoad for every set of names, server *)
(* objects and files: the safety properties that the run "load" checks.    *)
(***************************************************************************)
EXTENDS ExtensionLoad, FiniteSetTheorems, SequenceTheorems, TLAPS

USE RegistryConstants, LoopConstants, LoadConstants

-----------------------------------------------------------------------------
(* The registry. *)

\* What the loop, the configuration and the properties have to know of a step that
\* only adds to the services: no known server is lost, and the old services stay
\* where they are.
LEMMA Added ==
  ASSUME RegistryTypeOK, NEW n \in Names, NEW s \in Objs, RPCAddServer(n, s)
  PROVE  /\ RegistryTypeOK'
         /\ Len(services') = Len(services) + 1
         /\ \A k \in 1..Len(services) : services'[k] = services[k]
         /\ services'[Len(services) + 1] = s
         /\ servers' = [servers EXCEPT ![n] = s]
BY DEF RegistryTypeOK, RPCAddServer, RegisterService, RegisterServer

\* What operator[] with an unknown name adds to the map.
LEMMA Looked ==
  ASSUME RegistryTypeOK, NEW n \in Names, servers' = AfterLookup(n), UNCHANGED services
  PROVE  /\ RegistryTypeOK'
         /\ \A x \in Names : (Known(x)' <=> Known(x)) /\ (Known(x) => servers'[x] = servers[x])
BY DEF RegistryTypeOK, AfterLookup, Known

\* What RPCRemoveServer leaves in the map.
LEMMA Removed ==
  ASSUME RegistryTypeOK, NEW n \in Names, RPCRemoveServer(n)
  PROVE  /\ RegistryTypeOK'
         /\ \A x \in Names \ {n} :
              (Known(x)' <=> Known(x)) /\ (Known(x) => servers'[x] = servers[x])
         /\ ~Known(n)'
         /\ UNCHANGED services
<1>1. CASE Known(n)
  BY <1>1 DEF RegistryTypeOK, RPCRemoveServer, Known
<1>2. CASE ~Known(n)
  BY <1>2, Looked DEF RPCRemoveServer
<1> QED
  BY <1>1, <1>2

\* The servers of a configuration are appended to the services, each of them, and
\* entered under their names; nobody else's entry changes.
LEMMA Registered ==
  ASSUME RegistryTypeOK, capacity \in Nat,
         NEW S \in SUBSET Names, NEW new \in Injection(S, Objs \ Range(services)),
         RegisterConfigured(new)
  PROVE  /\ RegistryTypeOK'
         /\ capacity' \in Nat
         /\ \A n \in S : Known(n)' /\ \E k \in DOMAIN services' : services'[k] = servers'[n]
         /\ \A n \in Names \ S : servers'[n] = servers[n]
         /\ Len(services) <= Len(services')
         /\ \A k \in 1..Len(services) : services'[k] = services[k]
<1>1. new \in [S -> Objs] /\ DOMAIN new = S
  BY DEF Injection
<1>2. IsFiniteSet(S)
  BY FileConstants, FS_Subset
<1>3. Cardinality(S) \in Nat
  BY <1>2, FS_CardinalityType
<1>4. PICK order \in Bijection(1..Cardinality(S), S) :
        services' = services \o [k \in DOMAIN order |-> new[order[k]]]
  BY <1>1 DEF RegisterConfigured
<1>5. /\ order \in [1..Cardinality(S) -> S]
      /\ \A n \in S : \E k \in 1..Cardinality(S) : order[k] = n
  BY <1>4 DEF Bijection, Injection, Surjection
<1> DEFINE added == [k \in DOMAIN order |-> new[order[k]]]
<1>6. added \in Seq(Objs) /\ Len(added) = Cardinality(S)
  <2>1. added \in [1..Cardinality(S) -> Objs]
    BY <1>1, <1>5
  <2> QED
    BY <2>1, <1>3
<1>7. services \in Seq(Objs)
  BY DEF RegistryTypeOK
<1> HIDE DEF added
<1>8. /\ services' \in Seq(Objs)
      /\ Len(services') = Len(services) + Len(added)
      /\ \A k \in 1..Len(services) : services'[k] = services[k]
      /\ \A k \in 1..Len(added) : services'[Len(services) + k] = added[k]
  BY <1>4, <1>6, <1>7 DEF added
<1>9. /\ servers' = [n \in Names |-> IF n \in S THEN new[n] ELSE servers[n]]
      /\ servers' \in [Names -> Objs \cup {Absent, NullPtr}]
  BY <1>1 DEF RegisterConfigured, RegistryTypeOK
<1>10. ASSUME NEW n \in S
       PROVE  Known(n)' /\ \E k \in DOMAIN services' : services'[k] = servers'[n]
  <2>1. PICK k \in 1..Cardinality(S) : order[k] = n
    BY <1>5
  <2>2. added[k] = new[n]
    BY <2>1, <1>5 DEF added
  <2>3. /\ Len(services) + k \in DOMAIN services'
        /\ services'[Len(services) + k] = new[n]
    BY <2>2, <1>3, <1>6, <1>7, <1>8
  <2>4. servers'[n] = new[n] /\ new[n] \in Objs
    BY <1>1, <1>9
  <2> QED
    BY <2>3, <2>4 DEF Known
<1>11. capacity' \in Nat
  <2>1. Len(services') \in Nat
    BY <1>8
  <2>2. Len(services') > capacity => capacity' \in Grown(Len(services'))
    BY <2>1 DEF RegisterConfigured
  <2>3. Grown(Len(services')) \subseteq Nat
    BY <2>1 DEF Grown
  <2> QED
    BY <2>1, <2>2, <2>3 DEF RegisterConfigured
<1> QED
  BY <1>6, <1>7, <1>8, <1>9, <1>10, <1>11 DEF RegistryTypeOK

-----------------------------------------------------------------------------
(* Types. *)

\* The types and the servers of what CoreConfig::Init leaves.
LEMMA ConfigRead ==
  ASSUME NEW f \in Files, conf \in Config
  PROVE  /\ CoreConfigInit(f) \in Config
         /\ ServersOf(f) \subseteq CoreConfigInit(f).servers
         /\ CoreConfigInit(f).servers \subseteq conf.servers \cup ServersOf(f)
<1>1. ServersOf(f) \subseteq DOMAIN f.servers /\ DOMAIN f.servers \subseteq Names
  BY FileConstants DEF ServersOf
<1>2. f.shape # "object" =>
        f.port = NotGiven /\ f.address = NotGiven /\ DOMAIN f.servers = {}
  BY FileConstants
<1>3. CASE f.shape = "unreadable"
  BY <1>1, <1>2, <1>3 DEF CoreConfigInit, Config, Given
<1>4. CASE f.shape # "unreadable"
  BY <1>1, <1>2, <1>4 DEF CoreConfigInit, Config, Given
<1> QED
  BY <1>3, <1>4

\* The types hold at the start.
LEMMA TypeInit == ASSUME Init PROVE TypeOK
<1>1. RegistryTypeOK
  BY EmptySeq DEF Init, LoopInit, RegistryInit, RegistryTypeOK
<1>2. LoopTypeOK
  <2>1. /\ capacity \in Nat /\ cursor \in Nat /\ last \in Nat
        /\ backlog \in 0..MaxBacklog /\ accepted \in 0..MaxAccepts
    BY DEF Init, LoopInit
  <2>2. polled \in Seq(Objs) /\ atStart \in Seq(Objs)
    BY EmptySeq DEF Init, LoopInit
  <2>3. /\ frame \in {"idle", "acceptor", "services"}
        /\ fault \in {"none", "iterator", "exception"}
        /\ moved \in BOOLEAN /\ hooked \in BOOLEAN
        /\ accepting \in {"none", "pending", "failed"} /\ addedInLoop \in BOOLEAN
    BY DEF Init, LoopInit
  <2> QED
    BY <1>1, <2>1, <2>2, <2>3 DEF LoopTypeOK
<1>3. conf \in Config
  BY DEF Init, DefaultConfig, Config
<1>4. file \in Files \cup {NoFile} /\ loads \in 0..MaxLoads
  BY DEF Init
<1>5. touched \subseteq Names /\ stayed \in BOOLEAN
  BY DEF Init
<1> QED
  BY <1>2, <1>3, <1>4, <1>5 DEF TypeOK

-----------------------------------------------------------------------------
(* The invariant of the loop: what it has polled is the beginning of the services *)
(* that were registered when it began, which are still the first of the services. *)

LoopInv ==
  /\ frame = "services" =>
       /\ last = Len(atStart)
       /\ last <= Len(services)
       /\ \A k \in 1..last : services[k] = atStart[k]
       /\ last = 0 => polled = <<>>
       /\ last > 0 => cursor \in 1..last /\ Len(polled) = cursor
       /\ \A k \in 1..Len(polled) : polled[k] = atStart[k]
       /\ moved => addedInLoop
  /\ fault = "iterator" => addedInLoop
  /\ ~hooked => frame = "idle"

\* A step of the game frame keeps the types and the loop's invariant.
LEMMA FrameStep ==
  ASSUME TypeOK, LoopInv, fault = "none", UNCHANGED loadVars,
         Run \/ AcceptFails \/ Connects
  PROVE  TypeOK' /\ LoopInv' /\ UNCHANGED <<registryVars, hooked>>
<1> USE DEF TypeOK, LoopTypeOK, RegistryTypeOK, LoopInv, loadVars, registryVars
<1>1. CASE GameFrame
  BY <1>1 DEF GameFrame
<1>2. CASE Accept
  BY <1>2 DEF Accept, CanAccept
<1>3. CASE AcceptFails
  BY <1>3 DEF AcceptFails
<1>4. CASE BeginLoop
  <2>1. /\ polled' \in Seq(Objs)
        /\ Len(services) = 0 => polled' = <<>>
        /\ Len(services) > 0 => Len(polled') = 1 /\ polled'[1] = services[1]
    BY <1>4, EmptySeq DEF BeginLoop
  <2>2. Len(services) \in Nat
    OBVIOUS
  <2>3. /\ cursor' = 1 /\ last' = Len(services) /\ atStart' = services /\ moved' = FALSE
        /\ frame' = "services"
        /\ accepted' = 0
        /\ UNCHANGED <<registryVars, capacity, hooked, accepting, backlog, fault, addedInLoop>>
    BY <1>4 DEF BeginLoop, LoopEnd
  <2>4. TypeOK'
    <3>1. RegistryTypeOK' /\ accepted' \in 0..MaxAccepts
      BY <2>3
    <3> QED
      BY <3>1, <2>1, <2>2, <2>3
  <2> QED
    BY <2>1, <2>2, <2>3, <2>4, <1>4, EmptySeq DEF BeginLoop
<1>5. CASE NextService
  <2>1. /\ cursor \in Nat /\ last \in Nat /\ polled \in Seq(Objs) /\ services \in Seq(Objs)
        /\ cursor + 1 <= last /\ last <= Len(services) /\ last > 0 /\ Len(polled) = cursor
    BY <1>5 DEF NextService
  <2>2. /\ services[cursor + 1] \in Objs
        /\ services[cursor + 1] = atStart[cursor + 1]
    BY <2>1, <1>5 DEF NextService
  <2>3. /\ polled' \in Seq(Objs) /\ Len(polled') = cursor + 1
        /\ polled'[cursor + 1] = services[cursor + 1]
        /\ \A k \in 1..cursor : polled'[k] = polled[k]
    BY <2>1, <2>2, <1>5 DEF NextService
  <2> QED
    BY <1>5, <2>1, <2>2, <2>3 DEF NextService
<1>6. CASE EndLoop
  BY <1>6, EmptySeq DEF EndLoop
<1>7. CASE UseInvalidIterator
  BY <1>7 DEF UseInvalidIterator
<1>8. CASE Connects
  BY <1>8 DEF Connects, ClientConnects
<1> QED
  BY <1>1, <1>2, <1>3, <1>4, <1>5, <1>6, <1>7, <1>8 DEF Run, Poll

\* A native keeps the types and the loop's invariant.
LEMMA PluginStep ==
  ASSUME TypeOK, LoopInv, fault = "none", NEW n \in Names, PluginCalls(n)
  PROVE  TypeOK' /\ LoopInv'
<1> USE DEF TypeOK, LoopTypeOK, LoopInv
<1>1. CASE LookUp(n) /\ UNCHANGED touched
  <2>1. RegistryTypeOK' /\ UNCHANGED services
    BY <1>1, Looked DEF LookUp, LookUpServer
  <2> QED
    BY <1>1, <2>1 DEF PluginCalls, LookUp, loopVars
<1>2. CASE RemoveServer(n) /\ touched' = touched \cup {n}
  <2>1. RegistryTypeOK' /\ UNCHANGED services
    BY <1>2, Removed DEF RemoveServer
  <2> QED
    BY <1>2, <2>1 DEF PluginCalls, RemoveServer, loopVars
<1>3. ASSUME NEW s \in Objs, AddServer(n, s), touched' = touched \cup {n}
      PROVE  TypeOK' /\ LoopInv'
  <2>1. /\ RegistryTypeOK'
        /\ Len(services') = Len(services) + 1
        /\ \A k \in 1..Len(services) : services'[k] = services[k]
    BY <1>3, Added DEF AddServer, Grow
  <2>2. Len(services) \in Nat
    BY DEF RegistryTypeOK
  <2>3. /\ capacity' \in Nat /\ moved' \in BOOLEAN
        /\ moved' => moved \/ frame = "services"
    <3>1. CASE Len(services) < capacity
      BY <1>3, <3>1 DEF AddServer, Grow
    <3>2. CASE ~(Len(services) < capacity)
      <4>1. Grown(Len(services) + 1) \subseteq Nat
        BY <2>2 DEF Grown
      <4> QED
        BY <1>3, <3>2, <4>1 DEF AddServer, Grow
    <3> QED
      BY <3>1, <3>2
  <2>4. UNCHANGED <<frame, cursor, last, hooked, accepting, backlog, accepted, fault,
                    polled, atStart, conf, held, file, loads, stayed>>
    BY <1>3 DEF AddServer, PluginCalls
  <2>5. TypeOK'
    BY <1>3, <2>1, <2>3, <2>4 DEF AddServer
  <2> QED
    BY <1>3, <2>1, <2>2, <2>3, <2>4, <2>5 DEF AddServer, PluginCalls
<1> QED
  BY <1>1, <1>2, <1>3 DEF PluginCalls

\* Whatever dlclose does, the types hold.
LEMMA ReleaseTypes ==
  ASSUME TypeOK, NEW c \in Config, NEW keeps \in BOOLEAN, Release(keeps, c)
  PROVE  RegistryTypeOK' /\ capacity' \in Nat /\ conf' \in Config /\ stayed' \in BOOLEAN
<1>1. DefaultConfig \in Config
  BY DEF DefaultConfig, Config
<1>2. CASE keeps
  BY <1>2 DEF Release, TypeOK, LoopTypeOK, RegistryTypeOK, registryVars
<1>3. CASE ~keeps
  <2>1. services' \in Seq(Objs) /\ servers' \in [Names -> Objs \cup {Absent, NullPtr}]
    BY <1>3, EmptySeq DEF Release
  <2>2. capacity' = 0 /\ conf' = DefaultConfig /\ stayed' = FALSE
    BY <1>3 DEF Release
  <2> QED
    BY <1>1, <2>1, <2>2 DEF RegistryTypeOK
<1> QED
  BY <1>2, <1>3

\* A load or an unload keeps the types and the loop's invariant.
LEMMA LoadStep ==
  ASSUME TypeOK, LoopInv, fault = "none",
         \/ \E f \in Files : LoadSucceeds(f) \/ LoadCrashes(f)
         \/ \E f \in Files, keeps \in BOOLEAN : LoadRefused(f, keeps)
         \/ \E keeps \in BOOLEAN : OnExtensionUnload(keeps)
  PROVE  TypeOK' /\ LoopInv'
<1>1. conf \in Config
  BY DEF TypeOK
<1> SUFFICES /\ LoopTypeOK' /\ conf' \in Config /\ file' \in Files \cup {NoFile}
             /\ loads' \in 0..MaxLoads /\ touched' \subseteq Names /\ stayed' \in BOOLEAN
             /\ LoopInv'
  BY DEF TypeOK
<1>2. ASSUME NEW f \in Files, Attempt(f)
      PROVE  /\ file' \in Files \cup {NoFile} /\ loads' \in 0..MaxLoads
             /\ touched' \subseteq Names
  BY <1>2 DEF Attempt, TypeOK
<1>3. ASSUME NEW f \in Files, LoadSucceeds(f)
      PROVE  LoopTypeOK' /\ LoopInv' /\ conf' \in Config /\ stayed' \in BOOLEAN
  <2>1. conf' \in Config
    BY <1>1, <1>3, ConfigRead DEF LoadSucceeds, OnExtLoad
  <2>2. RegistryTypeOK' /\ capacity' \in Nat
    <3>1. PICK new \in Injection(conf'.servers, Objs \ Range(services)) :
            RegisterConfigured(new)
      BY <1>3 DEF LoadSucceeds, OnExtLoad
    <3>2. conf'.servers \in SUBSET Names
      BY <2>1 DEF Config
    <3> QED
      BY <3>1, <3>2, Registered DEF TypeOK, LoopTypeOK
  <2>3. frame = "idle"
    BY <1>3 DEF LoadSucceeds, OnExtLoad, Attempt, LoopInv
  <2> QED
    BY <1>3, <2>1, <2>2, <2>3
    DEF LoadSucceeds, OnExtLoad, EventLoopInit, TypeOK, LoopTypeOK, LoopInv
<1>4. ASSUME NEW f \in Files, LoadCrashes(f)
      PROVE  LoopTypeOK' /\ LoopInv' /\ conf' \in Config /\ stayed' \in BOOLEAN
  BY <1>1, <1>4
  DEF LoadCrashes, Attempt, TypeOK, LoopTypeOK, RegistryTypeOK, LoopInv, registryVars
<1>5. ASSUME NEW f \in Files, NEW keeps \in BOOLEAN, LoadRefused(f, keeps)
      PROVE  LoopTypeOK' /\ LoopInv' /\ conf' \in Config /\ stayed' \in BOOLEAN
  <2>1. PICK c \in {conf, CoreConfigInit(f)} : Release(keeps, c)
    BY <1>5 DEF LoadRefused
  <2>2. c \in Config
    BY <1>1, <2>1, ConfigRead
  <2>3. RegistryTypeOK' /\ capacity' \in Nat /\ conf' \in Config /\ stayed' \in BOOLEAN
    BY <2>1, <2>2, ReleaseTypes
  <2>4. frame = "idle"
    BY <1>5 DEF LoadRefused, Attempt, LoopInv
  <2> QED
    BY <1>5, <2>3, <2>4 DEF LoadRefused, TypeOK, LoopTypeOK, LoopInv
<1>6. ASSUME NEW keeps \in BOOLEAN, OnExtensionUnload(keeps)
      PROVE  /\ LoopTypeOK' /\ LoopInv' /\ conf' \in Config /\ stayed' \in BOOLEAN
             /\ file' \in Files \cup {NoFile} /\ loads' \in 0..MaxLoads
             /\ touched' \subseteq Names
  <2>1. RegistryTypeOK' /\ capacity' \in Nat /\ conf' \in Config /\ stayed' \in BOOLEAN
    BY <1>1, <1>6, ReleaseTypes DEF OnExtensionUnload, SDK_OnUnload, OnExtUnload
  <2> QED
    BY <1>6, <2>1 DEF OnExtensionUnload, SDK_OnUnload, OnExtUnload, TypeOK, LoopTypeOK, LoopInv
<1> QED
  BY <1>2, <1>3, <1>4, <1>5, <1>6 DEF LoadSucceeds, OnExtLoad, LoadCrashes, LoadRefused

-----------------------------------------------------------------------------
(* The invariant of the configuration. *)

Polled(n) == Known(n) /\ \E k \in DOMAIN services : services[k] = servers[n]

\* Unless the library stayed, a load begins with an empty configuration and an
\* empty registry.
ConfigInv ==
  /\ KnownServersArePolled
  /\ ConfiguredServersKnown
  /\ hooked /\ ~stayed => \A n \in Names : Known(n) => n \in touched \cup ServersOf(file)
  /\ ~hooked /\ ~stayed => conf.servers = {} /\ \A n \in Names : ~Known(n)

\* The servers of a file have names.
LEMMA FileServers == ASSUME TypeOK PROVE ServersOf(file) \subseteq Names
BY FileConstants DEF TypeOK, ServersOf, NoFile

\* A native or a frame keeps the invariant of the configuration.
LEMMA ConfigPlugin ==
  ASSUME TypeOK, ConfigInv, fault = "none", NEW n \in Names, PluginCalls(n)
  PROVE  ConfigInv'
<1> USE DEF TypeOK, LoopTypeOK
<1>1. /\ hooked /\ UNCHANGED <<conf, held, file, loads, stayed, hooked, fault>>
      /\ touched \subseteq touched'
  BY DEF PluginCalls, LookUp, RemoveServer, AddServer, loopVars
<1>2. /\ DOMAIN services \subseteq DOMAIN services'
      /\ \A k \in DOMAIN services : services'[k] = services[k]
      /\ \A x \in Names : x \notin touched' \/ x # n =>
           (Known(x)' <=> Known(x)) /\ (Known(x) => servers'[x] = servers[x])
      /\ Known(n)' => Polled(n)' \/ (Known(n) /\ servers'[n] = servers[n])
      /\ n \in touched' \/ UNCHANGED touched
      /\ Known(n)' => n \in touched' \/ Known(n)
  <2>1. CASE LookUp(n) /\ UNCHANGED touched
    BY <2>1, Looked DEF LookUp, LookUpServer
  <2>2. CASE RemoveServer(n) /\ touched' = touched \cup {n}
    BY <2>2, Removed DEF RemoveServer
  <2>3. ASSUME NEW s \in Objs, AddServer(n, s), touched' = touched \cup {n}
        PROVE  /\ DOMAIN services \subseteq DOMAIN services'
               /\ \A k \in DOMAIN services : services'[k] = services[k]
               /\ \A x \in Names \ {n} : servers'[x] = servers[x]
               /\ Polled(n)'
    <3>1. /\ RegistryTypeOK'
          /\ Len(services') = Len(services) + 1
          /\ \A k \in 1..Len(services) : services'[k] = services[k]
          /\ services'[Len(services) + 1] = s
          /\ servers' = [servers EXCEPT ![n] = s]
      BY <2>3, Added DEF AddServer, Grow
    <3>2. services \in Seq(Objs) /\ services' \in Seq(Objs)
      BY <3>1 DEF RegistryTypeOK
    <3>3. /\ DOMAIN services = 1..Len(services) /\ Len(services) \in Nat
          /\ DOMAIN services' = 1..(Len(services) + 1)
      BY <3>1, <3>2
    <3>4. servers'[n] = s /\ \A x \in Names \ {n} : servers'[x] = servers[x]
      BY <3>1 DEF RegistryTypeOK
    <3>5. Polled(n)'
      <4>1. Len(services) + 1 \in DOMAIN services'
        BY <3>3
      <4>2. services'[Len(services) + 1] = servers'[n] /\ servers'[n] \in Objs
        BY <3>1, <3>4
      <4> QED
        BY <4>1, <4>2, Zenon DEF Polled, Known
    <3> QED
      BY <3>1, <3>3, <3>4, <3>5
  <2>4. \/ LookUp(n) /\ UNCHANGED touched
        \/ RemoveServer(n) /\ touched' = touched \cup {n}
        \/ \E s \in Objs : AddServer(n, s) /\ touched' = touched \cup {n}
    BY DEF PluginCalls
  <2>5. CASE \E s \in Objs : AddServer(n, s) /\ touched' = touched \cup {n}
    BY <2>3, <2>5 DEF Known
  <2> QED
    BY <2>1, <2>2, <2>4, <2>5
<1>3. KnownServersArePolled'
  BY <1>2 DEF ConfigInv, KnownServersArePolled, Polled
<1>4. ConfiguredServersKnown'
  <2>1. ServersOf(file)' = ServersOf(file)
    BY <1>1 DEF ServersOf
  <2> QED
    BY <1>1, <1>2, <2>1, FileServers DEF ConfigInv, ConfiguredServersKnown
<1>5. hooked /\ ~stayed =>
        \A x \in Names : Known(x)' => x \in touched' \cup ServersOf(file)
  BY <1>1, <1>2 DEF ConfigInv
<1> QED
  BY <1>1, <1>3, <1>4, <1>5 DEF ConfigInv, ServersOf

\* An extension that is not loaded has the invariant of the configuration.
LEMMA ConfigRelease ==
  ASSUME ConfigInv, NEW c, NEW keeps \in BOOLEAN, Release(keeps, c), ~hooked'
  PROVE  ConfigInv'
<1>1. CASE keeps
  BY <1>1 DEF Release, ConfigInv, KnownServersArePolled, ConfiguredServersKnown,
     registryVars, Known
<1>2. CASE ~keeps
  <2>1. /\ conf' = DefaultConfig /\ stayed' = FALSE
        /\ \A n \in Names : servers'[n] = Absent
    BY <1>2 DEF Release
  <2>2. \A n \in Names : ~Known(n)'
    BY <2>1 DEF Known
  <2> QED
    BY <2>1, <2>2 DEF ConfigInv, KnownServersArePolled, ConfiguredServersKnown,
       DefaultConfig
<1> QED
  BY <1>1, <1>2

\* A load that succeeds establishes the invariant of the configuration.
LEMMA ConfigSucceeds ==
  ASSUME TypeOK, ConfigInv, fault = "none", NEW f \in Files, LoadSucceeds(f)
  PROVE  ConfigInv'
<1>1. conf' = CoreConfigInit(f) /\ file' = f /\ touched' = {} /\ fault' = "none"
      /\ ~hooked /\ hooked' /\ stayed' = stayed
  BY DEF LoadSucceeds, OnExtLoad, Attempt
<1>2. /\ conf' \in Config
      /\ ServersOf(f) \subseteq conf'.servers
      /\ conf'.servers \subseteq conf.servers \cup ServersOf(f)
  BY <1>1, ConfigRead DEF TypeOK
<1>3. PICK new \in Injection(conf'.servers, Objs \ Range(services)) : RegisterConfigured(new)
  BY DEF LoadSucceeds, OnExtLoad
<1>4. conf'.servers \in SUBSET Names
  BY <1>2 DEF Config
<1>5. /\ RegistryTypeOK'
      /\ \A n \in conf'.servers : Polled(n)'
      /\ \A n \in Names \ conf'.servers : servers'[n] = servers[n]
      /\ Len(services) <= Len(services')
      /\ \A k \in 1..Len(services) : services'[k] = services[k]
  BY <1>3, <1>4, Registered DEF TypeOK, LoopTypeOK, Polled
<1>6. KnownServersArePolled'
  <2> SUFFICES ASSUME NEW n \in Names, Known(n)', n \notin conf'.servers
               PROVE  \E k \in DOMAIN services' : services'[k] = servers'[n]
    BY <1>5 DEF KnownServersArePolled, Polled
  <2>1. servers'[n] = servers[n]
    BY <1>5
  <2>2. PICK k \in DOMAIN services : services[k] = servers[n]
    BY <2>1 DEF ConfigInv, KnownServersArePolled, Known
  <2>3. services \in Seq(Objs) /\ services' \in Seq(Objs)
    BY <1>5 DEF TypeOK, LoopTypeOK, RegistryTypeOK
  <2>4. k \in 1..Len(services) /\ k \in DOMAIN services'
    BY <1>5, <2>2, <2>3
  <2> QED
    BY <1>5, <2>1, <2>2, <2>4
<1>7. \A n \in ServersOf(f) : Polled(n)'
  BY <1>2, <1>5
<1>8. ConfiguredServersKnown'
  BY <1>1, <1>7 DEF ConfiguredServersKnown, Polled
<1>9. ~stayed => \A n \in Names : Known(n)' => n \in ServersOf(f)
  BY <1>1, <1>2, <1>5 DEF ConfigInv, Known
<1> QED
  BY <1>1, <1>6, <1>8, <1>9 DEF ConfigInv

\* A load that crashes leaves everything as it was.
LEMMA ConfigCrashes ==
  ASSUME TypeOK, ConfigInv, NEW f \in Files, LoadCrashes(f)
  PROVE  ConfigInv'
<1>1. /\ file' = f /\ ~hooked /\ ~hooked' /\ stayed' = stayed /\ conf' = conf /\ held' = held
      /\ UNCHANGED registryVars
  BY DEF LoadCrashes, Attempt
<1> QED
  BY <1>1 DEF ConfigInv, KnownServersArePolled, ConfiguredServersKnown, Known,
     registryVars

-----------------------------------------------------------------------------
(* The theorems. *)

IInv == TypeOK /\ LoopInv /\ ConfigInv

\* The invariant holds at the start.
LEMMA InvInit == Init => IInv
<1> SUFFICES ASSUME Init PROVE IInv
  OBVIOUS
<1>1. TypeOK
  BY TypeInit
<1>2. LoopInv
  BY DEF Init, LoopInit, LoopInv
<1>3. \A n \in Names : ~Known(n)
  BY DEF Init, LoopInit, RegistryInit, Known
<1>4. hooked = FALSE /\ fault = "none" /\ conf.servers = {}
  BY DEF Init, LoopInit, DefaultConfig
<1> QED
  BY <1>1, <1>2, <1>3, <1>4
  DEF IInv, ConfigInv, KnownServersArePolled, ConfiguredServersKnown

\* Every step keeps the invariant.
LEMMA InvNext == IInv /\ [Next]_vars => IInv'
<1> SUFFICES ASSUME IInv, [Next]_vars PROVE IInv'
  OBVIOUS
<1>1. ASSUME fault = "none", Run \/ AcceptFails \/ Connects, UNCHANGED loadVars PROVE IInv'
  <2>1. TypeOK' /\ LoopInv' /\ UNCHANGED <<registryVars, hooked>>
    BY <1>1, FrameStep DEF IInv
  <2>2. ConfigInv'
    BY <1>1, <2>1 DEF IInv, ConfigInv, KnownServersArePolled, ConfiguredServersKnown,
       Known, ServersOf, registryVars, loadVars
  <2> QED
    BY <2>1, <2>2 DEF IInv
<1>2. ASSUME fault = "none", NEW n \in Names, PluginCalls(n) PROVE IInv'
  BY <1>2, PluginStep, ConfigPlugin DEF IInv
<1>3. ASSUME fault = "none", NEW f \in Files, LoadSucceeds(f) PROVE IInv'
  BY <1>3, LoadStep, ConfigSucceeds DEF IInv
<1>4. ASSUME fault = "none", NEW f \in Files, LoadCrashes(f) PROVE IInv'
  BY <1>4, LoadStep, ConfigCrashes DEF IInv
<1>5. ASSUME fault = "none", NEW f \in Files, NEW keeps \in BOOLEAN, LoadRefused(f, keeps)
      PROVE  IInv'
  <2>1. ConfigInv'
    BY <1>5, ConfigRelease DEF IInv, LoadRefused, Attempt
  <2> QED
    BY <1>5, <2>1, LoadStep DEF IInv
<1>6. ASSUME fault = "none", NEW keeps \in BOOLEAN, OnExtensionUnload(keeps) PROVE IInv'
  <2>1. ConfigInv'
    BY <1>6, ConfigRelease DEF IInv, OnExtensionUnload, SDK_OnUnload, OnExtUnload
  <2> QED
    BY <1>6, <2>1, LoadStep DEF IInv
<1>7. CASE UNCHANGED vars
  BY <1>7 DEF vars, loopVars, loadVars, registryVars, IInv, TypeOK, LoopTypeOK,
     RegistryTypeOK, LoopInv, ConfigInv, KnownServersArePolled, ConfiguredServersKnown,
     Known, ServersOf
<1> QED
  BY <1>1, <1>2, <1>3, <1>4, <1>5, <1>6, <1>7 DEF Next

\* The loop, the registry and the configuration agree after every step of a frame,
\* native, load and unload.
THEOREM Invariant == Spec => []IInv
  BY InvInit, InvNext, PTL DEF Spec

\* The state of the extension has its types, in any sequence of loads of any files.
THEOREM TypeCorrect == Spec => []TypeOK
<1>1. IInv => TypeOK
  BY DEF IInv
<1> QED
  BY <1>1, Invariant, PTL

\* When the loop of EventLoop::Run ends it has polled each service that was
\* registered when it began, once and in order, unless it read through an iterator
\* that had become invalid.
THEOREM EachServicePolledOnceAlways == Spec => []EachServicePolledOnce
<1>1. ASSUME IInv PROVE EachServicePolledOnce
  <2> SUFFICES ASSUME frame = "services", cursor >= last
               PROVE  polled = atStart
    BY DEF EachServicePolledOnce
  <2>1. /\ polled \in Seq(Objs) /\ atStart \in Seq(Objs) /\ last \in Nat
        /\ last = Len(atStart)
        /\ \A k \in 1..Len(polled) : polled[k] = atStart[k]
    BY <1>1 DEF IInv, LoopInv, TypeOK, LoopTypeOK
  <2>2. Len(polled) = Len(atStart)
    <3>1. CASE last = 0
      BY <1>1, <2>1, <3>1 DEF IInv, LoopInv
    <3>2. CASE last > 0
      BY <1>1, <2>1, <3>2 DEF IInv, LoopInv, TypeOK, LoopTypeOK
    <3> QED
      BY <2>1, <3>1, <3>2
  <2> QED
    BY <2>1, <2>2, SeqEqual
<1> QED
  BY <1>1, Invariant, PTL

\* A server that a call can be sent to is one whose replies are read.
THEOREM KnownServersArePolledAlways == Spec => []KnownServersArePolled
<1>1. IInv => KnownServersArePolled
  BY DEF IInv, ConfigInv
<1> QED
  BY <1>1, Invariant, PTL

\* The range-based for goes wrong only after a callback has added a server.
THEOREM FaultOnlyByAddInLoopAlways == Spec => []FaultOnlyByAddInLoop
<1>1. IInv => FaultOnlyByAddInLoop
  BY DEF IInv, LoopInv, FaultOnlyByAddInLoop
<1> QED
  BY <1>1, Invariant, PTL

\* What the last rpc.json lists with a port and an address can be called and is
\* polled, until a plugin removes it.
THEOREM ConfiguredServersKnownAlways == Spec => []ConfiguredServersKnown
<1>1. IInv => ConfiguredServersKnown
  BY DEF IInv, ConfigInv
<1> QED
  BY <1>1, Invariant, PTL

\* Unless the library stayed mapped, a server that can be called comes from the
\* last rpc.json or from a plugin.
THEOREM KnownHasSourceAlways == Spec => []KnownHasSource
<1>1. ASSUME IInv PROVE KnownHasSource
  <2> SUFFICES ASSUME hooked, ~stayed, NEW n \in Names, Known(n), n \in ServersOf(file)
               PROVE  n \in DOMAIN file.servers /\ file.servers[n].port
                      /\ file.servers[n].address
    BY <1>1 DEF IInv, ConfigInv, KnownHasSource
  <2> QED
    BY Zenon DEF ServersOf
<1> QED
  BY <1>1, Invariant, PTL
=============================================================================
