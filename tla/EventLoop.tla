----------------------------- MODULE EventLoop -----------------------------
(***************************************************************************)
(* The loop that drives the extension.  On every game frame it polls the   *)
(* io_service of the listening socket, then every registered service, with *)
(* a range-based for over the vector services.  Polling runs the           *)
(* completion handlers that are ready, and through them plugin callbacks;  *)
(* those may add and remove servers while the loop over services runs.     *)
(*                                                                         *)
(* A range-based for fixes its end when it starts and walks by iterator.   *)
(* push_back on a full vector moves the elements, after which reading the  *)
(* next one reads freed memory; fault records it.                          *)
(*                                                                         *)
(* ExtensionLoad extends this module with the loading and unloading of the *)
(* extension, and has the specification the two are checked by.            *)
(***************************************************************************)
EXTENDS ServerRegistry, Integers, FiniteSets

CONSTANTS
  MaxBacklog,  \* bound: connections waiting to be accepted
  MaxAccepts   \* bound: connections one poll finds waiting

ASSUME LoopConstants == MaxBacklog \in Nat /\ MaxAccepts \in Nat

VARIABLES
  capacity,   \* capacity of the vector services
  frame,      \* what the game frame is doing
  cursor,     \* index of the service the loop is polling
  last,       \* the loop's end, fixed when it started
  moved,      \* the vector's elements moved since the loop started
  hooked,     \* the game frame hook is installed
  accepting,  \* whether an async_accept is "pending", or none because one "failed"
  backlog,    \* connections not yet accepted
  accepted,   \* connections accepted in this frame
  fault,      \* "iterator" once an invalid iterator is used, "exception" once
              \* an exception has left the extension
  polled,     \* history: the services polled in this frame, in order
  atStart,    \* history: the services registered when the frame's loop began
  addedInLoop \* history: a server was added while this loop ran

loopVars == <<capacity, frame, cursor, last, moved, hooked, accepting, backlog,
              accepted, fault, polled, atStart, addedInLoop>>

LoopTypeOK ==
  /\ RegistryTypeOK
  /\ capacity \in Nat
  /\ frame \in {"idle", "acceptor", "services"}
  /\ cursor \in Nat
  /\ last \in Nat
  /\ moved \in BOOLEAN
  /\ hooked \in BOOLEAN
  /\ accepting \in {"none", "pending", "failed"}
  /\ backlog \in 0..MaxBacklog
  /\ accepted \in 0..MaxAccepts
  /\ fault \in {"none", "iterator", "exception"}
  /\ polled \in Seq(Objs)
  /\ atStart \in Seq(Objs)
  /\ addedInLoop \in BOOLEAN

\* The process before the extension is loaded.
LoopInit ==
  /\ RegistryInit
  /\ capacity = 0
  /\ frame = "idle"
  /\ cursor = 0
  /\ last = 0
  /\ moved = FALSE
  /\ hooked = FALSE
  /\ accepting = "none"
  /\ backlog = 0
  /\ accepted = 0
  /\ fault = "none"
  /\ polled = <<>>
  /\ atStart = <<>>
  /\ addedInLoop = FALSE

-----------------------------------------------------------------------------
(* The frame. *)

\* The game frame hook goes in and out.
OnExtLoad == hooked' = TRUE

OnExtUnload == hooked' = FALSE

\* GameFrame calls EventLoop::Run, which polls the listening socket first.
GameFrame ==
  /\ hooked
  /\ frame = "idle"
  /\ frame' = "acceptor"
  /\ UNCHANGED <<registryVars, capacity, cursor, last, moved, hooked, accepting,
                 backlog, accepted, fault, polled, atStart, addedInLoop>>

CanAccept == accepting = "pending" /\ backlog > 0 /\ accepted < MaxAccepts

Accept_Once ==  \* mutant: the next accept is not armed
  /\ frame = "acceptor"
  /\ CanAccept
  /\ backlog' = backlog - 1
  /\ accepted' = accepted + 1
  /\ accepting' = "none"
  /\ UNCHANGED <<registryVars, capacity, frame, cursor, last, moved, hooked, fault,
                 polled, atStart, addedInLoop>>

\* The accept handler without an error: a handler for the connection starts to
\* read, and the next accept is armed.
Accept ==
  /\ frame = "acceptor"
  /\ CanAccept
  /\ backlog' = backlog - 1
  /\ accepted' = accepted + 1
  /\ accepting' = "pending"
  /\ UNCHANGED <<registryVars, capacity, frame, cursor, last, moved, hooked, fault,
                 polled, atStart, addedInLoop>>

\* The accept handler with an error logs it and arms nothing.
AcceptFails ==
  /\ frame = "acceptor"
  /\ accepting = "pending"
  /\ accepting' = "failed"
  /\ UNCHANGED <<registryVars, capacity, frame, cursor, last, moved, hooked,
                 backlog, accepted, fault, polled, atStart, addedInLoop>>

LoopEnd_OffByOne == Len(services) - 1  \* mutant

\* services.end() when the loop starts.
LoopEnd == Len(services)

\* poll returns when no handler is ready; the loop over services begins.  What
\* arrives while it accepts may have to wait for the next frame.
BeginLoop ==
  /\ frame = "acceptor"
  /\ ~CanAccept
  /\ frame' = "services"
  /\ cursor' = 1
  /\ last' = LoopEnd
  /\ moved' = FALSE
  /\ polled' = IF services = <<>> THEN <<>> ELSE <<services[1]>>
  /\ atStart' = services
  /\ accepted' = 0
  /\ UNCHANGED <<registryVars, capacity, hooked, accepting, backlog, fault,
                 addedInLoop>>

\* service->Run() is back and the iterator moves on to the next service.
NextService ==
  /\ frame = "services"
  /\ ~moved
  /\ cursor < last
  /\ cursor' = cursor + 1
  /\ polled' = Append(polled, services[cursor + 1])
  /\ UNCHANGED <<registryVars, capacity, frame, last, moved, hooked, accepting,
                 backlog, accepted, fault, atStart, addedInLoop>>

\* The old iterator still compares equal to the old end.  The frame's locals and
\* its history end with it.
EndLoop ==
  /\ frame = "services"
  /\ cursor >= last
  /\ frame' = "idle"
  /\ cursor' = 0
  /\ last' = 0
  /\ moved' = FALSE
  /\ polled' = <<>>
  /\ atStart' = <<>>
  /\ addedInLoop' = FALSE
  /\ UNCHANGED <<registryVars, capacity, hooked, accepting, backlog, accepted, fault>>

\* The next element is read where the vector used to be.
UseInvalidIterator ==
  /\ frame = "services"
  /\ moved
  /\ cursor < last
  /\ fault' = "iterator"
  /\ UNCHANGED <<registryVars, capacity, frame, cursor, last, moved, hooked,
                 accepting, backlog, accepted, polled, atStart, addedInLoop>>

-----------------------------------------------------------------------------
(* Plugins, from their own code or from a callback inside the frame. *)

\* The capacities a vector may have whose growing ended with n elements: the
\* standard library decides by how much a full vector grows, at most to twice
\* its elements.
Grown(n) == {n} \cup n..(2 * n - 2)

Grow(n, s) ==
  /\ RPCAddServer(n, s)
  /\ IF Len(services) < capacity
     THEN UNCHANGED <<capacity, moved>>
     ELSE /\ capacity' \in Grown(Len(services) + 1)
          /\ moved' = (frame = "services")

\* Only a service's handlers run between two steps of the loop, so the loop
\* over an empty vector leaves plugins no turn.
PluginTurn == frame = "services" => cursor <= last

AddServer(n, s) ==
  /\ PluginTurn
  /\ Grow(n, s)
  /\ addedInLoop' = (addedInLoop \/ frame = "services")
  /\ UNCHANGED <<frame, cursor, last, hooked, accepting, backlog, accepted, fault,
                 polled, atStart>>

RemoveServer_Unregisters(n) ==  \* mutant: the service is erased from the vector
  /\ PluginTurn
  /\ Known(n)
  /\ servers' = [servers EXCEPT ![n] = Absent]
  /\ services' = SelectSeq(services, LAMBDA s : s # servers[n])
  /\ moved' = TRUE
  /\ UNCHANGED <<capacity, frame, cursor, last, hooked, accepting, backlog, accepted,
                 fault, polled, atStart, addedInLoop>>

RemoveServer(n) ==
  /\ PluginTurn
  /\ RPCRemoveServer(n)
  /\ UNCHANGED loopVars

LookUp(n) ==
  /\ PluginTurn
  /\ LookUpServer(n)
  /\ UNCHANGED loopVars

-----------------------------------------------------------------------------
(* The network and the host. *)

ClientConnects ==
  /\ backlog < MaxBacklog
  /\ backlog' = backlog + 1
  /\ UNCHANGED <<registryVars, capacity, frame, cursor, last, moved, hooked,
                 accepting, accepted, fault, polled, atStart, addedInLoop>>

-----------------------------------------------------------------------------
Poll == Accept \/ BeginLoop \/ NextService \/ EndLoop \/ UseInvalidIterator

Run == GameFrame \/ Poll

-----------------------------------------------------------------------------
(* Properties. *)

\* When a frame's loop ends it has polled every service registered when it
\* began, each once and in order, whatever the callbacks added or removed.
EachServicePolledOnce ==
  frame = "services" /\ cursor >= last => polled = atStart

\* A server a call can be sent to is one whose replies are read: every known
\* server object is polled.
KnownServersArePolled ==
  \A n \in Names : Known(n) => \E k \in DOMAIN services : services[k] = servers[n]

\* The loop goes wrong only after a plugin added a server from inside it.
FaultOnlyByAddInLoop == fault = "iterator" => addedInLoop

\* While the extension is loaded every registered service is polled again and
\* again, removed servers included.
EveryServicePolled ==
  \A s \in Objs :
    []<>(\/ \E k \in DOMAIN polled : polled[k] = s
         \/ \A k \in DOMAIN services : services[k] # s
         \/ ~hooked
         \/ fault # "none")

\* A connection that waits is accepted, one after the other, as long as no accept
\* has failed: each accept arms the next.
ListensUntilAcceptFails ==
  (backlog > 0) ~> (backlog = 0 \/ ~hooked \/ fault # "none" \/ accepting = "failed")
=============================================================================
