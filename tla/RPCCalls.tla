------------------------------ MODULE RPCCalls ------------------------------
(***************************************************************************)
(* The calling half of the extension: RPCCall objects and the natives that *)
(* drive them, CommandProcessor's table of outstanding calls, and the      *)
(* handling of a reply body up to and including the plugin's callback.     *)
(*                                                                         *)
(* Everything runs on the game thread.  A reply body is handled from the   *)
(* frame hook: HandleReply walks the replies of the body, and for each     *)
(* result it runs the plugin's callback to completion before it goes on.   *)
(* Plugin code therefore runs either while no body is being handled, or    *)
(* inside a callback; PluginTurn says so, and a callback may call every    *)
(* native on every handle its plugin owns.                                 *)
(*                                                                         *)
(* An RPCCall object is named by its SourceMod handle.  outstanding keeps  *)
(* raw pointers, so its entries may name an object that is gone.  Reading  *)
(* such an object, calling Send on a null Server and letting an exception  *)
(* leave the frame hook are recorded in fault; the model says nothing      *)
(* about what the process does afterwards.                                 *)
(***************************************************************************)
EXTENDS ServerRegistry

CONSTANTS
  Plugins,    \* identities of the loaded plugins
  Handles,    \* handles of RPCCall objects
  Ids,        \* request ids: a random UUID is never drawn twice
  Callbacks,  \* plugin functions given to Send
  Methods,    \* method names given to SetMethod
  Params,     \* parameter values given to SetParams
  MaxBatch,   \* bound: replies in one body
  None        \* no callback, no id, no call; also an empty method, null params

ASSUME CallConstants ==
  /\ None \notin Handles \cup Ids \cup Callbacks \cup Methods \cup Params \cup Plugins
  /\ MaxBatch \in Nat

VARIABLES
  loaded,       \* the plugins not unloaded
  calls,        \* handle -> its RPCCall object
  outstanding,  \* request id -> the call the raw pointer points at
  body,         \* the replies HandleReply has still to process
  running,      \* the id whose callback is on the stack
  fault,        \* the first undefined behaviour or escaped exception
  requests,     \* history: request id -> the request handed to Server::Send
  notices,      \* history: the requests without an id handed to Server::Send
  invoked,      \* history: request id -> callbacks run for its replies
  reused        \* history: calls sent again before their answer came

callVars == <<loaded, calls, outstanding, body, running, fault,
              requests, notices, invoked, reused>>
vars == <<servers, services, callVars>>

-----------------------------------------------------------------------------
\* "freed": by RPCCall::FreeHandle; "closed": by the plugin or its unloading.
Call == [st: {"unused", "live", "freed", "closed"},
         owner: Plugins \cup {None},
         callback: Callbacks \cup {None},
         method: Methods \cup {None},
         params: Params \cup {None}]

Request == [to: Objs, call: Handles, callback: Callbacks,
            method: Methods \cup {None}, params: Params \cup {None}]

ASSUME NoRequest == None \notin Request

Notice == [to: Objs, method: Methods \cup {None}, params: Params \cup {None}]

\* One element of a reply body: not a JSON object; carrying an error; with a
\* signature that is missing or wrong; a signed result.
Reply == [kind: {"scalar", "error", "badsig", "result"}, id: Ids \cup {None}]

TypeOK ==
  /\ RegistryTypeOK
  /\ loaded \in SUBSET Plugins
  /\ calls \in [Handles -> Call]
  /\ outstanding \in [Ids -> Handles \cup {None}]
  /\ body \in Seq(Reply)
  /\ running \in Ids \cup {None}
  /\ fault \in {"none", "use_after_free", "null_server", "uncaught"}
  /\ requests \in [Ids -> Request \cup {None}]
  /\ notices \in SUBSET Notice
  /\ invoked \in [Ids -> Seq(Callbacks)]
  /\ reused \in SUBSET Handles

Init ==
  /\ RegistryInit
  /\ loaded = Plugins
  /\ calls = [h \in Handles |-> [st |-> "unused", owner |-> None, callback |-> None,
                                 method |-> None, params |-> None]]
  /\ outstanding = [i \in Ids |-> None]
  /\ body = <<>>
  /\ running = None
  /\ fault = "none"
  /\ requests = [i \in Ids |-> None]
  /\ notices = {}
  /\ invoked = [i \in Ids |-> <<>>]
  /\ reused = {}

-----------------------------------------------------------------------------
\* Plugin code runs outside the handling of a body, or inside a callback.
PluginTurn == running # None \/ body = <<>>

Live(h) == calls[h].st = "live"

\* READ_HANDLE: only the owner may read the handle, and only while it exists.
ReadHandle(p, h) == p \in loaded /\ Live(h) /\ calls[h].owner = p

\* The call still has a request in the table.
Waiting(h) == \E i \in Ids : outstanding[i] = h

\* Sending a call: using it again while it waits is remembered.
NoteUse(h) == reused' = IF Waiting(h) THEN reused \cup {h} ELSE reused

\* RPCCall::SetCallback, with which every Send begins.
SetCallback_OnlyOnce(h, c) ==  \* mutant: the first callback is kept
  [calls EXCEPT ![h].callback = IF @ = None THEN c ELSE @]

SetCallback(h, c) == [calls EXCEPT ![h].callback = c]

\* RPCCall::SetMethod and SetArgsJSON.
MethodSet(h, m) == [calls EXCEPT ![h].method = m]
ArgsSet(h, a) == [calls EXCEPT ![h].params = a]

\* RPCCall::FreeHandle: OnHandleDestroy deletes the object.
FreeHandle_Refused(h) ==  \* mutant: SourceMod refuses, the owner is not given
  calls' = calls

FreeHandle(h) == calls' = [calls EXCEPT ![h].st = "freed"]

NoticeTo(h, n) == [to |-> servers[n], method |-> calls[h].method, params |-> calls[h].params]

-----------------------------------------------------------------------------
(* The natives of RPCCall. *)

\* native_CreateRPCCall
CreateRPCCall(p, h) ==
  /\ p \in loaded
  /\ calls[h].st = "unused"
  /\ calls' = [calls EXCEPT ![h].st = "live", ![h].owner = p]
  /\ UNCHANGED <<registryVars, loaded, outstanding, body, running, fault,
                 requests, notices, invoked, reused>>

\* native_RPCCallSetMethod
SetMethod(p, h, m) ==
  /\ ReadHandle(p, h)
  /\ calls' = MethodSet(h, m)
  /\ UNCHANGED <<registryVars, loaded, outstanding, body, running, fault,
                 requests, notices, invoked, reused>>

\* native_RPCCallSetParamsJSON: the call keeps a copy of the JSON value.
SetParams(p, h, a) ==
  /\ ReadHandle(p, h)
  /\ calls' = ArgsSet(h, a)
  /\ UNCHANGED <<registryVars, loaded, outstanding, body, running, fault,
                 requests, notices, invoked, reused>>

\* native_RPCCallSend to a known server: the callback is replaced, a new id is
\* drawn, the pointer is stored under it and the request goes to the server.
Send(p, h, n, c, i) ==
  /\ ReadHandle(p, h)
  /\ Known(n)
  /\ requests[i] = None
  /\ calls' = SetCallback(h, c)
  /\ outstanding' = [outstanding EXCEPT ![i] = h]
  /\ requests' = [requests EXCEPT ![i] =
       [to |-> servers[n], call |-> h, callback |-> c,
        method |-> calls[h].method, params |-> calls[h].params]]
  /\ NoteUse(h)
  /\ UNCHANGED <<registryVars, loaded, body, running, fault, notices, invoked>>

\* native_RPCCallSend to an unknown server: an error for the plugin, but the
\* callback has been replaced and the lookup has left a null entry.
SendUnknown(p, h, n, c) ==
  /\ ReadHandle(p, h)
  /\ ~Known(n)
  /\ calls' = SetCallback(h, c)
  /\ servers' = AfterLookup(n)
  /\ NoteUse(h)
  /\ UNCHANGED <<services, loaded, outstanding, body, running, fault,
                 requests, notices, invoked>>

\* native_RPCCallNotify: the call is freed whether or not the server is known.
Notify(p, h, n) ==
  /\ ReadHandle(p, h)
  /\ servers' = AfterLookup(n)
  /\ notices' = IF Known(n) THEN notices \cup {NoticeTo(h, n)} ELSE notices
  /\ FreeHandle(h)
  /\ NoteUse(h)
  /\ UNCHANGED <<services, loaded, outstanding, body, running, fault, requests, invoked>>

\* RPCCall::Broadcast, as far as the servers S.
BroadcastTo(h, S) == notices' = notices \cup {NoticeTo(h, n) : n \in S}

\* native_RPCCallBroadcast when every entry of the map is a server.
Broadcast(p, h) ==
  /\ ReadHandle(p, h)
  /\ \A n \in Names : servers[n] # NullPtr
  /\ BroadcastTo(h, RPCGetServers)
  /\ FreeHandle(h)
  /\ NoteUse(h)
  /\ UNCHANGED <<registryVars, loaded, outstanding, body, running, fault, requests, invoked>>

\* native_RPCCallBroadcast when the map holds a null pointer: the servers the
\* map happens to list before it are served, then Send is called on null.
BroadcastNull(p, h) ==
  /\ ReadHandle(p, h)
  /\ \E n \in Names : servers[n] = NullPtr
  /\ \E served \in SUBSET {n \in Names : Known(n)} : BroadcastTo(h, served)
  /\ fault' = "null_server"
  /\ UNCHANGED <<registryVars, loaded, calls, outstanding, body, running,
                 requests, invoked, reused>>

-----------------------------------------------------------------------------
(* What SourceMod does to the objects. *)

\* The plugin closes the handle of a call it owns.
CloseHandle(p, h) ==
  /\ ReadHandle(p, h)
  /\ calls' = [calls EXCEPT ![h].st = "closed"]
  /\ UNCHANGED <<registryVars, loaded, outstanding, body, running, fault,
                 requests, notices, invoked, reused>>

\* Unloading a plugin frees every handle it owns.  It waits for callbacks.
UnloadPlugin(p) ==
  /\ p \in loaded
  /\ running = None
  /\ loaded' = loaded \ {p}
  /\ calls' = [h \in Handles |-> IF Live(h) /\ calls[h].owner = p
                                 THEN [calls[h] EXCEPT !.st = "closed"]
                                 ELSE calls[h]]
  /\ UNCHANGED <<registryVars, outstanding, body, running, fault,
                 requests, notices, invoked, reused>>

-----------------------------------------------------------------------------
(* Replies. *)

\* A reply can only name an id that some server has been sent.
PossibleReply == {r \in Reply : r.id # None => r.kind # "scalar" /\ requests[r.id] # None}

\* Server::do_read hands over a line that parses to an object (one reply) or
\* to an array.  A line that does not parse is logged and has no effect.
HandleReply(b) ==
  /\ running = None
  /\ body = <<>>
  /\ services # <<>>
  /\ body' = b
  /\ UNCHANGED <<registryVars, loaded, calls, outstanding, running, fault,
                 requests, notices, invoked, reused>>

NextReply == Head(body)

\* processCommandReply returns early: an error reply, a bad signature, no
\* string id, or no record of the id.
IgnoredReply(r) ==
  \/ r.kind \in {"error", "badsig"}
  \/ r.kind = "result" /\ r.id = None
  \/ r.kind = "result" /\ r.id # None /\ outstanding[r.id] = None

IgnoreReply_Erases ==  \* mutant: the entry is erased before the checks
  /\ running = None
  /\ body # <<>>
  /\ IgnoredReply(NextReply)
  /\ body' = Tail(body)
  /\ outstanding' = [i \in Ids |-> IF i = NextReply.id THEN None ELSE outstanding[i]]
  /\ UNCHANGED <<registryVars, loaded, calls, running, fault,
                 requests, notices, invoked, reused>>

IgnoreReply_EndsBody ==  \* mutant: one bad reply ends the loop over the array
  /\ running = None
  /\ body # <<>>
  /\ IgnoredReply(NextReply)
  /\ body' = <<>>
  /\ UNCHANGED <<registryVars, loaded, calls, outstanding, running, fault,
                 requests, notices, invoked, reused>>

IgnoreReply ==
  /\ running = None
  /\ body # <<>>
  /\ IgnoredReply(NextReply)
  /\ body' = Tail(body)
  /\ UNCHANGED <<registryVars, loaded, calls, outstanding, running, fault,
                 requests, notices, invoked, reused>>

\* reply["error"] throws domain_error on a value that is not an object, and
\* HandleReply only catches invalid_argument.
ScalarReply ==
  /\ running = None
  /\ body # <<>>
  /\ NextReply.kind = "scalar"
  /\ fault' = "uncaught"
  /\ UNCHANGED <<registryVars, loaded, calls, outstanding, body, running,
                 requests, notices, invoked, reused>>

Accepted(i) == NextReply.kind = "result" /\ NextReply.id = i /\ outstanding[i] # None

\* The call is found and RPCCall::HandleReply enters the plugin's callback.
\* Every Send sets a callback, so `if (this->callback)` holds.
RunCallback(i) ==
  /\ running = None
  /\ body # <<>>
  /\ Accepted(i)
  /\ Live(outstanding[i])
  /\ running' = i
  /\ body' = Tail(body)
  /\ invoked' = [invoked EXCEPT ![i] = Append(@, calls[outstanding[i]].callback)]
  /\ UNCHANGED <<registryVars, loaded, calls, outstanding, fault,
                 requests, notices, reused>>

CallbackReturns_NotErased(i) ==  \* mutant: the entry stays in the table
  /\ running = i
  /\ Live(outstanding[i])
  /\ FreeHandle(outstanding[i])
  /\ running' = None
  /\ UNCHANGED <<registryVars, loaded, outstanding, body, fault,
                 requests, notices, invoked, reused>>

CallbackReturns_Deferred(i) ==  \* mutant: calls are released after the last reply
  /\ running = i
  /\ Live(outstanding[i])
  /\ IF body = <<>>
     THEN FreeHandle(outstanding[i]) /\ outstanding' = [outstanding EXCEPT ![i] = None]
     ELSE UNCHANGED <<calls, outstanding>>
  /\ running' = None
  /\ UNCHANGED <<registryVars, loaded, body, fault, requests, notices, invoked, reused>>

\* The callback is back: the call is freed, then its entry erased.
CallbackReturns(i) ==
  /\ running = i
  /\ Live(outstanding[i])
  /\ FreeHandle(outstanding[i])
  /\ outstanding' = [outstanding EXCEPT ![i] = None]
  /\ running' = None
  /\ UNCHANGED <<registryVars, loaded, body, fault, requests, notices, invoked, reused>>

\* The pointer found in the table, or `this` when the callback is back, names
\* an object that has been deleted.
UseAfterFree(i) ==
  /\ \/ running = None /\ body # <<>> /\ Accepted(i)
     \/ running = i
  /\ ~Live(outstanding[i])
  /\ fault' = "use_after_free"
  /\ UNCHANGED <<registryVars, loaded, calls, outstanding, body, running,
                 requests, notices, invoked, reused>>

-----------------------------------------------------------------------------
CallNative(p, h) ==
  \/ CreateRPCCall(p, h)
  \/ \E m \in Methods : SetMethod(p, h, m)
  \/ \E a \in Params : SetParams(p, h, a)
  \/ \E n \in Names, c \in Callbacks, i \in Ids : Send(p, h, n, c, i)
  \/ \E n \in Names, c \in Callbacks : SendUnknown(p, h, n, c)
  \/ \E n \in Names : Notify(p, h, n)
  \/ Broadcast(p, h)
  \/ BroadcastNull(p, h)
  \/ CloseHandle(p, h)

ServerNative(n) ==
  /\ \/ \E s \in Objs : RPCAddServer(n, s)
     \/ RPCRemoveServer(n)
     \/ LookUpServer(n)
  /\ UNCHANGED callVars

PluginStep ==
  /\ PluginTurn
  /\ \/ \E p \in Plugins, h \in Handles : CallNative(p, h)
     \/ \E n \in Names : ServerNative(n)
     \/ \E p \in Plugins : UnloadPlugin(p)

ReplyStep ==
  \/ \E k \in 1..MaxBatch : \E b \in [1..k -> PossibleReply] : HandleReply(b)
  \/ IgnoreReply
  \/ ScalarReply
  \/ \E i \in Ids : RunCallback(i) \/ CallbackReturns(i) \/ UseAfterFree(i)

Next == fault = "none" /\ (PluginStep \/ ReplyStep)

Spec == Init /\ [][Next]_vars

\* The frame hook runs every frame and handles what the sockets hold, and a
\* plugin's callback returns.  Plugins are under no obligation to call.
FairSpec == Spec /\ WF_vars(fault = "none" /\ ReplyStep)

-----------------------------------------------------------------------------
(* Properties. *)

\* However often a reply is repeated, in one body or in several, and whatever
\* the callback does, the callback of a request runs at most once.
AnsweredOnce == \A i \in Ids : Len(invoked[i]) <= 1

\* The table never loses a request: as long as its callback has not run, a
\* request that was sent is still there for the answer to find (an error, a
\* forged reply or another call's traffic does not remove it).
NeverForgotten ==
  \A i \in Ids : requests[i] # None /\ outstanding[i] = None => invoked[i] # <<>>

\* Once the callback of a request is back, nothing of it remains: the entry is
\* erased and the call's handle is no longer live, even when the callback
\* itself created, sent or closed calls.
AnswerReleasesCall ==
  \A i \in Ids : invoked[i] # <<>> /\ running # i =>
    outstanding[i] = None /\ ~Live(requests[i].call)

\* A raw pointer in the table is dangling only if the plugin closed the handle
\* (or was unloaded), or sent the call again while it waited: a plugin that
\* uses each RPCCall for one call leaves no dangling pointer behind.
DanglingOnlyIfMisused ==
  \A i \in Ids : outstanding[i] # None =>
    \/ Live(outstanding[i])
    \/ calls[outstanding[i]].st = "closed"
    \/ calls[outstanding[i]].st = "freed" /\ outstanding[i] \in reused

\* The same for what is done with the pointers: no object is read after its
\* deletion as long as plugins neither close nor re-send a waiting call.
NoUseAfterFreeIfUsedOnce ==
  reused = {} /\ (\A h \in Handles : calls[h].st # "closed") => fault # "use_after_free"

\* A result goes to the callback that was given to the Send it answers, unless
\* that call was used again before the answer came.
AnswerReachesItsCallback ==
  \A i \in Ids : invoked[i] # <<>> =>
    invoked[i][1] = requests[i].callback \/ requests[i].call \in reused

Pending(i, kinds) ==
  /\ outstanding[i] # None
  /\ \E k \in DOMAIN body : body[k].id = i /\ body[k].kind \in kinds

\* A result that is received reaches the plugin, whatever else is in its body.
ResultReachesPlugin ==
  \A i \in Ids : Pending(i, {"result"}) ~> (invoked[i] # <<>> \/ fault # "none")

\* What an entry of the table says: it is the entry of a request of the call it
\* points at, whose object existed then and has a callback; unless the call was
\* used again that is the request's callback, and the object was not freed.
EntryInv(i) == outstanding[i] # None =>
  /\ requests[i] # None
  /\ requests[i].call = outstanding[i]
  /\ calls[outstanding[i]].st # "unused"
  /\ calls[outstanding[i]].callback # None
  /\ \/ outstanding[i] \in reused
     \/ /\ calls[outstanding[i]].st # "freed"
        /\ calls[outstanding[i]].callback = requests[i].callback

\* What the history says of a request: it has an entry until its callback runs,
\* and once the callback is back its call is gone for good.
AnswerInv(i) ==
  /\ requests[i] = None => invoked[i] = <<>>
  /\ requests[i] # None /\ outstanding[i] = None => invoked[i] # <<>>
  /\ invoked[i] # <<>> =>
       /\ Len(invoked[i]) = 1
       /\ invoked[i][1] = requests[i].callback \/ requests[i].call \in reused
       /\ running # i => /\ outstanding[i] = None
                        /\ calls[requests[i].call].st \in {"freed", "closed"}

\* Two entries point at one object only if its call was used again.
SharedOnlyIfReused ==
  \A i, j \in Ids : i # j /\ outstanding[i] # None /\ outstanding[i] = outstanding[j] =>
    outstanding[i] \in reused

\* The callback on the stack is that of an entry.
RunningIsEntry == running # None => outstanding[running] # None /\ invoked[running] # <<>>

TableInv ==
  /\ \A i \in Ids : EntryInv(i)
  /\ \A i \in Ids : AnswerInv(i)
  /\ SharedOnlyIfReused
  /\ RunningIsEntry

\* The inductive invariant behind the properties above: the table of outstanding
\* calls, the objects and the history of answers agree at every step.
IInv == TypeOK /\ TableInv /\ NoUseAfterFreeIfUsedOnce

\* rpc.inc:237, Broadcast: "Broadcasts this method call to all known servers", and
\* goes wrong on a name that was only ever looked up.
BroadcastReachesServers == fault # "null_server"

=============================================================================
