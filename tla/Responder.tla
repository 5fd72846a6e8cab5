----------------------------- MODULE Responder -----------------------------
(***************************************************************************)
(* The answering half of the extension: the table of RPC methods, the      *)
(* checks CommandProcessor::HandleRequest makes on a line received by a    *)
(* SocketHandler, and the life of the RPCContext a method's callback gets. *)
(*                                                                         *)
(* The checks run without interruption.  The last thing a request that     *)
(* passes them does is run the plugin's callback, with the context's       *)
(* handle; the plugin calls Done on it there or in a later frame.          *)
(*                                                                         *)
(* The table keeps raw pointers to plugin functions.  Calling one that is  *)
(* null, or that belonged to an unloaded plugin, is recorded in fault.     *)
(***************************************************************************)
EXTENDS Naturals, Sequences

CONSTANTS
  Plugins,     \* identities of plugins
  MethodNames, \* names of methods
  Types,       \* what RPCRegisterMethod may declare: sequences of ParamTypes
  Lines,       \* lines that may be received: records of what the checks read
  Reqs,        \* identities of received lines
  Contexts,    \* handles of RPCContext objects
  Values,      \* JSON values given to SetReturn
  None         \* no id, no method, no array, no return value, no entry

ASSUME ResponderConstants ==
  None \notin Plugins \cup MethodNames \cup Reqs \cup Contexts \cup Values

ParamType == {"String", "Int", "Bool", "Float", "JSON"}

\* The JSON types a parameter can have, as far as checkType tells them apart.
JsonKind == {"string", "integer", "real", "boolean", "other"}

VARIABLES
  loaded,    \* the plugins that are loaded
  methods,   \* name -> the method registered under it
  contexts,  \* handle -> its RPCContext object
  running,   \* the context whose method callback is on the stack
  fault,     \* the first undefined behaviour
  received,  \* history: the lines received
  called,    \* history: request -> its context, its method's types at the time
  responses  \* history: request -> responses handed to SocketHandler::do_write

vars == <<loaded, methods, contexts, running, fault, received, called, responses>>

-----------------------------------------------------------------------------
Method == [owner: Plugins, types: Types, callback: {"valid", "null", "unloaded"}]

Unused == [st |-> "unused", owner |-> None, req |-> None, retval |-> None]

\* "done": freed by native_FinishCall; "closed": by the plugin or its unloading.
Context == {Unused} \cup
  [st: {"live", "done", "closed"}, owner: Plugins, req: Reqs, retval: Values \cup {None}]

Called == [context: Contexts, types: Types]

\* None is not a record, and a line names a method that the constants know.
ASSUME NoRecord == None \notin Lines \cup Called \cup Method

ASSUME LineMethods == \A l \in Lines : l.method \in MethodNames \cup {None}

Ids == {l.id : l \in Lines} \cup {None}

Response == [code: {"parse_error", "invalid_request", "method_not_found",
                    "invalid_params", "result"},
             id: Ids, result: Values \cup {None}]

TypeOK ==
  /\ loaded \in SUBSET Plugins
  /\ methods \in [MethodNames -> Method \cup {None}]
  /\ contexts \in [Contexts -> Context]
  /\ running \in Contexts \cup {None}
  /\ fault \in {"none", "null_callback", "unloaded_callback"}
  /\ received \in [Reqs -> Lines \cup {None}]
  /\ called \in [Reqs -> Called \cup {None}]
  /\ responses \in [Reqs -> Seq(Response)]

Init ==
  /\ loaded = Plugins
  /\ methods = [m \in MethodNames |-> None]
  /\ contexts = [c \in Contexts |-> Unused]
  /\ running = None
  /\ fault = "none"
  /\ received = [q \in Reqs |-> None]
  /\ called = [q \in Reqs |-> None]
  /\ responses = [q \in Reqs |-> <<>>]

-----------------------------------------------------------------------------
(* The checks. *)

\* RPCMethod::checkType
checkType(type, kind) ==
  \/ type = "String" /\ kind = "string"
  \/ type = "Int" /\ kind = "integer"
  \/ type = "Bool" /\ kind = "boolean"
  \/ type = "Float" /\ kind \in {"integer", "real"}
  \/ type = "JSON"

\* RPCMethod::ValidateArguments
ValidateArguments(types, params) ==
  /\ Len(types) = Len(params)
  /\ \A k \in DOMAIN types : checkType(types[k], params[k])

WellFormed_Unsigned(l) ==  \* mutant: a request without a signature passes
  /\ l.body = "object"
  /\ l.timestamp = "fresh"
  /\ l.sig # "wrong"
  /\ l.params # None
  /\ l.method # None

\* An object with an integral timestamp that is not older than 30 seconds, a
\* signature that matches, an array of parameters and a method's name.
WellFormed(l) ==
  /\ l.body = "object"
  /\ l.timestamp = "fresh"
  /\ l.sig = "good"
  /\ l.params # None
  /\ l.method # None

IsNotification_Never(l) == FALSE  \* mutant: every request is answered

IsNotification(l) == l.id = None

Respond(q, code, id, result) ==
  responses' = [responses EXCEPT ![q] =
                  Append(@, [code |-> code, id |-> id, result |-> result])]

RespondError_Inverted(q, l, code) ==  \* mutant: the condition is negated
  IF IsNotification(l) THEN Respond(q, code, l.id, None) ELSE UNCHANGED responses

\* respError, unless the request is a notification.
RespondError(q, l, code) ==
  IF IsNotification(l) THEN UNCHANGED responses ELSE Respond(q, code, l.id, None)

-----------------------------------------------------------------------------
(* HandleRequest, one action for every way out of it. *)

Receive(q, l) ==
  /\ running = None
  /\ received[q] = None
  /\ received' = [received EXCEPT ![q] = l]

\* A line that is no JSON, and an object or a scalar that fails the checks, is
\* answered with a null id, notifications too.
RejectRequest(q, l) ==
  /\ Receive(q, l)
  /\ l.body # "array"
  /\ ~WellFormed(l)
  /\ Respond(q, IF l.body = "garbage" THEN "parse_error" ELSE "invalid_request", None, None)
  /\ UNCHANGED <<loaded, methods, contexts, running, fault, called>>

\* The branch for batches is empty.
IgnoreArray(q, l) ==
  /\ Receive(q, l)
  /\ l.body = "array"
  /\ UNCHANGED <<loaded, methods, contexts, running, fault, called, responses>>

MethodNotFound(q, l) ==
  /\ Receive(q, l)
  /\ WellFormed(l)
  /\ methods[l.method] = None
  /\ RespondError(q, l, "method_not_found")
  /\ UNCHANGED <<loaded, methods, contexts, running, fault, called>>

InvalidParams(q, l) ==
  /\ Receive(q, l)
  /\ WellFormed(l)
  /\ methods[l.method] # None
  /\ ~ValidateArguments(methods[l.method].types, l.params)
  /\ RespondError(q, l, "invalid_params")
  /\ UNCHANGED <<loaded, methods, contexts, running, fault, called>>

Callable(l) ==
  /\ WellFormed(l)
  /\ methods[l.method] # None
  /\ ValidateArguments(methods[l.method].types, l.params)

NewContext(q, m) == [st |-> "live", owner |-> methods[m].owner, req |-> q, retval |-> None]

\* RPCMethod::Call makes a context and enters the method's callback with it.
CallMethod(q, l, c) ==
  /\ Receive(q, l)
  /\ Callable(l)
  /\ methods[l.method].callback = "valid"
  /\ contexts[c].st = "unused"
  /\ contexts' = [contexts EXCEPT ![c] = NewContext(q, l.method)]
  /\ called' = [called EXCEPT ![q] = [context |-> c, types |-> methods[l.method].types]]
  /\ running' = c
  /\ UNCHANGED <<loaded, methods, fault, responses>>

\* The callback is null, or was freed with its plugin.
CallBadMethod(q, l) ==
  /\ Receive(q, l)
  /\ Callable(l)
  /\ methods[l.method].callback # "valid"
  /\ fault' = IF methods[l.method].callback = "null" THEN "null_callback"
              ELSE "unloaded_callback"
  /\ UNCHANGED <<loaded, methods, contexts, running, called, responses>>

MethodReturns ==
  /\ running # None
  /\ running' = None
  /\ UNCHANGED <<loaded, methods, contexts, fault, received, called, responses>>

-----------------------------------------------------------------------------
(* Natives: a plugin calls them between lines or inside a callback. *)

NewMethod(p, types, callback) == [owner |-> p, types |-> types, callback |-> callback]

\* A method registered before under the name is replaced.
RegisterRPCMethod(m, method) == methods' = [methods EXCEPT ![m] = method]

\* A function id that does not resolve is reported to the plugin, and registered
\* all the same.
RPCRegisterMethod(p, m, types, callback) ==
  /\ p \in loaded
  /\ callback \in {"valid", "null"}
  /\ RegisterRPCMethod(m, NewMethod(p, types, callback))
  /\ UNCHANGED <<loaded, contexts, running, fault, received, called, responses>>

\* READ_HANDLE: only the owner may read the handle, and only while it exists.
ReadHandle(p, c) == p \in loaded /\ contexts[c].st = "live" /\ contexts[c].owner = p

SetReturn_Shared(p, c, v) ==  \* mutant: retval is a static member
  /\ ReadHandle(p, c)
  /\ contexts' = [x \in Contexts |-> IF contexts[x] = Unused THEN Unused
                                     ELSE [contexts[x] EXCEPT !.retval = v]]
  /\ UNCHANGED <<loaded, methods, running, fault, received, called, responses>>

\* native_SetReturnJSON keeps a copy of v.  It takes the value's handle from
\* params[3], one beyond the arguments rpc.inc declares, so v is any value of the
\* plugin's whose handle happens to be there; another cell is reported as an
\* error, which changes nothing.
SetReturn(p, c, v) ==
  /\ ReadHandle(p, c)
  /\ contexts' = [contexts EXCEPT ![c].retval = v]
  /\ UNCHANGED <<loaded, methods, running, fault, received, called, responses>>

FreeContext_Refused(c) == contexts' = contexts  \* mutant: the handle is not freed

FreeContext(c) == contexts' = [contexts EXCEPT ![c].st = "done"]

\* RPCContext::finish: the callback that HandleRequest gave the context answers
\* the request with the value last set.
Finish(c) ==
  LET q == contexts[c].req
  IN  IF IsNotification(received[q]) THEN UNCHANGED responses
      ELSE Respond(q, "result", received[q].id, contexts[c].retval)

\* native_FinishCall: the request is answered and the handle freed.
Done(p, c) ==
  /\ ReadHandle(p, c)
  /\ Finish(c)
  /\ FreeContext(c)
  /\ UNCHANGED <<loaded, methods, running, fault, received, called>>

\* The plugin closes the handle without calling Done.
CloseHandle(p, c) ==
  /\ ReadHandle(p, c)
  /\ contexts' = [contexts EXCEPT ![c].st = "closed"]
  /\ UNCHANGED <<loaded, methods, running, fault, received, called, responses>>

\* SourceMod frees the plugin's handles; its methods stay in the table.
UnloadPlugin(p) ==
  /\ p \in loaded
  /\ running = None
  /\ loaded' = loaded \ {p}
  /\ contexts' = [c \in Contexts |->
       IF contexts[c].st = "live" /\ contexts[c].owner = p
       THEN [contexts[c] EXCEPT !.st = "closed"] ELSE contexts[c]]
  /\ methods' = [m \in MethodNames |->
       IF methods[m] # None /\ methods[m].owner = p /\ methods[m].callback = "valid"
       THEN [methods[m] EXCEPT !.callback = "unloaded"] ELSE methods[m]]
  /\ UNCHANGED <<running, fault, received, called, responses>>

LoadPlugin(p) ==
  /\ p \notin loaded
  /\ running = None
  /\ loaded' = loaded \cup {p}
  /\ UNCHANGED <<methods, contexts, running, fault, received, called, responses>>

-----------------------------------------------------------------------------
HandleRequest(q, l) ==
  \/ RejectRequest(q, l)
  \/ IgnoreArray(q, l)
  \/ MethodNotFound(q, l)
  \/ InvalidParams(q, l)
  \/ \E c \in Contexts : CallMethod(q, l, c)
  \/ CallBadMethod(q, l)

ContextNative(p, c) ==
  \/ \E v \in Values : SetReturn(p, c, v)
  \/ Done(p, c)
  \/ CloseHandle(p, c)

PluginStep(p) ==
  \/ \E c \in Contexts : ContextNative(p, c)
  \/ \E m \in MethodNames, t \in Types, f \in {"valid", "null"} : RPCRegisterMethod(p, m, t, f)
  \/ UnloadPlugin(p)
  \/ LoadPlugin(p)

Next ==
  /\ fault = "none"
  /\ \/ \E q \in Reqs, l \in Lines : HandleRequest(q, l)
     \/ MethodReturns
     \/ \E p \in Plugins : PluginStep(p)

Spec == Init /\ [][Next]_vars

-----------------------------------------------------------------------------
(* Properties. *)

\* A request gets at most one response, however late, often or never its
\* plugin calls Done, and whatever is registered, replaced or unloaded; and a
\* well-formed notification gets none, not even an error.
RespondedOnce ==
  \A q \in Reqs : received[q] # None =>
    LET unanswered == WellFormed(received[q]) /\ received[q].id = None
    IN  Len(responses[q]) <= (IF unanswered THEN 0 ELSE 1)

\* A well-formed request is never lost by the extension: it is answered, its
\* method is still at work on it, or the plugin abandoned its context by
\* closing the handle or being unloaded (or the process met a fault).
NoRequestLost ==
  \A q \in Reqs :
    received[q] # None /\ WellFormed(received[q]) /\ received[q].id # None =>
      \/ responses[q] # <<>>
      \/ called[q] # None /\ contexts[called[q].context].st \in {"live", "closed"}
      \/ fault # "none"

\* A result goes to the request its context was made for, with that request's
\* id and the value last set on that context.
ResultFromItsContext ==
  \A q \in Reqs : \A k \in DOMAIN responses[q] :
    responses[q][k].code = "result" =>
      /\ called[q] # None
      /\ contexts[called[q].context].req = q
      /\ contexts[called[q].context].st = "done"
      /\ responses[q][k].result = contexts[called[q].context].retval
      /\ responses[q][k].id = received[q].id

\* README.md:26 "This key will be used to sign all RPC request to prevent
\* unauthorized calls": no callback runs for a line that is not signed with the
\* key and recent, and none gets parameters that its method's registration, at
\* the time of the call, does not accept.
CalledOnlyIfAuthorised ==
  \A q \in Reqs : called[q] # None =>
    /\ received[q].body = "object"
    /\ received[q].sig = "good"
    /\ received[q].timestamp = "fresh"
    /\ Len(called[q].types) = Len(received[q].params)
    /\ \A k \in DOMAIN called[q].types :
         checkType(called[q].types[k], received[q].params[k])

\* A handle that can be used leads to a request that still waits: while a
\* context is live its request has no response (README.md:117, "context is
\* automatically closed when you call Done()").
LiveContextWaits ==
  \A c \in Contexts : contexts[c].st = "live" =>
    /\ called[contexts[c].req].context = c
    /\ responses[contexts[c].req] = <<>>
    /\ contexts[c].owner \in loaded
=============================================================================
