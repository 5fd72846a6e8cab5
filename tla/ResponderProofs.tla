-------------------------- MODULE ResponderProofs ---------------------------
(***************************************************************************)
(* Proofs about Responder for all plugins, methods, lines, requests and    *)
(* contexts: the properties the run "answer" checks, from an invariant by  *)
(* which requests, contexts and responses are in step.                     *)
(***************************************************************************)
EXTENDS Responder, TLAPS

USE ResponderConstants, NoRecord, LineMethods

-----------------------------------------------------------------------------
(* The invariant. *)

\* A method with a function that can be called belongs to a loaded plugin.
MethodInv ==
  \A m \in MethodNames : methods[m] # None /\ methods[m].callback = "valid" =>
    methods[m].owner \in loaded

\* A context is that of one request, the request that was given it; as long as
\* it is live the request has no response.
ContextInv(c) == contexts[c].st # "unused" =>
  /\ received[contexts[c].req] # None
  /\ called[contexts[c].req] # None
  /\ called[contexts[c].req].context = c
  /\ contexts[c].st = "live" =>
       responses[contexts[c].req] = <<>> /\ contexts[c].owner \in loaded

\* A request was received before it is called or answered; it was called by
\* right and has its context; and it has one response, that of the last thing
\* that happened to it.
RequestInv(q) ==
  /\ received[q] = None => called[q] = None /\ responses[q] = <<>>
  /\ called[q] # None =>
       /\ contexts[called[q].context].st # "unused"
       /\ contexts[called[q].context].req = q
       /\ WellFormed(received[q])
       /\ ValidateArguments(called[q].types, received[q].params)
       /\ responses[q] # <<>> => contexts[called[q].context].st = "done"
  /\ Len(responses[q]) <= 1
  /\ responses[q] # <<>> => ~(WellFormed(received[q]) /\ received[q].id = None)
  /\ \A k \in DOMAIN responses[q] : responses[q][k].code = "result" =>
       /\ called[q] # None
       /\ responses[q][k].result = contexts[called[q].context].retval
       /\ responses[q][k].id = received[q].id

IInv ==
  /\ TypeOK
  /\ MethodInv
  /\ \A c \in Contexts : ContextInv(c)
  /\ \A q \in Reqs : RequestInv(q)
  /\ NoRequestLost

-----------------------------------------------------------------------------
(* Types. *)

LEMMA TypeInit == ASSUME Init PROVE TypeOK
BY DEF Init, TypeOK, Context, Unused, Method

\* Appending a response, or assigning a field of a context, keeps the types.
LEMMA RespondTypes ==
  ASSUME TypeOK, NEW q \in Reqs, NEW id \in Ids, NEW v \in Values \cup {None},
         NEW code \in {"parse_error", "invalid_request", "method_not_found",
                       "invalid_params", "result"},
         Respond(q, code, id, v)
  PROVE  responses' \in [Reqs -> Seq(Response)]
<1>1. [code |-> code, id |-> id, result |-> v] \in Response
  BY DEF Response
<1>2. responses[q] \in Seq(Response)
  BY DEF TypeOK
<1>3. Append(responses[q], [code |-> code, id |-> id, result |-> v]) \in Seq(Response)
  BY <1>1, <1>2
<1> QED
  BY <1>3 DEF TypeOK, Respond

LEMMA ContextUpdates ==
  ASSUME contexts \in [Contexts -> Context], NEW c \in Contexts, contexts[c].st = "live"
  PROVE  /\ contexts[c].owner \in Plugins /\ contexts[c].req \in Reqs
         /\ contexts[c].retval \in Values \cup {None}
         /\ \A s \in {"done", "closed"} : [contexts[c] EXCEPT !.st = s] \in Context
         /\ \A v \in Values : [contexts[c] EXCEPT !.retval = v] \in Context
<1>1. contexts[c] \in [st: {"live", "done", "closed"}, owner: Plugins, req: Reqs,
                       retval: Values \cup {None}]
  BY DEF Context, Unused
<1> QED
  BY <1>1 DEF Context

\* What the checks make sure of: the line's method is one that is registered.
LEMMA CallableMethod ==
  ASSUME TypeOK, NEW l \in Lines, Callable(l)
  PROVE  l.method \in MethodNames /\ methods[l.method] \in Method
BY DEF TypeOK, Callable, WellFormed

LEMMA TypeNext ==
  ASSUME TypeOK, \A c \in Contexts : ContextInv(c), [Next]_vars
  PROVE  TypeOK'
<1> USE DEF TypeOK
<1>1. ASSUME NEW q \in Reqs, NEW l \in Lines, RejectRequest(q, l) PROVE TypeOK'
  <2>1. responses' \in [Reqs -> Seq(Response)]
    BY <1>1, RespondTypes DEF RejectRequest, Ids
  <2> QED
    BY <1>1, <2>1 DEF RejectRequest, Receive
<1>2. ASSUME NEW q \in Reqs, NEW l \in Lines, IgnoreArray(q, l) PROVE TypeOK'
  BY <1>2 DEF IgnoreArray, Receive
<1>3. ASSUME NEW q \in Reqs, NEW l \in Lines, MethodNotFound(q, l) PROVE TypeOK'
  <2>1. responses' \in [Reqs -> Seq(Response)]
    BY <1>3, RespondTypes DEF MethodNotFound, RespondError, Ids
  <2> QED
    BY <1>3, <2>1 DEF MethodNotFound, Receive
<1>4. ASSUME NEW q \in Reqs, NEW l \in Lines, InvalidParams(q, l) PROVE TypeOK'
  <2>1. responses' \in [Reqs -> Seq(Response)]
    BY <1>4, RespondTypes DEF InvalidParams, RespondError, Ids
  <2> QED
    BY <1>4, <2>1 DEF InvalidParams, Receive
<1>5. ASSUME NEW q \in Reqs, NEW l \in Lines, NEW c \in Contexts, CallMethod(q, l, c)
      PROVE  TypeOK'
  <2>1. methods[l.method] \in Method
    BY <1>5, CallableMethod DEF CallMethod
  <2>2. NewContext(q, l.method) \in Context /\ methods[l.method].types \in Types
    BY <2>1 DEF NewContext, Context, Method
  <2>3. contexts' \in [Contexts -> Context]
    BY <1>5, <2>2 DEF CallMethod
  <2>4. called' \in [Reqs -> Called \cup {None}]
    BY <1>5, <2>2 DEF CallMethod, Called
  <2> QED
    BY <1>5, <2>3, <2>4 DEF CallMethod, Receive
<1>6. ASSUME NEW q \in Reqs, NEW l \in Lines, CallBadMethod(q, l) PROVE TypeOK'
  BY <1>6 DEF CallBadMethod, Receive
<1>7. CASE MethodReturns
  BY <1>7 DEF MethodReturns
<1>8. ASSUME NEW p \in Plugins, NEW c \in Contexts, NEW v \in Values, SetReturn(p, c, v)
      PROVE  TypeOK'
  <2>1. contexts' \in [Contexts -> Context]
    BY <1>8, ContextUpdates DEF SetReturn, ReadHandle
  <2> QED
    BY <1>8, <2>1 DEF SetReturn
<1>9. ASSUME NEW p \in Plugins, NEW c \in Contexts, Done(p, c) PROVE TypeOK'
  <2>1. contexts' \in [Contexts -> Context]
    BY <1>9, ContextUpdates DEF Done, FreeContext, ReadHandle
  <2>2. contexts[c].req \in Reqs /\ contexts[c].retval \in Values \cup {None}
    BY <1>9, ContextUpdates DEF Done, ReadHandle
  <2>3. responses' \in [Reqs -> Seq(Response)]
    <3>1. CASE IsNotification(received[contexts[c].req])
      BY <1>9, <3>1 DEF Done, Finish
    <3>2. CASE ~IsNotification(received[contexts[c].req])
      <4>1. received[contexts[c].req].id \in Ids
        BY <1>9, <2>2 DEF Ids, Done, ReadHandle, ContextInv
      <4> QED
        BY <1>9, <3>2, <4>1, <2>2, RespondTypes DEF Done, Finish
    <3> QED
      BY <3>1, <3>2
  <2> QED
    BY <1>9, <2>1, <2>3 DEF Done
<1>10. ASSUME NEW p \in Plugins, NEW c \in Contexts, CloseHandle(p, c) PROVE TypeOK'
  <2>1. contexts' \in [Contexts -> Context]
    BY <1>10, ContextUpdates DEF CloseHandle, ReadHandle
  <2> QED
    BY <1>10, <2>1 DEF CloseHandle
<1>11. ASSUME NEW p \in Plugins, NEW m \in MethodNames, NEW t \in Types,
              NEW f \in {"valid", "null"}, RPCRegisterMethod(p, m, t, f)
       PROVE  TypeOK'
  <2>1. methods' \in [MethodNames -> Method \cup {None}]
    BY <1>11 DEF RPCRegisterMethod, RegisterRPCMethod, NewMethod, Method
  <2> QED
    BY <1>11, <2>1 DEF RPCRegisterMethod, RegisterRPCMethod
<1>12. ASSUME NEW p \in Plugins, UnloadPlugin(p) PROVE TypeOK'
  <2>1. contexts' \in [Contexts -> Context]
    BY <1>12, ContextUpdates DEF UnloadPlugin
  <2>2. methods' \in [MethodNames -> Method \cup {None}]
    BY <1>12 DEF UnloadPlugin, Method
  <2> QED
    BY <1>12, <2>1, <2>2 DEF UnloadPlugin
<1>13. ASSUME NEW p \in Plugins, LoadPlugin(p) PROVE TypeOK'
  BY <1>13 DEF LoadPlugin
<1>14. CASE UNCHANGED vars
  BY <1>14 DEF vars
<1> QED
  BY <1>1, <1>2, <1>3, <1>4, <1>5, <1>6, <1>7, <1>8, <1>9, <1>10, <1>11, <1>12, <1>13, <1>14
     DEF Next, HandleRequest, PluginStep, ContextNative

-----------------------------------------------------------------------------
(* Requests, contexts and responses. *)

\* A step that leaves received, called, responses and the contexts alone.
LEMMA InvSame ==
  ASSUME IInv, TypeOK', UNCHANGED <<received, called, responses, contexts, loaded>>, MethodInv',
         fault # "none" => fault' # "none"
  PROVE  IInv'
BY DEF IInv, ContextInv, RequestInv, NoRequestLost, WellFormed, ValidateArguments

\* A request that is received and at most gets one response, and no context: an
\* error, or nothing at all.
LEMMA InvAnswer ==
  ASSUME IInv, TypeOK', NEW q \in Reqs, NEW l \in Lines, received[q] = None,
         received' = [received EXCEPT ![q] = l],
         UNCHANGED <<loaded, methods, contexts, called>>,
         NEW x, x.code # "result",
         \/ responses' = responses /\ (WellFormed(l) /\ l.id # None => fault' # "none")
         \/ /\ responses' = [responses EXCEPT ![q] = Append(@, x)]
            /\ ~(WellFormed(l) /\ l.id = None),
         fault # "none" => fault' # "none"
  PROVE  IInv'
<1> USE DEF IInv
<1>1. called[q] = None /\ responses[q] = <<>> /\ received' \in [Reqs -> Lines \cup {None}]
  BY DEF RequestInv, TypeOK
<1>2. received'[q] = l /\ l # None /\ \A r \in Reqs \ {q} : received'[r] = received[r]
  BY DEF TypeOK
<1>3. /\ \/ responses'[q] = <<>> /\ (WellFormed(l) /\ l.id # None => fault' # "none")
         \/ responses'[q] = <<x>> /\ ~(WellFormed(l) /\ l.id = None)
      /\ \A r \in Reqs \ {q} : responses'[r] = responses[r]
  BY <1>1 DEF TypeOK
<1>4. ASSUME NEW c \in Contexts PROVE ContextInv(c)'
  BY <1>1, <1>2, <1>3 DEF ContextInv, TypeOK, Context, Unused
<1>5. ASSUME NEW r \in Reqs PROVE RequestInv(r)'
  <2>1. CASE r # q
    BY <1>2, <1>3, <2>1 DEF RequestInv
  <2>2. CASE r = q
    <3>1. received'[q] = l /\ l # None /\ called'[q] = None
      BY <1>1, <1>2
    <3>2. CASE responses'[q] = <<>>
      BY <3>1, <3>2, <2>2 DEF RequestInv
    <3>3. CASE responses'[q] = <<x>> /\ ~(WellFormed(l) /\ l.id = None)
      <4>1. Len(responses'[q]) = 1 /\ \A k \in DOMAIN responses'[q] : responses'[q][k] = x
        BY <3>3
      <4> QED
        <5>1. called[q]' = None /\ received[q]' = l
          BY <3>1
        <5>2. Len(responses[q]') <= 1
          BY <4>1
        <5>3. \A k \in DOMAIN responses[q]' : responses[q]'[k].code # "result"
          BY <4>1
        <5>4. ~(WellFormed(received[q]') /\ received[q]'.id = None)
          BY <5>1, <3>3
        <5> QED
          BY <3>1, <5>1, <5>2, <5>3, <5>4, <2>2 DEF RequestInv
    <3> QED
      BY <1>3, <3>2, <3>3
  <2> QED
    BY <2>1, <2>2
<1>6. NoRequestLost'
  <2>1. SUFFICES ASSUME NEW r \in Reqs, received'[r] # None, WellFormed(received'[r]),
                        received'[r].id # None, fault' = "none"
                 PROVE  \/ responses'[r] # <<>>
                        \/ called'[r] # None /\ contexts'[called'[r].context].st \in {"live", "closed"}
    BY DEF NoRequestLost
  <2>2. CASE r # q
    BY <1>2, <1>3, <2>1, <2>2 DEF NoRequestLost
  <2>3. CASE r = q
    BY <1>1, <1>2, <1>3, <2>1, <2>3
  <2> QED
    BY <2>2, <2>3
<1>7. MethodInv'
  BY DEF MethodInv
<1> QED
  BY <1>4, <1>5, <1>6, <1>7

\* An error of MethodNotFound or InvalidParams, which a notification is spared.
LEMMA InvError ==
  ASSUME IInv, TypeOK', NEW q \in Reqs, NEW l \in Lines, Receive(q, l), WellFormed(l),
         NEW code \in {"method_not_found", "invalid_params"}, RespondError(q, l, code),
         UNCHANGED <<loaded, methods, contexts, fault, called>>
  PROVE  IInv'
<1> DEFINE x == [code |-> code, id |-> l.id, result |-> None]
<1>1. x.code # "result"
  OBVIOUS
<1>2. CASE l.id # None
  <2>1. responses' = [responses EXCEPT ![q] = Append(@, x)]
    BY <1>2 DEF RespondError, Respond, IsNotification
  <2> HIDE DEF x
  <2> QED
    BY <1>1, <1>2, <2>1, InvAnswer DEF Receive
<1>3. CASE l.id = None
  <2>1. responses' = responses
    BY <1>3 DEF RespondError, IsNotification
  <2> HIDE DEF x
  <2> QED
    BY <1>1, <1>3, <2>1, InvAnswer DEF Receive
<1> QED
  BY <1>2, <1>3

LEMMA InvCallMethod ==
  ASSUME IInv, TypeOK', NEW q \in Reqs, NEW l \in Lines, NEW c \in Contexts, CallMethod(q, l, c)
  PROVE  IInv'
<1> USE DEF IInv
<1>1. called[q] = None /\ responses[q] = <<>> /\ received[q] = None
  BY DEF RequestInv, TypeOK, CallMethod, Receive
<1> DEFINE method == methods[l.method]
<1>2. /\ method \in Method /\ method.owner \in loaded
      /\ WellFormed(l) /\ ValidateArguments(method.types, l.params)
  BY CallableMethod DEF CallMethod, Callable, MethodInv
<1>3. /\ received'[q] = l /\ l # None /\ called'[q] = [context |-> c, types |-> method.types]
      /\ called'[q] # None
      /\ \A r \in Reqs \ {q} : received'[r] = received[r] /\ called'[r] = called[r]
  BY <1>2 DEF CallMethod, Receive, TypeOK, Called, Method
<1>4. /\ contexts'[c] = [st |-> "live", owner |-> method.owner, req |-> q, retval |-> None]
      /\ \A d \in Contexts \ {c} : contexts'[d] = contexts[d]
      /\ contexts[c].st = "unused"
  BY DEF CallMethod, NewContext, TypeOK
<1>5. UNCHANGED <<loaded, methods, responses, fault>>
  BY DEF CallMethod
<1>6. ASSUME NEW d \in Contexts PROVE ContextInv(d)'
  <2>1. CASE d = c
    BY <1>1, <1>2, <1>3, <1>4, <1>5, <2>1 DEF ContextInv
  <2>2. CASE d # c
    <3>1. contexts[d].st # "unused" => contexts[d].req \in Reqs \ {q}
      BY <1>1 DEF ContextInv, TypeOK, Context, Unused
    <3> QED
      BY <1>3, <1>4, <1>5, <2>2, <3>1 DEF ContextInv
  <2> QED
    BY <2>1, <2>2
<1>7. ASSUME NEW r \in Reqs PROVE RequestInv(r)'
  <2>1. CASE r = q
    BY <1>1, <1>2, <1>3, <1>4, <1>5, <2>1 DEF RequestInv
  <2>2. CASE r # q
    <3>1. called[r] # None => called[r].context \in Contexts \ {c}
      BY <1>4 DEF RequestInv, TypeOK, Called
    <3> QED
      BY <1>3, <1>4, <1>5, <2>2, <3>1 DEF RequestInv
  <2> QED
    BY <2>1, <2>2
<1>8. NoRequestLost'
  <2>1. \A r \in Reqs \ {q} : called[r] # None => called[r].context \in Contexts \ {c}
    BY <1>4 DEF RequestInv, TypeOK, Called
  <2> QED
    BY <1>1, <1>3, <1>4, <1>5, <2>1 DEF NoRequestLost
<1>9. MethodInv'
  BY <1>5 DEF MethodInv
<1> QED
  BY <1>6, <1>7, <1>8, <1>9

\* A context other than c is not that of the request c was made for.
LEMMA OtherContexts ==
  ASSUME IInv, NEW c \in Contexts, contexts[c].st = "live"
  PROVE  /\ contexts[c].req \in Reqs /\ called[contexts[c].req].context = c
         /\ called[contexts[c].req] # None /\ received[contexts[c].req] # None
         /\ responses[contexts[c].req] = <<>>
         /\ \A r \in Reqs \ {contexts[c].req} :
              called[r] # None => called[r].context \in Contexts \ {c}
<1>1. contexts[c].req \in Reqs
  BY ContextUpdates DEF IInv, TypeOK
<1>2. \A r \in Reqs : called[r] # None => called[r].context \in Contexts
  BY DEF IInv, TypeOK, Called
<1> QED
  BY <1>1, <1>2 DEF IInv, ContextInv, RequestInv

\* A context that a plugin gives another value or closes, but not as done.
LEMMA InvContext ==
  ASSUME IInv, TypeOK', NEW c \in Contexts, contexts[c].st = "live",
         contexts'[c].st \in {"live", "closed"}, contexts'[c].owner = contexts[c].owner,
         contexts'[c].req = contexts[c].req,
         \A d \in Contexts \ {c} : contexts'[d] = contexts[d],
         UNCHANGED <<loaded, methods, fault, received, called, responses>>
  PROVE  IInv'
<1> USE DEF IInv
<1>1. ASSUME NEW d \in Contexts PROVE ContextInv(d)'
  BY DEF ContextInv
<1>2. ASSUME NEW r \in Reqs PROVE RequestInv(r)'
  <2>1. CASE r = contexts[c].req
    BY <2>1, OtherContexts DEF RequestInv
  <2>2. CASE r # contexts[c].req
    BY <2>2, OtherContexts DEF RequestInv
  <2> QED
    BY <2>1, <2>2
<1>3. NoRequestLost'
  BY OtherContexts DEF NoRequestLost
<1>4. MethodInv'
  BY DEF MethodInv
<1> QED
  BY <1>1, <1>2, <1>3, <1>4

\* SetReturn changes the context's value and CloseHandle its state, no more.
LEMMA LiveRecord ==
  ASSUME TypeOK, NEW c \in Contexts, contexts[c].st = "live"
  PROVE  contexts[c] \in [st: {"live", "done", "closed"}, owner: Plugins, req: Reqs,
                          retval: Values \cup {None}]
BY DEF TypeOK, Context, Unused

LEMMA InvDone ==
  ASSUME IInv, TypeOK', NEW p \in Plugins, NEW c \in Contexts, Done(p, c) PROVE IInv'
<1> USE DEF IInv
<1> DEFINE q == contexts[c].req
<1> DEFINE x == [code |-> "result", id |-> received[q].id, result |-> contexts[c].retval]
<1>1. contexts[c].st = "live"
  BY DEF Done, ReadHandle
<1>2. /\ q \in Reqs /\ called[q].context = c /\ called[q] # None /\ received[q] # None
      /\ responses[q] = <<>>
      /\ \A r \in Reqs \ {q} : called[r] # None => called[r].context \in Contexts \ {c}
  BY <1>1, OtherContexts
<1>3. /\ contexts'[c].st = "done" /\ contexts'[c].owner = contexts[c].owner
      /\ contexts'[c].req = q /\ contexts'[c].retval = contexts[c].retval
      /\ \A d \in Contexts \ {c} : contexts'[d] = contexts[d]
  BY DEF Done, FreeContext, TypeOK
<1>4. /\ \/ received[q].id = None /\ responses'[q] = <<>>
         \/ received[q].id # None /\ responses'[q] = <<x>>
      /\ \A r \in Reqs \ {q} : responses'[r] = responses[r]
  BY <1>2 DEF Done, Finish, Respond, IsNotification, TypeOK
<1>5. UNCHANGED <<loaded, methods, fault, received, called>>
  BY DEF Done
<1>6. ASSUME NEW d \in Contexts PROVE ContextInv(d)'
  <2>1. CASE d = c
    BY <1>2, <1>3, <1>5, <2>1 DEF ContextInv
  <2>2. CASE d # c
    <3>1. contexts[d].st = "live" => contexts[d].req \in Reqs \ {q}
      BY <1>2, <2>2, OtherContexts
    <3> QED
      BY <1>3, <1>4, <1>5, <2>2, <3>1 DEF ContextInv
  <2> QED
    BY <2>1, <2>2
<1>7. ASSUME NEW r \in Reqs PROVE RequestInv(r)'
  <2>1. CASE r # q
    BY <1>2, <1>3, <1>4, <1>5, <2>1 DEF RequestInv
  <2>2. CASE r = q /\ responses'[q] = <<>>
    BY <1>2, <1>3, <1>5, <2>2 DEF RequestInv
  <2>3. CASE r = q /\ received[q].id # None /\ responses'[q] = <<x>>
    <3>1. /\ responses'[r] # <<>> /\ Len(responses'[r]) = 1
          /\ \A k \in DOMAIN responses'[r] : responses'[r][k] = x
      BY <2>3
    <3>2. /\ WellFormed(received[r]) /\ ValidateArguments(called[r].types, received[r].params)
          /\ received'[r] = received[r] /\ called'[r] = called[r]
      BY <1>2, <1>5, <2>3 DEF RequestInv
    <3>3. /\ called'[r] # None /\ received'[r] # None /\ received'[r].id # None
          /\ contexts'[called'[r].context].st = "done" /\ contexts'[called'[r].context].req = r
          /\ contexts'[called'[r].context].retval = contexts[c].retval
      BY <1>2, <1>3, <2>3, <3>2
    <3>4. \A k \in DOMAIN responses'[r] :
            /\ responses'[r][k].result = contexts'[called'[r].context].retval
            /\ responses'[r][k].id = received'[r].id
      <4>1. x.result = contexts[c].retval /\ x.id = received[r].id
        BY <2>3
      <4> HIDE DEF x
      <4> QED
        BY <3>1, <3>2, <3>3, <4>1
    <3> HIDE DEF q, x
    <3> QED
      BY <3>1, <3>2, <3>3, <3>4 DEF RequestInv
  <2> QED
    BY <1>4, <2>1, <2>2, <2>3
<1>8. NoRequestLost'
  BY <1>2, <1>3, <1>4, <1>5 DEF NoRequestLost
<1>9. MethodInv'
  BY <1>5 DEF MethodInv
<1> QED
  BY <1>6, <1>7, <1>8, <1>9

LEMMA InvUnload ==
  ASSUME IInv, TypeOK', NEW p \in Plugins, UnloadPlugin(p) PROVE IInv'
<1> USE DEF IInv
<1>1. \A c \in Contexts :
        /\ contexts'[c].owner = contexts[c].owner /\ contexts'[c].req = contexts[c].req
        /\ contexts'[c].retval = contexts[c].retval
        /\ \/ contexts'[c].st = contexts[c].st /\ (contexts[c].st = "live" => contexts[c].owner # p)
           \/ contexts[c].st = "live" /\ contexts'[c].st = "closed"
  BY DEF UnloadPlugin, TypeOK, Context, Unused
<1>2. loaded' = loaded \ {p} /\ UNCHANGED <<fault, received, called, responses>>
  BY DEF UnloadPlugin
<1>3. MethodInv'
  BY DEF UnloadPlugin, MethodInv, TypeOK, Method
<1>4. ASSUME NEW c \in Contexts PROVE ContextInv(c)'
  <2> SUFFICES ASSUME contexts'[c].st # "unused" PROVE ContextInv(c)'
    BY DEF ContextInv
  <2>1. contexts[c].st # "unused" /\ ContextInv(c)
    BY <1>1
  <2>2. /\ received'[contexts'[c].req] # None /\ called'[contexts'[c].req] # None
        /\ called'[contexts'[c].req].context = c
    BY <1>1, <1>2, <2>1 DEF ContextInv
  <2>3. contexts'[c].st = "live" =>
          responses'[contexts'[c].req] = <<>> /\ contexts'[c].owner \in loaded'
    BY <1>1, <1>2, <2>1 DEF ContextInv
  <2> QED
    BY <2>2, <2>3 DEF ContextInv
<1>5. \A r \in Reqs : called[r] # None => called[r].context \in Contexts
  BY DEF TypeOK, Called
<1>6. ASSUME NEW r \in Reqs PROVE RequestInv(r)'
  BY <1>1, <1>2, <1>5 DEF RequestInv
<1>7. NoRequestLost'
  BY <1>1, <1>2, <1>5 DEF NoRequestLost
<1> QED
  BY <1>3, <1>4, <1>6, <1>7

LEMMA InvNext == ASSUME IInv, [Next]_vars PROVE IInv'
<1>1. TypeOK'
  BY TypeNext DEF IInv
<1> USE <1>1
<1>2. ASSUME NEW q \in Reqs, NEW l \in Lines, RejectRequest(q, l) PROVE IInv'
  <2> DEFINE x == [code |-> IF l.body = "garbage" THEN "parse_error" ELSE "invalid_request",
                   id |-> None, result |-> None]
  <2>1. /\ received[q] = None /\ received' = [received EXCEPT ![q] = l] /\ ~WellFormed(l)
        /\ responses' = [responses EXCEPT ![q] = Append(@, x)]
        /\ UNCHANGED <<loaded, methods, contexts, fault, called>>
    BY <1>2 DEF RejectRequest, Receive, Respond
  <2>2. x.code # "result"
    OBVIOUS
  <2> HIDE DEF x
  <2> QED
    BY <2>1, <2>2, InvAnswer
<1>3. ASSUME NEW q \in Reqs, NEW l \in Lines, IgnoreArray(q, l) PROVE IInv'
  <2>1. [code |-> "none"].code # "result"
    OBVIOUS
  <2> QED
    BY <1>3, <2>1, InvAnswer DEF IgnoreArray, Receive, WellFormed
<1>4. ASSUME NEW q \in Reqs, NEW l \in Lines, MethodNotFound(q, l) PROVE IInv'
  BY <1>4, InvError DEF MethodNotFound
<1>5. ASSUME NEW q \in Reqs, NEW l \in Lines, InvalidParams(q, l) PROVE IInv'
  BY <1>5, InvError DEF InvalidParams
<1>6. ASSUME NEW q \in Reqs, NEW l \in Lines, NEW c \in Contexts, CallMethod(q, l, c) PROVE IInv'
  BY <1>6, InvCallMethod
<1>7. ASSUME NEW q \in Reqs, NEW l \in Lines, CallBadMethod(q, l) PROVE IInv'
  <2>1. [code |-> "none"].code # "result" /\ fault' # "none"
    BY <1>7 DEF CallBadMethod
  <2> QED
    BY <1>7, <2>1, InvAnswer DEF CallBadMethod, Receive
<1>8. CASE MethodReturns
  BY <1>8, InvSame DEF MethodReturns, IInv, MethodInv
<1>9. ASSUME NEW p \in Plugins, NEW c \in Contexts, NEW v \in Values, SetReturn(p, c, v)
      PROVE  IInv'
  BY <1>9, InvContext, LiveRecord DEF SetReturn, ReadHandle, IInv, TypeOK
<1>10. ASSUME NEW p \in Plugins, NEW c \in Contexts, Done(p, c) PROVE IInv'
  BY <1>10, InvDone
<1>11. ASSUME NEW p \in Plugins, NEW c \in Contexts, CloseHandle(p, c) PROVE IInv'
  BY <1>11, InvContext, LiveRecord DEF CloseHandle, ReadHandle, IInv, TypeOK
<1>12. ASSUME NEW p \in Plugins, NEW m \in MethodNames, NEW t \in Types,
              NEW f \in {"valid", "null"}, RPCRegisterMethod(p, m, t, f)
       PROVE  IInv'
  <2>1. MethodInv'
    BY <1>12 DEF RPCRegisterMethod, RegisterRPCMethod, NewMethod, IInv, MethodInv, TypeOK
  <2> QED
    BY <1>12, <2>1, InvSame DEF RPCRegisterMethod
<1>13. ASSUME NEW p \in Plugins, UnloadPlugin(p) PROVE IInv'
  BY <1>13, InvUnload
<1>14. ASSUME NEW p \in Plugins, LoadPlugin(p) PROVE IInv'
  BY <1>14 DEF LoadPlugin, IInv, MethodInv, ContextInv, RequestInv, NoRequestLost
<1>15. CASE UNCHANGED vars
  BY <1>15, InvSame DEF vars, IInv, MethodInv
<1> QED
  BY <1>2, <1>3, <1>4, <1>5, <1>6, <1>7, <1>8, <1>9, <1>10, <1>11, <1>12, <1>13, <1>14, <1>15
     DEF Next, HandleRequest, PluginStep, ContextNative

LEMMA InvInit == ASSUME Init PROVE IInv
BY TypeInit DEF Init, IInv, MethodInv, ContextInv, RequestInv, NoRequestLost, Unused

-----------------------------------------------------------------------------
(* The theorems. *)

\* Requests, contexts and responses are in step for ever.
THEOREM Invariant == Spec => []IInv
<1>1. Init => IInv
  BY InvInit
<1>2. IInv /\ [Next]_vars => IInv'
  BY InvNext
<1> QED
  BY <1>1, <1>2, PTL DEF Spec

\* Type correctness of the responder.
THEOREM TypeCorrect == Spec => []TypeOK
<1>1. IInv => TypeOK
  BY DEF IInv
<1> QED
  BY <1>1, Invariant, PTL

\* HandleRequest: no callback runs for a line that is unsigned, forged or old, or
\* with parameters its registration does not accept.
THEOREM CalledOnlyIfAuthorisedAlways == Spec => []CalledOnlyIfAuthorised
<1>1. IInv => CalledOnlyIfAuthorised
  BY DEF IInv, RequestInv, CalledOnlyIfAuthorised, WellFormed, ValidateArguments
<1> QED
  BY <1>1, Invariant, PTL

\* A request gets at most one response and a notification none, however late,
\* often or never Done is called and whatever is registered or unloaded.
THEOREM RespondedOnceAlways == Spec => []RespondedOnce
<1>1. ASSUME IInv PROVE RespondedOnce
  <2> SUFFICES ASSUME NEW q \in Reqs, received[q] # None
               PROVE  Len(responses[q]) <=
                        (IF WellFormed(received[q]) /\ received[q].id = None THEN 0 ELSE 1)
    BY DEF RespondedOnce
  <2>1. RequestInv(q) /\ Len(<<>>) = 0
    BY <1>1 DEF IInv
  <2> QED
    BY <2>1 DEF RequestInv
<1> QED
  BY <1>1, Invariant, PTL

\* The extension loses no well-formed request.
THEOREM NoRequestLostAlways == Spec => []NoRequestLost
<1>1. IInv => NoRequestLost
  BY DEF IInv
<1> QED
  BY <1>1, Invariant, PTL

\* A result is that of its own context, with its own request's id.
THEOREM ResultFromItsContextAlways == Spec => []ResultFromItsContext
<1>1. ASSUME IInv PROVE ResultFromItsContext
  <2> SUFFICES ASSUME NEW q \in Reqs, NEW k \in DOMAIN responses[q],
                      responses[q][k].code = "result"
               PROVE  /\ called[q] # None
                      /\ contexts[called[q].context].req = q
                      /\ contexts[called[q].context].st = "done"
                      /\ responses[q][k].result = contexts[called[q].context].retval
                      /\ responses[q][k].id = received[q].id
    BY DEF ResultFromItsContext
  <2>1. RequestInv(q) /\ responses[q] # <<>>
    BY <1>1 DEF IInv
  <2> QED
    BY <2>1 DEF RequestInv
<1> QED
  BY <1>1, Invariant, PTL

\* The request behind a handle that can be used still waits, and the handle's
\* owner is loaded.
THEOREM LiveContextWaitsAlways == Spec => []LiveContextWaits
<1>1. IInv => LiveContextWaits
  BY DEF IInv, ContextInv, LiveContextWaits
<1> QED
  BY <1>1, Invariant, PTL
=============================================================================
