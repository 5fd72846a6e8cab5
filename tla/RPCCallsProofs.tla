--------------------------- MODULE RPCCallsProofs ---------------------------
(***************************************************************************)
(* Proofs about RPCCalls for all plugins, handles, ids, servers and sizes  *)
(* of reply bodies: the inductive invariant IInv, and from it the type     *)
(* invariant and the safety properties the run "calls" checks.             *)
(***************************************************************************)
EXTENDS RPCCalls, TLAPS

USE CallConstants, RegistryConstants DEF Live, Waiting, ReadHandle

-----------------------------------------------------------------------------
(* Types. *)

\* Assigning a field of an RPCCall object leaves a table of RPCCall objects.
LEMMA CallUpdates ==
  ASSUME calls \in [Handles -> Call], NEW h \in Handles
  PROVE  /\ \A s \in {"live", "freed", "closed"} :
              [calls EXCEPT ![h].st = s] \in [Handles -> Call]
         /\ \A p \in Plugins :
              [calls EXCEPT ![h].st = "live", ![h].owner = p] \in [Handles -> Call]
         /\ \A c \in Callbacks : [calls EXCEPT ![h].callback = c] \in [Handles -> Call]
         /\ \A m \in Methods : [calls EXCEPT ![h].method = m] \in [Handles -> Call]
         /\ \A a \in Params : [calls EXCEPT ![h].params = a] \in [Handles -> Call]
<1>1. ASSUME NEW s \in {"live", "freed", "closed"}
      PROVE  [calls EXCEPT ![h].st = s] \in [Handles -> Call]
  BY DEF Call
<1>2. ASSUME NEW p \in Plugins
      PROVE  [calls EXCEPT ![h].st = "live", ![h].owner = p] \in [Handles -> Call]
  <2> DEFINE live == [calls EXCEPT ![h].st = "live"]
  <2>1. live \in [Handles -> Call]
    BY <1>1
  <2>2. [calls EXCEPT ![h].st = "live", ![h].owner = p] = [live EXCEPT ![h].owner = p]
    OBVIOUS
  <2> HIDE DEF live
  <2>3. [live EXCEPT ![h].owner = p] \in [Handles -> Call]
    BY <2>1 DEF Call
  <2> QED
    BY <2>2, <2>3
<1>3. ASSUME NEW c \in Callbacks PROVE [calls EXCEPT ![h].callback = c] \in [Handles -> Call]
  BY DEF Call
<1>4. ASSUME NEW m \in Methods PROVE [calls EXCEPT ![h].method = m] \in [Handles -> Call]
  BY DEF Call
<1>5. ASSUME NEW a \in Params PROVE [calls EXCEPT ![h].params = a] \in [Handles -> Call]
  BY DEF Call
<1> QED
  BY <1>1, <1>2, <1>3, <1>4, <1>5

LEMMA TypeInit == ASSUME Init PROVE TypeOK
BY DEF Init, TypeOK, RegistryInit, RegistryTypeOK, Call

LEMMA TypeNext ==
  ASSUME TypeOK, \A i \in Ids : EntryInv(i), [Next]_vars
  PROVE  TypeOK'
<1> USE DEF TypeOK, RegistryTypeOK
<1>1. ASSUME NEW p \in Plugins, NEW h \in Handles, CreateRPCCall(p, h) PROVE TypeOK'
  <2>1. calls' \in [Handles -> Call]
    BY <1>1, CallUpdates DEF CreateRPCCall
  <2> QED
    BY <1>1, <2>1 DEF CreateRPCCall, registryVars
<1>2. ASSUME NEW p \in Plugins, NEW h \in Handles, NEW m \in Methods, SetMethod(p, h, m)
      PROVE TypeOK'
  <2>1. calls' \in [Handles -> Call]
    BY <1>2, CallUpdates DEF SetMethod, MethodSet
  <2> QED
    BY <1>2, <2>1 DEF SetMethod, registryVars
<1>3. ASSUME NEW p \in Plugins, NEW h \in Handles, NEW a \in Params, SetParams(p, h, a)
      PROVE TypeOK'
  <2>1. calls' \in [Handles -> Call]
    BY <1>3, CallUpdates DEF SetParams, ArgsSet
  <2> QED
    BY <1>3, <2>1 DEF SetParams, registryVars
<1>4. ASSUME NEW p \in Plugins, NEW h \in Handles, NEW n \in Names, NEW c \in Callbacks,
             NEW i \in Ids, Send(p, h, n, c, i)
      PROVE TypeOK'
  <2>1. calls' \in [Handles -> Call]
    BY <1>4, CallUpdates DEF Send, SetCallback
  <2>2. requests' \in [Ids -> Request \cup {None}]
    <3>1. servers[n] \in Objs /\ calls[h] \in Call
      BY <1>4 DEF Send, Known
    <3>2. [to |-> servers[n], call |-> h, callback |-> c, method |-> calls[h].method,
           params |-> calls[h].params] \in Request
      BY <3>1 DEF Call, Request
    <3> QED
      BY <1>4, <3>2 DEF Send
  <2> QED
    BY <1>4, <2>1, <2>2 DEF Send, NoteUse, registryVars
<1>5. ASSUME NEW p \in Plugins, NEW h \in Handles, NEW n \in Names, NEW c \in Callbacks,
             SendUnknown(p, h, n, c)
      PROVE TypeOK'
  <2>1. calls' \in [Handles -> Call]
    BY <1>5, CallUpdates DEF SendUnknown, SetCallback
  <2> QED
    BY <1>5, <2>1 DEF SendUnknown, NoteUse, AfterLookup
<1>6. ASSUME NEW h \in Handles, NEW n \in Names, Known(n) PROVE NoticeTo(h, n) \in Notice
  <2>1. servers[n] \in Objs /\ calls[h] \in Call
    BY <1>6 DEF Known
  <2> QED
    BY <2>1 DEF Call, Notice, NoticeTo
<1>7. ASSUME NEW p \in Plugins, NEW h \in Handles, NEW n \in Names, Notify(p, h, n)
      PROVE TypeOK'
  <2>1. calls' \in [Handles -> Call]
    BY <1>7, CallUpdates DEF Notify, FreeHandle
  <2>2. notices' \in SUBSET Notice
    BY <1>6, <1>7 DEF Notify
  <2> QED
    BY <1>7, <2>1, <2>2 DEF Notify, NoteUse, AfterLookup
<1>8. ASSUME NEW p \in Plugins, NEW h \in Handles, Broadcast(p, h) PROVE TypeOK'
  <2>1. calls' \in [Handles -> Call]
    BY <1>8, CallUpdates DEF Broadcast, FreeHandle
  <2>2. \A n \in RPCGetServers : n \in Names /\ Known(n)
    BY <1>8 DEF Broadcast, RPCGetServers, Known
  <2>3. notices' \in SUBSET Notice
    BY <1>6, <1>8, <2>2 DEF Broadcast, BroadcastTo
  <2> QED
    BY <1>8, <2>1, <2>3 DEF Broadcast, NoteUse, registryVars
<1>9. ASSUME NEW p \in Plugins, NEW h \in Handles, BroadcastNull(p, h) PROVE TypeOK'
  <2>1. notices' \in SUBSET Notice
    BY <1>6, <1>9 DEF BroadcastNull, BroadcastTo
  <2> QED
    BY <1>9, <2>1 DEF BroadcastNull, registryVars
<1>10. ASSUME NEW p \in Plugins, NEW h \in Handles, CloseHandle(p, h) PROVE TypeOK'
  <2>1. calls' \in [Handles -> Call]
    BY <1>10, CallUpdates DEF CloseHandle
  <2> QED
    BY <1>10, <2>1 DEF CloseHandle, registryVars
<1>11. ASSUME NEW n \in Names, ServerNative(n) PROVE TypeOK'
  <2>1. AfterLookup(n) \in [Names -> Objs \cup {Absent, NullPtr}]
    BY DEF AfterLookup
  <2>2. CASE \E s \in Objs : RPCAddServer(n, s)
    BY <1>11, <2>2 DEF ServerNative, RPCAddServer, RegisterService, RegisterServer, callVars
  <2>3. CASE RPCRemoveServer(n)
    BY <1>11, <2>1, <2>3 DEF ServerNative, RPCRemoveServer, callVars
  <2>4. CASE LookUpServer(n)
    BY <1>11, <2>1, <2>4 DEF ServerNative, LookUpServer, callVars
  <2> QED
    BY <1>11, <2>2, <2>3, <2>4 DEF ServerNative
<1>12. ASSUME NEW p \in Plugins, UnloadPlugin(p) PROVE TypeOK'
  <2>1. calls' \in [Handles -> Call]
    <3>1. ASSUME NEW r \in Call PROVE [r EXCEPT !.st = "closed"] \in Call
      BY DEF Call
    <3>2. \A h \in Handles : calls[h] \in Call
      OBVIOUS
    <3> QED
      BY <1>12, <3>1, <3>2 DEF UnloadPlugin
  <2> QED
    BY <1>12, <2>1 DEF UnloadPlugin, registryVars
<1>13. ASSUME NEW k \in 1..MaxBatch, NEW b \in [1..k -> PossibleReply], HandleReply(b)
       PROVE TypeOK'
  BY <1>13 DEF HandleReply, PossibleReply, registryVars
<1>14. ASSUME IgnoreReply PROVE TypeOK'
  BY <1>14 DEF IgnoreReply, registryVars
<1>15. ASSUME ScalarReply PROVE TypeOK'
  BY <1>15 DEF ScalarReply, registryVars
<1>16. ASSUME NEW i \in Ids, RunCallback(i) PROVE TypeOK'
  <2>1. calls[outstanding[i]].callback \in Callbacks
    <3>1. outstanding[i] \in Handles /\ calls[outstanding[i]].callback # None
      BY <1>16 DEF RunCallback, Accepted, EntryInv
    <3>2. calls[outstanding[i]] \in Call
      BY <3>1
    <3> QED
      BY <3>1, <3>2 DEF Call
  <2>2. invoked' \in [Ids -> Seq(Callbacks)]
    BY <1>16, <2>1 DEF RunCallback
  <2> QED
    BY <1>16, <2>2 DEF RunCallback, registryVars
<1>17. ASSUME NEW i \in Ids, CallbackReturns(i) PROVE TypeOK'
  <2>1. calls' \in [Handles -> Call]
    BY <1>17, CallUpdates DEF CallbackReturns, FreeHandle
  <2> QED
    BY <1>17, <2>1 DEF CallbackReturns, registryVars
<1>18. ASSUME NEW i \in Ids, UseAfterFree(i) PROVE TypeOK'
  BY <1>18 DEF UseAfterFree, registryVars
<1>19. CASE UNCHANGED vars
  BY <1>19 DEF vars, callVars
<1> QED
  BY <1>1, <1>2, <1>3, <1>4, <1>5, <1>7, <1>8, <1>9, <1>10, <1>11, <1>12, <1>13, <1>14,
     <1>15, <1>16, <1>17, <1>18, <1>19
  DEF Next, PluginStep, ReplyStep, CallNative

-----------------------------------------------------------------------------
(* The inductive invariant. *)

LEMMA InvInit == ASSUME Init PROVE IInv
<1>1. TypeOK
  BY TypeInit
<1> QED
  BY <1>1 DEF Init, IInv, TableInv, EntryInv, AnswerInv, SharedOnlyIfReused, RunningIsEntry,
              NoUseAfterFreeIfUsedOnce

\* What the natives other than Send and what SourceMod do to the objects: one
\* that is gone stays gone, and the object of a waiting call is freed, or gets
\* another callback, only with its use being remembered.
Gentle(h) == calls[h].st # "unused" =>
  /\ \/ calls'[h].st = calls[h].st
     \/ calls[h].st = "live" /\ calls'[h].st = "closed"
     \/ calls[h].st = "live" /\ calls'[h].st = "freed" /\ (h \in reused' \/ ~Waiting(h))
  /\ \/ calls'[h].callback = calls[h].callback
     \/ calls'[h].callback # None /\ (h \in reused' \/ ~Waiting(h))

\* A step that leaves the table and the history alone and is gentle to every
\* object preserves the invariant of the table.
LEMMA GentleStep ==
  ASSUME TypeOK, TypeOK', TableInv, UNCHANGED <<outstanding, requests, invoked, running>>,
         reused \subseteq reused', \A h \in Handles : Gentle(h)
  PROVE  TableInv'
<1>1. ASSUME NEW i \in Ids PROVE EntryInv(i)'
  <2>1. SUFFICES ASSUME outstanding[i] # None PROVE EntryInv(i)'
    BY DEF EntryInv
  <2>2. outstanding[i] \in Handles /\ Waiting(outstanding[i])
    BY <2>1 DEF TypeOK
  <2>3. EntryInv(i) /\ Gentle(outstanding[i])
    BY <2>2 DEF TableInv
  <2> QED
    BY <2>1, <2>2, <2>3 DEF EntryInv, Gentle
<1>2. ASSUME NEW i \in Ids PROVE AnswerInv(i)'
  <2>1. AnswerInv(i)
    BY DEF TableInv
  <2>2. CASE invoked[i] = <<>>
    BY <2>1, <2>2 DEF AnswerInv
  <2>3. CASE invoked[i] # <<>>
    <3>1. requests[i] # None /\ requests[i].call \in Handles
      BY <2>1, <2>3 DEF AnswerInv, TypeOK, Request
    <3>2. Gentle(requests[i].call)
      BY <3>1
    <3> QED
      BY <2>1, <2>3, <3>1, <3>2 DEF AnswerInv, Gentle
  <2> QED
    BY <2>2, <2>3
<1>3. SharedOnlyIfReused' /\ RunningIsEntry'
  BY DEF TableInv, SharedOnlyIfReused, RunningIsEntry
<1> QED
  BY <1>1, <1>2, <1>3 DEF TableInv

\* Every action but the three below, and stuttering, is gentle.
LEMMA TableGentle ==
  ASSUME TypeOK, TypeOK', TableInv, [Next]_vars,
         ~ \E p \in Plugins, h \in Handles, n \in Names, c \in Callbacks, i \in Ids :
             Send(p, h, n, c, i),
         ~ \E i \in Ids : RunCallback(i) \/ CallbackReturns(i)
  PROVE  TableInv'
<1> DEFINE Quiet == /\ UNCHANGED <<outstanding, requests, invoked, running>>
                    /\ reused \subseteq reused'
                    /\ \A h \in Handles : Gentle(h)
<1>1. SUFFICES Quiet
  BY GentleStep
<1>2. ASSUME UNCHANGED <<calls, outstanding, requests, invoked, running, reused>> PROVE Quiet
  BY <1>2 DEF Gentle
<1>3. ASSUME NEW p \in Plugins, NEW h \in Handles, CreateRPCCall(p, h) PROVE Quiet
  BY <1>3 DEF CreateRPCCall, Gentle, TypeOK
<1>4. ASSUME NEW p \in Plugins, NEW h \in Handles, NEW m \in Methods, SetMethod(p, h, m)
      PROVE Quiet
  BY <1>4 DEF SetMethod, MethodSet, Gentle, TypeOK, Call
<1>5. ASSUME NEW p \in Plugins, NEW h \in Handles, NEW a \in Params, SetParams(p, h, a)
      PROVE Quiet
  BY <1>5 DEF SetParams, ArgsSet, Gentle, TypeOK, Call
<1>6. ASSUME NEW p \in Plugins, NEW h \in Handles, NEW n \in Names, NEW c \in Callbacks,
             SendUnknown(p, h, n, c)
      PROVE Quiet
  BY <1>6 DEF SendUnknown, SetCallback, NoteUse, Gentle, TypeOK, Call
<1>7. ASSUME NEW p \in Plugins, NEW h \in Handles, NEW n \in Names, Notify(p, h, n)
      PROVE Quiet
  BY <1>7 DEF Notify, FreeHandle, NoteUse, Gentle, TypeOK, Call
<1>8. ASSUME NEW p \in Plugins, NEW h \in Handles, Broadcast(p, h) PROVE Quiet
  BY <1>8 DEF Broadcast, FreeHandle, NoteUse, Gentle, TypeOK, Call
<1>9. ASSUME NEW p \in Plugins, NEW h \in Handles, BroadcastNull(p, h) PROVE Quiet
  BY <1>2, <1>9 DEF BroadcastNull
<1>10. ASSUME NEW p \in Plugins, NEW h \in Handles, CloseHandle(p, h) PROVE Quiet
  BY <1>10 DEF CloseHandle, Gentle, TypeOK, Call
<1>11. ASSUME NEW n \in Names, ServerNative(n) PROVE Quiet
  BY <1>2, <1>11 DEF ServerNative, callVars
<1>12. ASSUME NEW p \in Plugins, UnloadPlugin(p) PROVE Quiet
  BY <1>12 DEF UnloadPlugin, Gentle, TypeOK, Call
<1>13. ASSUME NEW k \in 1..MaxBatch, NEW b \in [1..k -> PossibleReply], HandleReply(b)
       PROVE Quiet
  BY <1>2, <1>13 DEF HandleReply
<1>14. CASE IgnoreReply
  BY <1>2, <1>14 DEF IgnoreReply
<1>15. CASE ScalarReply
  BY <1>2, <1>15 DEF ScalarReply
<1>16. ASSUME NEW i \in Ids, UseAfterFree(i) PROVE Quiet
  BY <1>2, <1>16 DEF UseAfterFree
<1>17. CASE UNCHANGED vars
  BY <1>2, <1>17 DEF vars, callVars
<1> QED
  BY <1>3, <1>4, <1>5, <1>6, <1>7, <1>8, <1>9, <1>10, <1>11, <1>12, <1>13, <1>14, <1>15,
     <1>16, <1>17
  DEF Next, PluginStep, ReplyStep, CallNative

\* Send adds an entry under a new id; every other entry of its call is one of a
\* call that is now reused.
LEMMA TableSend ==
  ASSUME TypeOK, TypeOK', TableInv, NEW p \in Plugins, NEW h \in Handles, NEW n \in Names,
         NEW c \in Callbacks, NEW i \in Ids, Send(p, h, n, c, i)
  PROVE  TableInv'
<1>1. /\ calls' = [calls EXCEPT ![h].callback = c]
      /\ outstanding' = [outstanding EXCEPT ![i] = h]
      /\ requests'[i].call = h /\ requests'[i].callback = c /\ requests'[i] # None
      /\ \A j \in Ids \ {i} : requests'[j] = requests[j]
      /\ reused' = IF Waiting(h) THEN reused \cup {h} ELSE reused
      /\ invoked' = invoked /\ running' = running
      /\ calls[h].st = "live" /\ requests[i] = None
  <2>1. requests'[i] \in Request
    <3>1. servers[n] \in Objs /\ calls[h] \in Call
      BY DEF Send, Known, TypeOK, RegistryTypeOK
    <3>2. [to |-> servers[n], call |-> h, callback |-> c, method |-> calls[h].method,
           params |-> calls[h].params] \in Request
      BY <3>1 DEF Call, Request
    <3> QED
      BY <3>2 DEF Send, TypeOK
  <2>2. requests'[i] # None
    BY <2>1, NoRequest
  <2> QED
    BY <2>2 DEF Send, SetCallback, NoteUse, TypeOK
<1>2. \A g \in Handles : /\ calls'[g].st = calls[g].st
                         /\ g # h => calls'[g] = calls[g]
                         /\ calls'[h].callback = c /\ c # None
  BY <1>1 DEF TypeOK, Call
<1>3. outstanding[i] = None /\ invoked[i] = <<>>
  BY <1>1 DEF TableInv, EntryInv, AnswerInv
<1>4. ASSUME NEW j \in Ids PROVE EntryInv(j)'
  <2>1. CASE j = i
    BY <1>1, <1>2, <2>1 DEF EntryInv, TypeOK
  <2>2. CASE j # i /\ outstanding[j] = h
    <3>1. h \in reused'
      BY <1>1, <2>2
    <3> QED
      BY <1>1, <1>2, <2>2, <3>1 DEF EntryInv, TableInv, TypeOK
  <2>3. CASE j # i /\ outstanding[j] # h
    BY <1>1, <1>2, <2>3 DEF EntryInv, TableInv, TypeOK
  <2> QED
    BY <2>1, <2>2, <2>3
<1>5. ASSUME NEW j \in Ids PROVE AnswerInv(j)'
  <2>1. CASE j = i
    BY <1>1, <1>3, <2>1 DEF AnswerInv, TypeOK
  <2>2. CASE j # i
    <3>1. AnswerInv(j) /\ outstanding'[j] = outstanding[j] /\ requests'[j] = requests[j]
      BY <1>1, <2>2 DEF TableInv, TypeOK
    <3>2. invoked[j] # <<>> => requests[j].call \in Handles
      BY <3>1 DEF AnswerInv, TypeOK, Request
    <3> QED
      BY <1>1, <1>2, <3>1, <3>2 DEF AnswerInv
  <2> QED
    BY <2>1, <2>2
<1>6. SharedOnlyIfReused'
  BY <1>1 DEF SharedOnlyIfReused, TableInv, TypeOK
<1>7. RunningIsEntry'
  BY <1>1 DEF RunningIsEntry, TableInv, TypeOK
<1> QED
  BY <1>4, <1>5, <1>6, <1>7 DEF TableInv

\* A callback is entered for the first time: no callback is on the stack, so an
\* entry that had been answered would be gone.
LEMMA TableRunCallback ==
  ASSUME TypeOK, TypeOK', TableInv, NEW i \in Ids, RunCallback(i)
  PROVE  TableInv'
<1>1. /\ running = None /\ running' = i
      /\ UNCHANGED <<calls, outstanding, requests, reused>>
      /\ outstanding[i] \in Handles
      /\ invoked' = [invoked EXCEPT ![i] = Append(@, calls[outstanding[i]].callback)]
  BY DEF RunCallback, Accepted, TypeOK
<1>2. EntryInv(i) /\ AnswerInv(i)
  BY DEF TableInv
<1>3. invoked[i] = <<>>
  BY <1>1, <1>2 DEF AnswerInv
<1>4. invoked'[i] = <<calls[outstanding[i]].callback>>
  BY <1>1, <1>3 DEF TypeOK
<1>5. ASSUME NEW j \in Ids PROVE AnswerInv(j)'
  <2>1. CASE j = i
    BY <1>1, <1>2, <1>4, <2>1 DEF AnswerInv, EntryInv, TypeOK
  <2>2. CASE j # i
    <3>1. AnswerInv(j) /\ invoked'[j] = invoked[j]
      BY <1>1, <2>2 DEF TableInv, TypeOK
    <3> QED
      BY <1>1, <2>2, <3>1 DEF AnswerInv
  <2> QED
    BY <2>1, <2>2
<1>6. ASSUME NEW j \in Ids PROVE EntryInv(j)'
  <2>1. EntryInv(j)
    BY DEF TableInv
  <2> QED
    BY <1>1, <2>1 DEF EntryInv
<1>7. SharedOnlyIfReused'
  BY <1>1 DEF SharedOnlyIfReused, TableInv
<1>8. RunningIsEntry'
  <2>1. invoked'[i] # <<>>
    BY <1>4
  <2> QED
    BY <1>1, <2>1 DEF RunningIsEntry
<1> QED
  BY <1>5, <1>6, <1>7, <1>8 DEF TableInv

\* The callback is back: its entry goes, its call is freed, and any other entry
\* of that call is one of a reused call.
LEMMA TableCallbackReturns ==
  ASSUME TypeOK, TypeOK', TableInv, NEW i \in Ids, CallbackReturns(i)
  PROVE  TableInv'
<1>1. /\ running = i /\ running' = None
      /\ UNCHANGED <<requests, invoked, reused>>
      /\ outstanding' = [outstanding EXCEPT ![i] = None]
      /\ calls' = [calls EXCEPT ![outstanding[i]].st = "freed"]
  BY DEF CallbackReturns, FreeHandle
<1>2. /\ outstanding[i] \in Handles /\ invoked[i] # <<>>
      /\ requests[i] # None /\ requests[i].call = outstanding[i]
  BY <1>1 DEF TableInv, RunningIsEntry, EntryInv, TypeOK
<1>3. \A g \in Handles : /\ calls'[g].callback = calls[g].callback
                         /\ g # outstanding[i] => calls'[g] = calls[g]
                         /\ calls'[outstanding[i]].st = "freed"
  BY <1>1, <1>2 DEF TypeOK, Call
<1>4. ASSUME NEW j \in Ids PROVE EntryInv(j)'
  <2>1. CASE j = i
    BY <1>1, <2>1 DEF EntryInv, TypeOK
  <2>2. CASE j # i /\ outstanding[j] = outstanding[i]
    <3>1. outstanding[i] \in reused
      BY <1>2, <2>2 DEF TableInv, SharedOnlyIfReused
    <3> QED
      BY <1>1, <1>2, <1>3, <2>2, <3>1 DEF EntryInv, TableInv, TypeOK
  <2>3. CASE j # i /\ outstanding[j] # outstanding[i]
    BY <1>1, <1>3, <2>3 DEF EntryInv, TableInv, TypeOK
  <2> QED
    BY <2>1, <2>2, <2>3
<1>5. ASSUME NEW j \in Ids PROVE AnswerInv(j)'
  <2>1. AnswerInv(j)
    BY DEF TableInv
  <2>2. CASE j = i
    BY <1>1, <1>2, <1>3, <2>1, <2>2 DEF AnswerInv, TypeOK
  <2>3. CASE j # i
    <3>1. outstanding'[j] = outstanding[j] /\ running # j
      BY <1>1, <2>3 DEF TypeOK
    <3>2. invoked[j] # <<>> => requests[j] # None /\ requests[j].call \in Handles
      BY <2>1 DEF AnswerInv, TypeOK, Request
    <3>3. \A g \in Handles : calls[g].st \in {"freed", "closed"} =>
                               calls'[g].st \in {"freed", "closed"}
      BY <1>2, <1>3
    <3> QED
      BY <1>1, <2>1, <3>1, <3>2, <3>3 DEF AnswerInv
  <2> QED
    BY <2>2, <2>3
<1>6. SharedOnlyIfReused' /\ RunningIsEntry'
  BY <1>1 DEF SharedOnlyIfReused, RunningIsEntry, TableInv, TypeOK
<1> QED
  BY <1>4, <1>5, <1>6 DEF TableInv

\* Only UseAfterFree sets that fault, and the pointer it reads is an entry's:
\* a dangling one, so its call was closed or used again.
LEMMA FaultNext ==
  ASSUME TypeOK, TableInv, NoUseAfterFreeIfUsedOnce, [Next]_vars
  PROVE  NoUseAfterFreeIfUsedOnce'
<1>1. CASE UNCHANGED vars
  BY <1>1 DEF vars, callVars, NoUseAfterFreeIfUsedOnce
<1>2. ASSUME NEW i \in Ids, UseAfterFree(i) PROVE NoUseAfterFreeIfUsedOnce'
  <2>1. EntryInv(i) /\ RunningIsEntry
    BY DEF TableInv
  <2>2. outstanding[i] \in Handles /\ calls[outstanding[i]] \in Call
    BY <1>2, <2>1 DEF UseAfterFree, Accepted, RunningIsEntry, TypeOK
  <2>3. calls[outstanding[i]].st = "closed" \/ outstanding[i] \in reused
    BY <1>2, <2>1, <2>2 DEF UseAfterFree, EntryInv, Call
  <2> QED
    BY <1>2, <2>2, <2>3 DEF UseAfterFree, NoUseAfterFreeIfUsedOnce
<1>3. CASE fault = "none" /\ fault' \in {fault, "null_server", "uncaught"}
  BY <1>3 DEF NoUseAfterFreeIfUsedOnce
<1>4. CASE fault = "none" /\ PluginStep
  <2>1. ASSUME NEW p \in Plugins, NEW h \in Handles, CallNative(p, h)
        PROVE  fault' \in {fault, "null_server"}
    BY <2>1 DEF CallNative, CreateRPCCall, SetMethod, SetParams, Send, SendUnknown, Notify,
                Broadcast, BroadcastNull, CloseHandle
  <2>2. ASSUME NEW n \in Names, ServerNative(n) PROVE fault' = fault
    BY <2>2 DEF ServerNative, callVars
  <2>3. ASSUME NEW p \in Plugins, UnloadPlugin(p) PROVE fault' = fault
    BY <2>3 DEF UnloadPlugin
  <2> QED
    BY <1>3, <1>4, <2>1, <2>2, <2>3 DEF PluginStep
<1>5. CASE fault = "none" /\ ReplyStep
  BY <1>2, <1>3, <1>5 DEF ReplyStep, HandleReply, IgnoreReply, ScalarReply, RunCallback,
                          CallbackReturns
<1> QED
  BY <1>1, <1>4, <1>5 DEF Next

LEMMA InvNext == ASSUME IInv, [Next]_vars PROVE IInv'
<1>1. TypeOK /\ TableInv /\ NoUseAfterFreeIfUsedOnce
  BY DEF IInv
<1>2. TypeOK'
  BY <1>1, TypeNext DEF TableInv
<1>3. TableInv'
  BY <1>1, <1>2, TableGentle, TableSend, TableRunCallback, TableCallbackReturns
<1>4. NoUseAfterFreeIfUsedOnce'
  BY <1>1, FaultNext
<1> QED
  BY <1>2, <1>3, <1>4 DEF IInv

-----------------------------------------------------------------------------
(* The theorems. *)

\* The table of raw pointers, the RPCCall objects and the record of what was
\* sent and answered agree after every native, every reply and every unloading
\* of a plugin, for any number of plugins, calls, servers and replies in a body.
THEOREM Invariant == Spec => []IInv
<1>1. Init => IInv
  BY InvInit
<1>2. IInv /\ [Next]_vars => IInv'
  BY InvNext
<1> QED
  BY <1>1, <1>2, PTL DEF Spec

\* Every variable keeps its type: no native and no reply stores something that
\* is not a call, a server, a request or a callback.
THEOREM TypeCorrect == Spec => []TypeOK
<1>1. IInv => TypeOK
  BY DEF IInv
<1> QED
  BY <1>1, Invariant, PTL

\* processCommandReply runs the callback of a request at most once, however the
\* reply is repeated and whatever the callback itself does.
THEOREM AnsweredOnceAlways == Spec => []AnsweredOnce
<1>1. ASSUME IInv, NEW i \in Ids PROVE Len(invoked[i]) <= 1
  <2>1. AnswerInv(i)
    BY <1>1 DEF IInv, TableInv
  <2>2. CASE invoked[i] = <<>>
    BY <2>2
  <2>3. CASE invoked[i] # <<>>
    <3>1. Len(invoked[i]) = 1
      BY <2>1, <2>3 DEF AnswerInv
    <3> QED
      BY <3>1
  <2> QED
    BY <2>2, <2>3
<1>2. IInv => AnsweredOnce
  BY <1>1 DEF AnsweredOnce
<1> QED
  BY <1>2, Invariant, PTL

\* Nothing but the answer takes a request out of outstandingCalls: not an error,
\* a forged or repeated reply, another call's answer or a plugin's unloading.
THEOREM NeverForgottenAlways == Spec => []NeverForgotten
<1>1. IInv => NeverForgotten
  BY DEF IInv, TableInv, AnswerInv, NeverForgotten
<1> QED
  BY <1>1, Invariant, PTL

\* When RPCCall::HandleReply is back, the entry is erased and its call is gone,
\* even if the callback sent, created or closed calls.
THEOREM AnswerReleasesCallAlways == Spec => []AnswerReleasesCall
<1>1. ASSUME IInv, NEW i \in Ids, invoked[i] # <<>>, running # i
      PROVE  outstanding[i] = None /\ ~Live(requests[i].call)
  <2>1. AnswerInv(i)
    BY <1>1 DEF IInv, TableInv
  <2> QED
    BY <1>1, <2>1 DEF AnswerInv
<1>2. IInv => AnswerReleasesCall
  BY <1>1 DEF AnswerReleasesCall
<1> QED
  BY <1>2, Invariant, PTL

\* A raw pointer in outstandingCalls names a deleted object only if the plugin
\* closed the handle, was unloaded, or used the call again while it waited.
THEOREM DanglingOnlyIfMisusedAlways == Spec => []DanglingOnlyIfMisused
<1>1. ASSUME IInv, NEW i \in Ids, outstanding[i] # None
      PROVE  \/ Live(outstanding[i])
             \/ calls[outstanding[i]].st = "closed"
             \/ calls[outstanding[i]].st = "freed" /\ outstanding[i] \in reused
  <2>1. EntryInv(i)
    BY <1>1 DEF IInv, TableInv
  <2>2. calls[outstanding[i]] \in Call
    BY <1>1 DEF IInv, TypeOK
  <2> QED
    BY <1>1, <2>1, <2>2 DEF EntryInv, Call
<1>2. IInv => DanglingOnlyIfMisused
  BY <1>1 DEF DanglingOnlyIfMisused
<1> QED
  BY <1>2, Invariant, PTL

\* As long as no plugin closes a waiting call, is unloaded or re-uses one, the
\* extension never reads an RPCCall it has deleted.
THEOREM NoUseAfterFree == Spec => []NoUseAfterFreeIfUsedOnce
<1>1. IInv => NoUseAfterFreeIfUsedOnce
  BY DEF IInv
<1> QED
  BY <1>1, Invariant, PTL

\* A result is given to the callback of the Send it answers, unless the call was
\* used again before the answer came.
THEOREM AnswerReachesItsCallbackAlways == Spec => []AnswerReachesItsCallback
<1>1. IInv => AnswerReachesItsCallback
  BY DEF IInv, TableInv, AnswerInv, AnswerReachesItsCallback
<1> QED
  BY <1>1, Invariant, PTL
=============================================================================
