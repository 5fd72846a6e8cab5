# A verification project for SRPC, the SourceMod RPC extension

SRPC lets SourceMod plugins call methods on other game servers: JSON-RPC-like
messages, signed with a shared key, one JSON value per line over TCP. This
directory holds TLA+ models of the extension, the TLC runs that check them on
small instances, and proofs for all instances of what matters most of the caller,
the responder, the connection, the framing of lines, loading and polling, of the
JSON natives and the memory behind them, and of the exchange between two servers; the
exchange is proved to implement what it promises, the natives to do so but for three
exceptions that are spelled out, and the framing to read bytes as the exchange reads
lines. Paths below are relative to the repository (`src/CommandProcessor.cpp` etc. are
the extension's C++ sources, `include/json.hpp` is the JSON library it ships).

Run a model with `tlc -config calls.cfg MCRPCCalls` (`PROJECT.json` has the module
of every configuration), and the proofs with `tlapm RPCCallsProofs.tla` and alike
for the other seven `*Proofs` modules. `PROJECT.json` lists runs, theorems, hazards, the
source lines behind every definition, and for every checked property a mutated
definition that breaks it.

## The system

Everything runs on one thread, the game's. `SDK_OnLoad` reads `rpc.json`, opens
the listening socket, creates the configured servers, registers the natives and
hooks the game frame. From then on plugin code, timers of the game and the hook
alternate; inside the hook, completion handlers of boost::asio run, and some of
them call plugin functions, which may call every native again.

| Component | State | Operations | Talks to |
| --- | --- | --- | --- |
| Event loop (`EventLoop.cpp`) | io_service and acceptor, vector `services` | `Init`, `Run` per frame, `accept`, `RegisterService`, `OnExtUnload` | polls the acceptor's handlers and each `Server` |
| Server registry (`CommandProcessor::servers`, `smn_extension.cpp`) | map name -> `shared_ptr<Server>`, vector `services` | `RPCAddServer`, `RPCRemoveServer`, `RPCGetServers`, `RPCGetServerPort/Address` | read by every Send, Notify, Broadcast |
| Caller (`RPCCall`, `smn_rpccall.cpp`, `processCommandReply`) | `RPCCall` objects behind SourceMod handles, `outstandingCalls`: id -> raw `RPCCall*` | Create, SetMethod, SetParams, Send, Notify, Broadcast, handling of a reply body | sends through `Server`, calls plugin callbacks |
| Outgoing connection (`Server.cpp`) | socket, `connected`, streambuf, own io_service | `Connect`, `Send`, `do_read` and their handlers | lines to `HandleReply` |
| Incoming connection (`SocketHandler.cpp`) | socket, streambuf | `do_read`, `do_write` | lines to `HandleRequest` |
| Responder (`HandleRequest`, `RPCMethod`, `RPCContext`) | `methods`: name -> types and plugin function; `RPCContext` objects | request checks, `RPCRegisterMethod`, `SetReturn`, `Done` | calls plugin methods, answers through `SocketHandler` |
| JSON natives (`smn_json.cpp`) | JSON values behind handles | create, set, push, get, close | parameters and results of calls are copies of them |
| Configuration and load (`CoreConfig.cpp`, `Exstension.cpp`, `sdk/smsdk_ext.cpp`) | address, port, key, servers | `CoreConfig::Init`, `OnExtensionLoad`, `OnExtensionUnload` | creates the listening socket and the configured servers |
| JSON library (`include/json.hpp`) | the cells on the heap that objects, arrays and strings point to | `dump`, `parse`, `operator[]`, `push_back`, copying, assigning, destroying, iterating, `get` | lines and signatures are its dumps |
| Signatures (`Crypto.cpp`) | none | keyed digest of dumped fields, at both ends | |

Journey of a call: `RPCCall.Send` stores a pointer under a fresh UUID and hands
the signed request to `Server::Send`, which writes it or first connects. On the
other side a `SocketHandler` reads a line, `HandleRequest` checks and dispatches
it, the plugin answers through its `RPCContext`, in the callback or frames
later. The answer comes back as a line to `Server::do_read`, whose
`HandleReply` finds the pointer, runs the plugin's callback, frees the call's
handle and erases the entry.

### What is hard about it

* **Re-entrancy instead of threads.** A plugin callback runs in the middle of
  `RPCCall::HandleReply`, of the loop over a reply array and of the range-based
  for over `services`. It may close, send again or broadcast the very call being
  answered, or add a server.
* **Raw pointers that outlive objects**: `outstandingCalls` holds pointers to
  objects that SourceMod deletes with their handle; `methods` holds functions of
  plugins that can be unloaded.
* **Null entries**: every lookup with `operator[]` inserts one.
* **Overlapping connects**: a Send while the server connects starts a second
  connect on the same socket.
* **Streams cut anywhere**: TCP delivers half lines and several lines at once,
  the streambuf is replaced after the first.
* **Several late answers**: contexts wait over frames while methods are
  registered anew and plugins unload.
* **Values in values.** A JSON value may be set in another or in itself, or pushed
  onto itself, and is copied out again; every copy owns what it points to.
* **Reading that writes**: every JSON getter uses the library's non-const
  `operator[]`, which inserts what it does not find, or throws.
* **Two dumps of one message.** A message is signed over the dumps of its fields
  by its sender and, after a parse, again by its receiver; every string, number
  and key has to come back to the same text.
* **Two clocks.** A message is stamped when it is sent, waits for a connect, and
  is judged by the receiver's clock.
* **Reload.** Unloading leaves the acceptor and its socket behind; the library may
  stay mapped, and with it the servers and the configuration of the last load.
* **Partial failure**: error replies, replies of unexpected shape, failed
  resolves, connects, reads and accepts, a load that is refused or throws half-way.

What makes each part correct: the caller answers each request once, to its own
callback, with no deleted object read; the registry and the loop poll exactly
the servers calls can be sent to; a connection accounts for every message and
recovers when the peer comes back; the reader of lines gets back in step; the
responder answers each request once with its own result, never a notification,
and runs only authorised calls; a message between two servers is executed at most
once, in time, and answered after that or lost for a reason; the text of a message
survives the journey and garbled text is rejected; a load ends in the servers of
its file or leaves none; JSON values keep what was put into them and share nothing, down
to the memory they are made of.

`PROJECT.json` lists 40 hazards with the line where each bites and the
properties that cover it.

## The modules

Conventions: actions and state carry the names of the code. History variables
(marked *history*) record what happened for the properties and influence no
guard, with these exceptions that only say which inputs remain possible:
`requests` in `PossibleReply` (a reply names an id that was sent) and in `Send`
(a UUID is drawn once), `received` in `Receive` (a line is received as a request of its own; the
responder also reads the id back from it, which the code copies into the
context), `sent` in Connection (each message is sent once), the last element of
`wire`, by which `RpcExchange` learns what `Connection` has just written, and in
`RpcExchange` the condition under which a message still gets older. When the
program would run into undefined behaviour or an exception would leave the
extension, `fault` is set and the model stops there: it makes no claim about
what the process does afterwards. That is why the runs with faults set
`CHECK_DEADLOCK FALSE`; the bounds on ids, messages and loads are the other reason.

Definitions whose comment begins with *mutant* are no part of a model: each is the
body of the definition next to it with a plausible mistake, and `PROJECT.json` says
which property finds it.

### ServerRegistry, shared by RPCCalls, EventLoop and ExtensionLoad

`servers` and `services` and the natives that change them. `Absent` is "no
entry", `NullPtr` is the null `shared_ptr` a lookup leaves behind
(`AfterLookup`). `services` never shrinks; a removed server stays polled.
RPCCalls starts with the empty registry: servers in `rpc.json` are registered the
way `RPCAddServer` does it, so it reaches all that a configuration produces.

### RPCCalls, the caller

| Model | Code |
| --- | --- |
| `calls[h]` | the `RPCCall` behind handle `h`; `st` says whether it exists and who deleted it |
| `outstanding` | `CommandProcessor::outstandingCalls` |
| `body`, `running` | the replies `HandleReply` has still to process, the callback on the stack |
| `CreateRPCCall`, `SetMethod`, `SetParams`, `Send`, `SendUnknown`, `Notify`, `Broadcast`, `BroadcastNull` | the natives of `smn_rpccall.cpp` with what they call in `RPCCall.cpp` and `CommandProcessor.cpp` |
| `HandleReply`, `IgnoreReply`, `ScalarReply` | `HandleReply` and the early returns of `processCommandReply` |
| `RunCallback`, `CallbackReturns` | `RPCCall::HandleReply` up to the plugin's function, and from its return to the `erase` |
| `UseAfterFree` | the places where a dangling pointer would be read |
| `CloseHandle`, `UnloadPlugin` | SourceMod (external) |

Plugin steps are possible outside a body or while a callback is on the stack
(`PluginTurn`), never between two replies of a body: that is the extension's only
concurrency, and the model has all of it. A plugin function that is entered while
it may be re-entered with the same object is where the invariants are at stake.
A callback that has not returned cannot be unloaded.

### EventLoop and ExtensionLoad

`GameFrame` starts a frame (the acceptor's poll), `BeginLoop` fixes the end of
the range-based for, `NextService` polls one service, and between two of them
plugins may add or remove servers (a service's handlers run plugin callbacks).
`capacity` and `moved` are the vector's: `push_back` on a full one moves its
elements, by any growth a standard library may choose, after which the loop's
iterators are invalid (`UseInvalidIterator`). Whether the next accept is armed
is `accepting`; a client's connection is taken from `backlog` by `Accept`, which arms
the next one, and `AcceptFails`, which does not. `EventLoop` has no specification of its
own: nothing is hooked before `ExtensionLoad` has loaded the extension.

| Model | Code |
| --- | --- |
| `file`, `Files` | `rpc.json` at the last load: its shape, the three keys, the entries of "servers" with a usable port and address or not |
| `Throws` | the library's `operator[]` on a value that is no object, which `catch (std::invalid_argument)` does not catch |
| `CoreConfigInit`, `ServersOf`, `Given` | `CoreConfig::Init`: what a file changes of the configuration, and what it skips |
| `LoadRefused` | `OnExtensionLoad` without an interface it needs, or `SDK_OnLoad` returning false |
| `LoadCrashes` | an exception out of `CoreConfig::Init` or of the acceptor's constructor |
| `LoadSucceeds` | `SDK_OnLoad` to its end: `EventLoop::Init`, a `Server` for each entry in the order of the `unordered_map`, natives and hook |
| `OnExtensionUnload` | `SDK_OnUnload`, which removes the hook |
| `held` | the endpoints of acceptors, which nothing ever deletes |
| `keeps`, `stayed`, `Release` | whether the dynamic linker unmaps the library or its globals live on (external) |
| `PluginCalls`, `Connects` | natives while the extension is loaded; the kernel completing connections to a socket that listens, polled or not |

### Responder

A line is received and taken through all checks of `HandleRequest` in one step,
since nothing can interrupt them: `RejectRequest`, `IgnoreArray`,
`MethodNotFound`, `InvalidParams`, `CallMethod`, `CallBadMethod`. The lines are
abstract: what the checks tell apart of the timestamp, the signature, the
method, the kinds of the parameters and the id. `contexts` are the `RPCContext`
objects; `Done`, `SetReturn`, closing and unloading happen in the callback or at
any later time. `methods` keeps the entries of unloaded plugins, as the code
does.

### Connection

One `Server` with the kernel's socket and the peer. `resolving` and `completed`
are the handlers the io_service has queued, in order. `ConnectAgain` is a
connect on a socket in use, with the results connect(2) has for it (EALREADY,
EISCONN, or once success for the connect that completed meanwhile). `WritePartly`
is a short write, whose rest is read from a dead local variable; it may happen to a
`Send` and to the one in a connect's callback.

### LineFraming

The `do_read` of both sides: `async_read_until` takes any part of what has
arrived until the streambuf holds a terminator; the handler takes the first line
and replaces the streambuf. Messages are cut into two cells, so that reads end
in, at and after messages. `KeepsBuffer` is the difference between the sides: a
`Server` uses its streambuf for the next connection, a `SocketHandler` has but one.

`LineStream` is the abstract specification of such a reader, by lines: a read takes one
or more, and perhaps the beginning of another; the first is heard if it came whole and
behind nothing else, and the others are gone. `Reader` maps the cells to it:
`LinesUnread` are the messages from the first whose terminator is unread, `Leftover` says
that a beginning of something else comes before it.

### JsonText and LineText, the text of messages

`JsonText` is the library on bytes: `EscapeString`, `Dump`, the lexer's tokens with
`GetNumber` and `GetString`, and the recursive descent parser, with their error
exits (a text that does not parse is `Invalid`). A float is its decimal expansion, with
all its digits. `dump` prints the first 15 of them (`Precision`, `Rounded`), so a value
of a plugin's `float`, such as 0.1 with its 27 digits, arrives as another double; the
text of what arrives is the text that was sent, which is what signatures need. An `As`
native makes it a `float` again, for which 9 digits are enough (`Narrowed`). What the
model leaves out is the step from a decimal text to the nearest double: `strtod` is
taken to keep the digits it reads, and of 15 digits a double does.

`LineText` sends messages as such text. `Call`, `Notification`, `Reply` and
`ErrorReply` are the objects that `RPCCall`, `HandleRequest` and the error helpers
build; `SigText` is what `getReqSig` and `getReplySig` concatenate. The lines are those
that `LineFraming` shows the reader can get: a whole message, the end of one
(`Cut`), a part of one left in a streambuf with a message behind it (`Reconnect`), each
at every byte, and texts other implementations may send (`ForeignLine`). A line may
also hold several replies, which `HandleReply` walks with the library's iterators
(`Begin`, `End`, `Increment`; `Items` is the loop). `CheckType` and
`ValidateArguments` are `RPCMethod`'s, asked by the predicates (`IsNumber`, `IsString`,
...) of the library. `Read` and `GetArraySize` are what a native of `smn_json.cpp` or an
`As` native makes of the value that arrives: `Get` is `get<T>` with its conversions,
`AsString` the text, `ElementAt` and `ConstMember` the accesses to parameters and
results.

### RpcExchange and RpcPromise, two servers together

`RpcExchange` extends `Connection` with the peer: `inFlight`, `working` and `replies`
are the requests and replies between `Server::Send` and `HandleReply`.

| Model | Code |
| --- | --- |
| `Sends`, `Handlers` | the actions of `Connection`; what they write to the socket is on its way (`Delivers`) |
| `ReadReplies` | `Server::do_read`: the first line of a read is heard, the others and what precedes the line in a kept streambuf (`halfLine`) spoil or lose it |
| `PeerReads`, `TooOld` | `SocketHandler::do_read` with the age check of `HandleRequest`, by the peer's clock |
| `Done` | a plugin answers, in any later frame |
| `PeerEnds` | the peer ends the connection, orderly or by a reset, with requests, work and replies under way |
| `Tick`, `age`, `skew` | the seconds since each message was stamped, and the difference of the clocks |

`RpcPromise` is the abstract specification: a message is new, sent, executed,
answered or failed; it is executed at most once, only below a certain age, and
answered only when it was executed; failing is final. `StatusOf` is the refinement
mapping from the place and the outcome of a message.

`Requests` and `Replies` view the two directions as `LineStream`s, the one that
`LineFraming` implements: what the exchange takes a read to do to its lines is what a
read of bytes does. A reply's reader keeps the beginning of a line over a reconnect
(`CarriesOver`), the peer's has one connection.

### JsonStore and JsonValues, the JSON natives

`JsonStore` is what `rpc.inc` promises: a handle has a value of its own; setting
puts a copy of what is given under its key and leaves the other members alone, pushing
appends a copy, reading changes nothing, and reading a value out makes a copy of a
member that is there. Values are exact, nulls included, because `GetArraySize` counts
them.

`JsonValues` is the code: `AtKey`, `AtIndex` and `PushBack` are the library's
`operator[]` and `push_back`, with the nulls they enter; `Keyed` and `Indexed` say which
kinds they accept, and `NoKeys` and `NoArray` are the natives that let `domain_error`
escape on the others. The getters that catch it change nothing then and are left out,
like `GetArraySize` and the `As` natives, which never change a value. A number is pushed
as the handle (`HandleNumber`). Values are two levels deep: what is put into another
value is `Flat`, and `ArrivingJson` says the same of what arrives.

The code is no `JsonStore`. `KeepsPromise` names the steps that are not, and says that
there are no others: `EntersWhatItReads` (a getter enters null, or nulls up to the
position, in the value it reads and nowhere else), `PushesItsHandle` (a number is pushed
as the handle's), and `PutsItselfChanged` (a null that is set or pushed in itself has become
a container by the time it is copied). One thing a value cannot show: which of its values
the plugin asked `PushJSON` to push. The code pushes the one that the word behind its
arguments names, and so does the model.

### JsonMemory, the memory behind the JSON natives

In C++ a JSON value is a type and a word, and for objects, arrays and strings the word
points to memory that holds more of the same. `JsonMemory` extends `JsonValues`: next
to the value of every handle it keeps `root`, the `basic_json` behind it, and `heap`,
the cell at each address. Each native of `JsonValues` does to the heap what its C++ does:

| Model | Code |
| --- | --- |
| `Create` | `json_value(value_t)`, `create` and the constructors: a cell for every part that needs one |
| `Copy`, `Destroyed` | the copy constructor and the destructor, with all they lead to |
| `Assigned` | `operator=` by copy and swap; what was there is destroyed with the parameter |
| `AsContainer`, `ByKey`, `ByIndex` | `operator[]`, with null turned into a container and nulls entered |
| `Appended`, `PushObject` | `push_back`, which moves or copies its argument |
| `GiveMember` | the getters of values: a copy to a local variable, a copy to the new handle, the end of the variable |
| `MFails` | what throws: the temporaries go on the way out, the heap stays as it is |

The order in which `operator=`'s parameter and `operator[]` are evaluated is the
compiler's (`early`). `Place` is the allocator, of which nothing is assumed: a
step that it gives no free cells of their own, or for which there are not enough
`Addresses`, is not taken. Plugins cannot tell that from memory that is larger.

`EachCellOwnedOnce` says that no two objects share a cell, no object points at a cell that
was freed, and every cell in use is reached from a handle: nothing is freed twice and
nothing leaks. `HeapHoldsValues` says that the pointers lead to the values of
`JsonValues`, by which what is shown of those is true of the memory. `KeepsPromise` is
stated of the memory itself: `Store` reads every handle's value off the heap.

## The runs

Each run finishes within four minutes.

| Run | Bounds | Shows |
| --- | --- | --- |
| `calls` | 2 calls, 2 ids, 2 callbacks, 1 plugin, 1 name and server, bodies of up to 2 replies; symmetric | the six safety properties of the caller (213,914 states) |
| `calls_live` | 1 call, 2 ids, method and params set | a result that was received reaches the plugin, whatever else its body holds (154,049 states) |
| `load` | 2 names, 3 server objects, 2 loads of 11 files, 1 waiting and 1 accepted connection | five safety properties and two of liveness: the loop polls each registered service once per frame, breaks only by an addition from inside it, and goes on polling, and accepting until an accept fails; what is known after a load is what the file lists (450,380 states) |
| `answer` | 2 requests, 2 contexts, 2 plugins, 1 method of 2 types, 18 lines; symmetric | who is called, who is answered, with what, and how often (196,520 states) |
| `framing` | 5 messages, one reconnect with the old streambuf | no more garbled lines than causes, a message that is alone arrives, and the reader is a `LineStream` (5,411 states) |
| `json` | 2 handles, 1 key, 2 scalar types, arrays of up to 2, members one level deep, 10 cells; symmetric, up to the names of cells | the heap keeps what `JsonStore` promises but for the three named steps, only misuse makes the library throw, cells are owned once and hold the values (56,139 states) |
| `text` | every message with each string of up to 2 special characters, keys, floats of up to 41 digits, cut at every byte, behind every start of another and behind every middle piece of up to 6 bytes; texts of up to 3 bytes and 24 longer ones from elsewhere | messages and signatures survive, garbled lines are rejected, every native reads of a value what was sent, and what was parsed, infinities apart, is passed on unchanged (56,233 states) |
| `exchange` | 2 messages, 2 connections ended by the peer, all failures, window of 1 second, clocks at most 1 apart | every message is in one place, what was lost has a cause, one reader unless connects overlap, recovery, the promise, each direction a `LineStream`, and an end for every call (438,137 states) |
| `calls_broadcast` | as `calls` | *violated*: a broadcast after the lookup of an unknown name calls Send on null |
| `conn_lost` | 1 message, no failures | *violated*: a message sent before the first connect completes is dropped |
| `framing_lost` | 2 messages in one connection | *violated*: of two requests in one read the second is dropped |
| `text_infinite` | the texts from elsewhere of `text` | *violated*: a number too large for a double is parsed to what cannot be passed on |

Why the bounds are enough to meet the interesting cases: re-use and sharing of a
pointer need one call and two ids, a second call shows that one does not disturb
another, two callbacks tell "the other callback" apart, and a body of two replies
holds a repeated answer and a callback between two replies. Two requests at work
with two contexts show mixed-up answers; the 18 lines include one for every way of
failing the checks. Three servers let a vector be full, grow and have room again
within a frame, and let a second load add to the servers of the first in a library
that stayed; the 11 files have one for each way `CoreConfig::Init`, `SDK_OnLoad` and the
acceptor may end. Two messages are one that connects and one that overlaps with it
or comes behind it on the connection, in either direction; the second connection
shows what the first left behind. A window of one second has an age within it, at its
edge and beyond it, by either clock. One connection that waits and one accepted before
it show whether accepting goes on (`MaxAccepts`). Two losses, of which the second comes after the
reader is back in step, need four messages, and a fifth shows the recovery. Two
special characters are an escape and what is behind it. The exact values of SourcePawn
floats have up to 41 digits; two of those sent lie halfway between numbers of 15
digits, of which one is rounded up and one down, and one has nines that carry. A middle
piece of 6 bytes (`MaxPiece`) can hold a quote, an escape and a comma. Two JSON values are
one that is set into another, which may be itself; a value within a value within
a value is copied like one within a value. The theorems below remove the bounds
for the safety properties of `calls`, `load`, `answer`, `framing` and `exchange`, and for
`json` all but the bound on nesting. In
`calls`, `Methods` and `Params` are empty, because no property of that run looks at
them; `calls_live` fires the two natives that set them.

Run `json` looks at states up to the names of cells (`UpToNames`): the code compares no
pointers, and while both heap invariants hold, the values determine the heap up to
these names, so two states with one view have the same steps up to names. A state in
which one of them does not hold has a view of its own, and is found.

Types are left to the proofs in `calls`, `load` and `answer`, where `TypeOK` is a theorem; so
is that lines are handled in order and none twice (`HandledInOrder`) in `framing`, where
the steps of a `LineStream` say it already.

Symmetry is used only in runs without liveness properties (`KeepsPromise` of
`json` has no fairness, so it is a safety property), over sets whose members the
modules only compare.

### Fairness

* `RPCCalls`: weak fairness of the extension's own steps. `poll` runs the handlers
  that are ready, and a plugin's callback returns (SourceMod stops one that does
  not). Plugins, peers and unloading have no fairness.
* `ExtensionLoad`: weak fairness of `Run`, the frame and its poll, because the game
  calls the hook on every frame while it is installed. Nobody has to load or unload
  anything, and a failing accept is never fair. One that failed is never made
  up for, so `ListensUntilAcceptFails` ends there.
* `RpcExchange`: resolves and connects come to an end (they have time-outs in the
  resolver and the kernel), the handlers of both ends are polled and bytes that are
  on the way arrive. All this is `SureHandlers` and the actions that read; `ReadFails` is
  in none of them, because nothing makes a read fail. `CallConcludes` also lets every
  plugin call `Done` in the end, which no code makes it do: the property is about what
  happens if it does. It has two exceptions that the code does not exclude, a freed read
  buffer in use, and a server that is `Deaf`: connected, with no read pending, after a
  read error other than the two that `do_read` treats as an end.
* `LineFraming`, `LineText`, `JsonValues`, `JsonMemory`, `Responder`: safety only, no fairness.

## What the runs found

1. `SendBroadcast` dereferences the null pointers that lookups of unknown names
   leave in the map (`src/CommandProcessor.cpp:68`, run `calls_broadcast`).
2. A message sent while the server connects is dropped although nothing fails:
   its own connect on the same socket is refused (`src/Server.cpp:60`, run
   `conn_lost`).
3. The second of two requests that arrive in one read is dropped
   (`src/SocketHandler.cpp:35`, run `framing_lost`).
4. A number too large for a double is parsed to an infinity, which dumps to `inf`, and that
   does not parse (`include/json.hpp:8426`, run `text_infinite`); the library's
   documentation says that it becomes null. `PassedOnUnchanged` is what holds of all other
   numbers.

Met while reading and modelling, and not the subject of a run:

* An error reply is logged, the callback never runs, and the call's entry and handle
  stay (`src/CommandProcessor.cpp:73`, `IgnoreReply`).
* After one failed accept nothing is accepted any more (`src/EventLoop.cpp:50`,
  `AcceptFails`), and after a read error other than eof and a reset a server stays
  connected and reads nothing (`src/Server.cpp:84`, `Deaf`): a call that was sent then
  gets neither an answer nor a failure.
* `RPCRegisterMethod` reports a callback that does not resolve and registers it all
  the same (`src/smn_extension.cpp:21`); the model has it as fault `null_callback`.
* After an unload the listening socket stays open, and peers connect to it and wait;
  a second load of the same endpoint throws out of `SDK_OnLoad` (`src/EventLoop.cpp:37`),
  as a first one does if another process has the port or the address is a host's name.
  `rpc.json` with an entry of the wrong type throws as well: `src/CoreConfig.cpp:79`
  catches only `invalid_argument`.
* A server that was deleted from `rpc.json` comes back in a library that stayed mapped.
* A method without parameters cannot be called: a call whose arguments were never
  pushed has no array of them (`src/RPCCall.cpp:58`), and the request is rejected
  (`src/CommandProcessor.cpp:144`).
* A float that is not finite becomes null when it is made into a value, and any other
  arrives as its first 15 digits, rounded (`include/json.hpp:6138`).
* Reading an element that is not there makes an array longer (`src/smn_json.cpp:284`), and
  reading a member enters it (`src/smn_json.cpp:146`): `EntersWhatItReads`.
* `SocketHandler.cpp:29` asks a socket for its remote endpoint, which throws when the
  peer has reset the connection; the exception would leave the hook.
* Ports are cut to 16 bits by a format (`src/Server.cpp:33`); `get<int>` cuts ports and
  timestamps to the width of an int.
* `RPCAddServer` passes the server's name where its address belongs
  (`src/smn_extension.cpp:72`); `scripting/include/rpc.inc:306` declares
  `RPCGetLocalPort`, which no native implements, and the `As` natives are implemented
  and not declared.
* `PushInt`, `PushFloat` and `PushBool` push the array's handle
  (`src/smn_json.cpp:226`); `PushJSON` and `SetReturn` read the value's handle from
  `params[3]`, which they are not given (`src/smn_json.cpp:250`,
  `src/smn_rpccontext.cpp:92`); a negative array position grows the array without
  end (`src/smn_json.cpp:284`), and the error of `GetString` lacks its argument
  (`src/smn_json.cpp:188`).
* `async_write` is given buffers that may be gone when it continues
  (`src/Server.cpp:66`, `src/SocketHandler.cpp:46`).

The properties that hold do so with their conditions, and the conditions are the
point. `DanglingOnlyIfMisused` and `NoUseAfterFreeIfUsedOnce` say that the raw
pointers are safe for a plugin that neither closes nor re-uses a call that
waits; `AnswerReachesItsCallback` has the second condition too. Nothing in
`rpc.inc` tells a plugin so. `FaultOnlyByAddInLoop` says the same of adding a
server in a callback, `OneReaderIfOneConnect` of overlapping connects, and
`ConnectedServerReads` of the read errors the code does not handle;
`ThrowsOnlyIfMisused` says that a JSON value is to be used by key or by index only,
`KnownHasSource` that a stale configuration needs a library that stayed, and
`LossHasCause` that a live connection loses a message only if it travels behind
another one.

## The proofs

Eight modules prove the safety properties above for every value of the constants:
any sets of plugins, handles, ids, messages, files, keys, any number of connections
and loads and any length of an array. `PROJECT.json` lists the theorems with the properties they state.

| Module | Proves of | Assumptions |
| --- | --- | --- |
| `RPCCallsProofs` | `TypeOK` and the six safety properties of run `calls` | `CallConstants` (`None` is none of the other values, `MaxBatch` is a number), `NoRequest` (`None` is not a request record), `RegistryConstants` (`Absent` and `NullPtr` are different and no servers) |
| `ResponderProofs` | `TypeOK` and the five properties of run `answer` | `ResponderConstants`, `NoRecord` (`None` is none of the other values), `LineMethods` (a line names a method or none) |
| `ConnectionProofs` | `Connection`'s types, `OneReaderIfOneConnect`, `ConnectedServerReads`, `QuietSendIsWritten`, `MessageAccounted` | `ConnectionConstants` (`None` is no message, the bound is a number) |
| `RpcExchangeProofs` | `RpcExchange` implements `Connection` and `RpcPromise` (`PromiseKept`), and `LineStream` in each direction (`LinesAreFramed`); `LossHasCause`, `ExchangeAccounted` | `ConnectionConstants`, `ExchangeConstants` (the window and the skew are numbers) |
| `ExtensionLoadProofs` | `TypeOK` and the five safety properties of run `load` | `RegistryConstants`, `LoopConstants`, `LoadConstants` (the bounds are numbers), `FileConstants` (finitely many names; servers of a file have names; a file that is no object gives nothing) |
| `LineFramingProofs` | `LineFraming` implements `LineStream` (`ReadsLineByLine`), the other two properties of run `framing`, and `HandledInOrder`; for both sides | `FramingConstants` |
| `JsonValuesProofs` | its inductive invariant, `ThrowsOnlyIfMisused` | `JsonConstants` (`None` is not a scalar's value), `ArrivingJson` (what arrives is a JSON value, as deep as the model's) |
| `JsonMemoryProofs` | `EachCellOwnedOnce`, `HeapHoldsValues`; `JsonMemory` implements `JsonValues`; `KeepsPromise`, of the values in the heap | as `JsonValuesProofs`; `Addresses` is any set, `Place` any operator |

TLC evaluates the assumptions in every run that uses the modules, and each inductive
invariant was checked by TLC before it was proved.

### The caller

None of the properties is inductive alone. That an answer runs the right callback
depends on the object its entry points at, that the object is alive depends on
no other entry having freed it, and that it has not is a matter of who shares
pointers. `IInv` is `TypeOK`, `NoUseAfterFreeIfUsedOnce` and `TableInv`, whose
parts say:

* `EntryInv(i)`: an entry is that of a request of the call it points at, whose
  object has existed and has a callback; unless the call was used again while it
  waited (`reused`), that callback is the request's and the object was not freed;
* `AnswerInv(i)`: a request has an entry until its callback runs; the callback has
  run once at most, and is the right one or its call was reused; once it is back
  the entry is gone and so is the object;
* `SharedOnlyIfReused`: two entries share an object only if its call was reused;
* `RunningIsEntry`: the callback on the stack belongs to an entry, which is why the
  entry can be read when the callback returns, whatever it did.

The induction step treats three actions on their own: `Send`, which adds an entry
(`TableSend`), `RunCallback`, and `CallbackReturns`, where `SharedOnlyIfReused`
is what keeps the other entries of the freed object harmless. All other actions
leave table and history alone and are *gentle* to the objects (`Gentle`): an
object that is gone stays gone, and the object of a waiting call is freed or
gets another callback only with its use being noted. `GentleStep` proves the
invariant for all of them at once, `TableGentle` that they are gentle.

### The responder

`ResultFromItsContext` and `RespondedOnce` need a one-to-one correspondence of
requests and contexts. `IInv` is `TypeOK`, `NoRequestLost` and, for every method,
context and request, `MethodInv` (a function that can be called belongs to a plugin
that is loaded), `ContextInv` (a context is that of the request that was given it,
and as long as it is live the request has no response) and `RequestInv` (a request
that was called was authorised and its context is used for it alone; it has at most one
response, none if it is a notification). The proof has one lemma per action; an
action that touches a request or a context says which, and the others keep their part.

### Connection

`ReaderInv` says that as long as no connects overlap an established socket has one
read, pending or to be started by the one handler whose connect has succeeded
(`Started`), and other sockets have none. `QuietSendIsWritten` follows a message that
was sent while nothing else was under way: `QuietInv` says that it is `AtResolve`, then
`AtConnect`, then `AtHandler`, always before what was sent later, and then settled;
`FreshInv` (a message that was not sent is nowhere) and `SocketInv` (the server's view of
its socket lags behind by the handlers that have not run) let it advance.

`MessageAccounted` counts: a message that was given to `Send` is, once, with a resolve,
with a connect, with a handler, written or dropped. The numbers are cardinalities of
the places in the queues that hold it, and `WaitInv` (no two such places, in one queue
or in two; what waits was sent and is not lost) makes each of them 0 or 1
(`AtMostOne`). `WireInv` says that a message is written once, that it then neither waits
nor is lost, and that one that was sent is in one of the three states, unless a write
has read a freed buffer; `PlaceNumbers` turns the two into the sum. `Effect` is all that
`WireStep` and the exchange need to know of a step of a server: it is about one message at
most, which then waits, is written or is lost.

### The exchange

`SenderIsConnection` shows that every step of `RpcExchange` is one of `Connection`, so
the theorems about `Connection` hold of a server in the exchange. `XInv` gives each
message one place: with a handler of the sender, on the connection, with the peer's
plugin, on the way back, or at its end, and says that what runs for it is in step with
that place (`PlaceInv`). `Effect` summarises what a step of the sender may do to the
places, so that the four queues of `Connection` are looked at once. From there every
action is a step of `RpcPromise` under `StatusOf`, or a stutter: `PeerReads` executes one message
and fails those behind it, `ReadReplies` answers one, `PeerEnds` fails a set. That
a message is executed in time is the arithmetic of `TooOld` with `OldAge`. `LossInv`
adds that whoever is behind the first line of either direction is in `crowded`.

`ExchangeAccounted` continues the sum beyond the socket: what was written is, once, on
the connection, at work, coming back, answered or failed, as `OnwardInv` has it. A read
of several lines, a refusal and an end of the connection move whole sets of messages
(`Onward`), but each of them from one place to one outcome.

`LinesAreFramed` needs of `XInv` that a message is once in a queue and not yet heard
when it is written. A read is `Read(k, torn)` of its own direction, and the peer's may
write an error reply in the other; the end of a connection is `End` of the requests and, if
it is a reset, of the replies, with what the streambuf keeps. (After an orderly end the
replies under way are still read.)

### Loading and polling

`LoopInv` says that `polled` is the prefix of `atStart` up to `cursor`, that `atStart` is a
prefix of `services` as long as the loop runs, that the elements moved only if a
server was added in the loop, and that no frame runs while there is no hook. A load
that registers servers appends them (`Registered`), so that it disturbs neither. `ConfigInv` relates the registry to the
file and to what plugins did: known servers are polled and, if the library did not
stay, come from one of the two; what the file lists is known until a plugin touches it.
An unload resets all of it or none (`ConfigRelease`).

### Framing

The cells on the way are numbered in the order of sending: `Place` is a cell's number,
and `StreamInv` says that a first cell on the stream is followed by its second, that
the streambuf and the stream meet at the end of a message or within it, and that a
newline in the streambuf can be found. `OrderInv` says that streambuf and stream
ascend, and puts every line that was handled below (`Below`) those after it and all
cells still to come. `GarbledInv` is an account: there are at most as many
garbled lines as dropped rests and kept streambufs, and one less while the reader is out
of step, that is, the next line to come may be garbled (`InStep` is the case in which
it cannot). `LoneInv` says that a message that was alone on the way is handled or
whole at the head of what is left (`AtHead`), as long as the connection lasts.

`ReadsLineByLine` needs two more facts. `ContigInv`: from the first unread terminator on,
what is unread is every cell that was sent after it, without gaps, so the lines to come are
given by the first and the number of the next message (`UnreadView`). `LeftoverInv`: a
reader whose streambuf ends with its connection never has the beginning of an old line
before the next one. A line is then a message just if all of it came and
nothing before it (`LineIsEntire`), which is when `LineStream` hears it. Sending is `Write`
(`FramedSend`), a line with what is dropped behind it is `Read` (`FramedHandle`), the end
of a connection is `End` (`FramedEnd`), and a part of a read (`ReadSome`) moves cells from
the stream to the streambuf, which `LineStream` does not see.

### The JSON natives

Whatever a native does to a value it does by `operator[]` or `push_back`. `JInv` is
`TypeOK`, by which handles lead to JSON values, and `UsedOneWay`: a value of the
constructor that was never used by index accepts keys, and the other way round.
`ThrowsOnlyIfMisused` follows at the two places that throw.

### The memory of the JSON natives

`EachCellOwnedOnce` is not inductive: to know that destroying a value frees exactly what
nobody else has, one must know which cells belong to which part of which value.
`Lies(m, o)` says that an object lies in a heap for a value: every part of the value
that needs a cell has one of its own, which holds what the constructors put there.
A heap is `Sound` for a set of objects if they lie apart and nobody else has a cell, and
`Replace` is the one lemma about change: an object may take the place of others if it
lies in the cells they leave or in free ones. Each operation of the library is then
looked at once: `Create` and `Copy` make an object in free cells (`Makes`), `Destroyed`
leaves nothing, entering nulls keeps every part in its place (`FillLies`), and putting a
member replaces the parts under one place and no others (`PutLies`). `CellsAre` is what
joins the two descriptions of an object: following its pointers visits the cells of
its value's parts.

`Holds(m, W)` forgets the addresses: some objects that lie in the heap have the values of
`W`. `World` is `W` for the handles, and `MInv` is `JInv` with `Holds(heap, World)`. Within
a native a local variable or a parameter is one more object of `W`, and each native is a
chain of such steps that ends in the next state's `World` (`HeapKept`).
`MemoryImplementsValues` is `MSpec => Spec`.

`KeepsPromise` speaks of `Store`, the values read off the heap, which `HeapHoldsValues`
makes those of `JsonValues` before and after each step (`StoreHeld`). By values alone each
native is then a step of `JsonStore`, nothing, or one of the three exceptions: `Set` and
`Push` are `SetAt` and `PushBack`, the getters enter what they read (`Entered`) or find it
there, and a value that is read out is a member of what was there or the null that was
entered.

### What is only model-checked

* All liveness properties: `ResultReachesPlugin`, `EveryServicePolled`,
  `ListensUntilAcceptFails`, `CallConcludes`. The prover has no support for fairness.
* The five invariants of `LineText`: dumping and parsing in `JsonText` are recursive.
* Nothing is said of values nested deeper than two levels: the values that lie in
  the heap and the cells of a value would be recursive, and what a recursive mapping computes
  needs an induction over values that the prover cannot instantiate.

## Not modelled

* The digest: it is a function of the key and of the text that is signed.
* Names, addresses and log texts. `GetParams` makes a JSON value like any other that
  arrives; `GetRemoteAddress` only copies a text out.
* The Metamod half of the SDK glue, and the queries of name, author and version: they
  are SourceMod's own and change nothing here.
* The parts of the JSON library the extension does not use: reverse iterators, comparison,
  erase and insert, patches, streams.
* Plugins' own code, for which the models' plugins do anything the natives allow, the
  example plugins and the build.
* Write errors after a successful hand-over to the kernel: a message on `wire` has
  been written, whether or not the peer reads it. (The exchange has the loss.)
* Repeated delivery of one line within the 30 seconds: TCP does not repeat, and a
  sender stamps every message once.

## Plan

Done: every component that has state of its own, the composition of two servers, the
text of messages, the memory of the JSON natives, and the proofs above: every safety
property of the runs is a theorem but the five of `LineText`.

The byte level and the level of messages meet in `LineStream`: `LineFraming` implements it,
and both directions of `RpcExchange` do. What is left is to prove of `LineText` what needs
no recursion once its texts are built without it.
