# Formal models of the Solang playground

This directory holds TLA+ models of the Solang playground, the TLC
configurations that check them on small instances, and TLAPS proofs of what
they say for every size. The models are written from the code; paths below are
relative to `src/`.

- [1. The system](#1-the-system)
- [2. The modules](#2-the-modules)
- [3. The runs](#3-the-runs)
- [4. Fairness](#4-fairness)
- [5. The proofs](#5-the-proofs)
- [6. Where the code and its documentation disagree](#6-where-the-code-and-its-documentation-disagree)
- [7. What is only model-checked, and what is not modelled](#7-what-is-only-model-checked-and-what-is-not-modelled)
- [8. Plan](#8-plan)

To check: `tlc -config X.cfg M` for the rows of section 3, `tlapm M.tla`
for the modules of section 5.

## 1. The system

A page in the browser (`packages/frontend`, React, an `@xstate/store` and the
Monaco editor) edits Solidity files. A language server (`crates/solang`,
compiled to WebAssembly by `crates/browser`) runs in the same page; the two talk
the language server protocol over a pair of in-memory byte streams. A backend
(`crates/backend`, actix-web) serves the page and compiles a file in a docker
container on request. The page deploys the result to a Stellar network and
invokes its methods.

```
 components --events--> store --value--> Monaco --didChange (debounced)--> Client
     |                    ^                                                 |  ^
     | handleCompile      | addCompiled, ...                 JSON-RPC bytes |  | PromiseMap,
     v                    |                                                 v  | two Queues
 POST /compile ---> Sandbox (docker run, wait, logs)            Queue --> server --> Queue
                                                                (IntoServer)       (FromServer)
                                                                             StreamDemuxer
```

### Asynchronous message queue: `lib/editor/codec/queue.ts`

State: two lists of halves of promises (`#promises`, `#resolvers`), `#closed`,
and a `WritableStream` made in the constructor. Operations: `enqueue`, the
stream's `write`, `getWriter`, `dequeue`/`next`, `return`/`close`. Three of these
queues carry everything between the client and the server. Hard: readers may
wait for items and items for readers, in any alternation, so one of the two
lists is always the wrong one to touch. Correct when: what is taken is what was
accepted, in that order, each item once, and none is forgotten.

### Stream demuxer, promise map, client: `lib/editor/codec/demuxer.ts`, `map.ts`, `client.ts`

State: a byte `buffer` and the `contentLength` it is waiting for; one entry per
request id with a promise and its resolver; two queues for notifications and
requests. Operations: one turn of the loop for each chunk, `PromiseMap.get` and
`set`, the `send` function of the JSON-RPC client. Hard: the sink cuts the
stream of frames anywhere; responses come in any order; a response may come
before anyone asked for it. Correct when: the frame boundary is kept, each
message goes to its inbox in order, and each request is resolved by its own
answer.

### Language server: `crates/solang/src/languageserver.rs`

State: `Mutex<Files>` (texts, a `FileCache` and the diagnostics of each file)
and `Mutex<GlobalCache>` (definitions of all files). tower-lsp polls up to four
handlers at once on one thread; a handler is suspended at every `lock().await`
and every notification it sends. Operations: `did_open`, `did_change`,
`did_save`, `did_close`, `parse_file` (three lock acquisitions), and the queries.
Hard: a parse reads the texts under one acquisition and stores its result under
another; the notification channel has room for little more than one message and
is used with both locks held; a position of the client's text is used in the text the
server has, as a line and column in one place and as an offset in another. Correct
when: an older result never replaces a
newer one; when all is quiet the client sees the diagnostics of its last text;
no two handlers wait for each other.

### Compile endpoint and sandbox: `crates/backend/src/services/compile.rs`, `sandbox.rs`

State, for each POST: a thread of the blocking pool, a scratch directory
(`TempDir`), a detached container, a possible `.wasm` file. Operations:
`route_compile`, `Sandbox::new`, `compile`, `run_command` (`docker run`, `docker
wait` under a timeout, `docker logs`). Hard: the timer races the container, any
docker command can fail, and a container that was given up goes on. Correct
when: a success carries a whole contract, nothing outlives its request unless
the wait for it ended early, and every POST is answered.

### Explorer, tabs, texts (the store): `state/events.ts`, `state/context.ts` and the components that send events

State: a tree of folders and files at lodash paths (`explorer.items.src.items...`),
the texts by path, the open tabs, the current file, the list of compiled files.
Each node keeps a copy of its own path, and components act through that copy.
Operations: the events of the store. Hard: every event touches several of the
five pieces; dropped files are read, and compilations awaited, across other
events with a path captured before; Monaco calls `init` when it has been loaded.
Correct when: whatever can be opened has a text, the open file has a tab, the
editor shows the current file, and the tree can be rendered.

### Editor session: `lib/editor/index.ts`, `server.ts`, `client.ts`, `crates/browser`

State: the one Monaco model, the list of hooks to run after `initialize`, a
debounce timer, the timers that read the markers, `client.diagnostic`; in the
server, the text of the model's uri. Operations: `init` (on `beforeMount`: load
the wasm, register the language, start server and client), `mountService` (on
`onMount`: push the hook that sends `didOpen`), the change handler, its timer,
`processNotifications`. Hard: `init` and `mountService` run in an order nobody
fixes, changes are sent before the document is open and before the server takes
anything, and the markers are read half a second after a change whether or not
there is an answer; a message announces its length in UTF-16 units and is sent in
UTF-8. Correct when: whatever was typed when, the server ends up with the text of the
editor, and the markers are about it.

### Compile and deploy hooks, transactions, invocation: `hooks/useCompile.tsx`, `useDeploy.tsx`, `lib/deploy-steller.ts`, `components/InvokeFunction.tsx`

State: `currentWasm`, `contract` (`methods`, `address`, `deployed`) in the store, the
header's own `contract`, a dialog. Operations: compile from the header and from
the view, deploy from the header and from the view (compile if need be, generate
the methods, upload the wasm, create the contract), `updateContract`,
`deleteDeployed`, invoke. Hard: every handler runs on values captured when its
component was rendered and meets the store of several awaits later; each
transaction can fail, be dropped, or be included after the page stopped asking.
Correct when: what is deployed is a wasm of the file asked for, each address is
offered its own methods, what is listed is on the ledger, and the dialog closes.

### Solang compiler: `crates/solang/src/sema`, `crates/solang/src/codegen`

State: one compilation's: the resolved body with its `reachable` flags and the marks
of the locals it reads, the
control flow graph, the dirty trackers and loop scopes of the generator, the
definitions that reach each block, the variables and stores that flow through
each. Operations: `statement` of sema, `generate_cfg` and what it calls,
`reaching_definitions::find`, `find_undefined_variables`, `constant_folding`,
`dead_storage`. Sequential, but the two data flow analyses take their blocks
from hash sets, in any order. Hard: phi nodes are placed from what was noted
while the blocks were generated, through nested loops, jumps and short circuits; what
is assigned to a local nobody reads is not generated, but for some of its effects; the
optimiser trusts all this and the flow. Correct when: the graph does what the
statements say, before and after each pass, and the compiler ends.

### Components without a module

| component | state and hard part | correct when |
|---|---|---|
| Google Drive backup, sign-in | recursive upload, one step of several failing | what is reported saved is saved |
| toasts | removal timers | - |
| supervisor (`start-services.sh`) | two processes, `wait -n` | none survives the other |
| wallet, settings, console, sidebar, converters, static files, binding generator | no protocol of their own | - |
| first version of the editor (`packages/app`) | an older copy of the same code | - |
| the rest of the compiler | parser, types, printing, encodings and targets: functions of a tree, with no state that is kept | - |

## 2. The modules

| module | models | extends or instantiates |
|---|---|---|
| `FifoChannel` | what a queue promises: items, readers that wait in turn, an item in a reader's hand | |
| `AsyncQueue` | `queue.ts` | `FifoChannel` (refinement) |
| `AsyncQueue_proofs` | proofs of its invariants, and that it implements the channel | `AsyncQueue`, `TLAPS` |
| `Demuxer` | `demuxer.ts`, `map.ts`, `send` of `client.ts` | |
| `Demuxer_proofs` | proofs | `Demuxer`, `TLAPS` |
| `LanguageServer` | the locks and handlers of `languageserver.rs` | |
| `MCLanguageServer` | constants for TLC | `LanguageServer` |
| `LanguageServer_proofs` | proofs about its locks, and the texts and results that pass through them | `LanguageServer`, `TLAPS` |
| `Sandbox` | `compile.rs`, `sandbox.rs` | |
| `Sandbox_proofs` | proofs | `Sandbox`, `TLAPS` |
| `Explorer` | the events of the store and the components that send them | |
| `Explorer_proofs` | proofs | `Explorer`, `TLAPS` |
| `EditorSession` | `lib/editor`: start, mounting, changes, markers | |
| `EditorSession_proofs` | proofs | `EditorSession`, `TLAPS` |
| `Deploy` | the compile and deploy hooks, transactions, the dialog | |
| `Deploy_proofs` | proofs | `Deploy`, `TLAPS` |
| `Solidity` | statements, their resolution by sema, a reference semantics | |
| `Flow` | how definitions flow through blocks, and the executions they stand for | |
| `Cfg` | from a resolved body to its control flow graph; how a graph runs | `Solidity`, `Flow` |
| `Optimiser` | undefined variables, constant folding, dead storage | `Cfg` |
| `Finding` | the worklist of reaching definitions, on any graph | `Flow` |
| `Finding_proofs` | proofs | `Finding`, `TLAPS` |
| `Codegen` | the order of the passes, their early ends, the worklist of dead storage | `Optimiser`, `Finding` |
| `MCCodegen` | the programs for TLC | `Codegen` |

Definitions whose name ends in `_Something` (`Push_ServeYoungest`) are faulty
variants of the definition they are named after. No action uses them; they are
there to see that each property can fail.

**AsyncQueue.** A promise is its position in the order of creation; `settled`
maps it to its item, `promises` and `resolvers` are the private lists.
`Push` is `#__enqueue`, with a disjunct for each branch of its `if`: with no
resolver listed it creates a promise, lists it and resolves it. `Enqueue` tests
`#closed`, `Write` does not: the closure tests a copy taken in the constructor
(`queue.ts:34`). `Next_Call` is `next()` up to its `await`, `Next_Return` its
continuation. `Close` is refused by the stream while a writer has it locked.
The refinement maps the values of `promises` to the channel's buffer, the
readers behind `resolvers` to its waiters, and a resolved promise that is
awaited to the item in a reader's hand.

**Demuxer.** A frame is a list of tokens: header name, length, body tokens.
`SinkWrites` takes any prefix of what the server has framed as one chunk.
`Demux` is one turn of the loop: it appends the chunk, reads a header if it
has no length and there is one, and `Decode`s if there are enough bytes.
As in the code, it decodes the *whole* buffer and then keeps what lies
behind the length. `Get` and `Put` are the two methods of the map with the three
states an entry can have; `Request` writes and asks for the promise in one turn,
because nothing is awaited in between (`client.ts:20-30`). The channel of chunks
is the FIFO channel that `AsyncQueue` implements.

**LanguageServer.** A handler is a task with a `pc` at one of its awaits, and
each action is the code from one await to the next. A mutex of tokio is fair: it
is the sequence of guards asked for, the first of which holds it. Texts are
version numbers given out by the client. `Write`, `Snapshot`, `Store`, `Extend`,
`Published` are the awaits of `did_change` and `parse_file`; guards are dropped
where their scope ends, so `Store` asks for the second lock with the first held
and `Send` publishes with both. `rename` asks for a second guard of the lock it
holds. `Complete` panics on a line the cached text does not have. `Suggest` ends a
completion; one asked for by a `.` cuts out of the text what stands in front of it,
and `SlicePanics` says when that fails: the text is a list of characters there and the
offset counts bytes, and the bounds cross when there is nothing in front (an offset of
0 or 1). Of a text the model has the bytes before each line, the number of characters,
whether each is a byte, and whether the first is a letter or digit. Every handler
first asks for the files in the order the messages came, because tower-lsp
starts them in that order and none awaits anything before.

**Sandbox.** One record of progress per request. Each docker command is an
action with its failures as disjuncts; the container is an environment that may
write, exit at any time, or never exit. `TimeOut` may happen whenever the thread
waits. `Finish` is the drop of the `Sandbox`, whose removal of the directory may
fail silently when a container still writes to it. The pool admits a request
when a thread is free.

**Explorer.** Each event of the store is an operator from context to context, as
it is in the code, and each action is what one gesture of the user, or one
promise that resolves, sends. A place is the sequence of names below `explorer`;
the tree is a function from places to nodes, and a node has the `path` field
of the code, which differs from its place once a folder above has been renamed.
`Set` makes the holes that lodash `set` makes. `Rendered` and `TreeRenders` say
what the components read and when they throw. `shown` is Monaco's own text,
replaced when its `value` changes to something that is not `undefined`. `causes`
records the rare events the properties make an exception for; each exception was
seen to be needed, by checking the property without it:

- `moved`: a folder with nodes in it was renamed. Its nodes keep their old
  paths, `useExplorerItem` finds nothing there, and the explorer crashes.
- `late`: dropped files, or the initial ones, arrive for a folder that is gone;
  the hole they leave has no path and the explorer crashes.
- `stale`: the file being compiled was deleted or renamed; it is listed as
  compiled, and can be opened, without a text.
- `stray`: text was typed with no file open; an empty file opened next does not
  replace it.

Two further facts are outside the properties as they are stated: deleting the
folder of the current file leaves the file open without a tab, and choosing
the compile view then crashes, because the name of a missing node is read.

**EditorSession.** One action per callback: `WasmLoaded` is `init` up to the
client's request for `initialize`, `Initialized` its continuation, `Mount` is
`mountService`, `Edit` the change event, `SendChange` and `SetMarkers` the two
timers, `ServeInitialize` and `ServeDocument` the server, which refuses what
comes before `initialize` and stores a change only of an open document.
A text is the number of changes the model has seen; to open another file is a
change, because the page keeps one model. `Wide` has the texts with more bytes
than UTF-16 units, whose frames `Headers.add` cuts short (`codec/headers.ts:3`):
`LoseFrame` drops such a frame, because what is read of it is no JSON, and its rest
stands before the next frame (`skewed`), which tower-lsp may find or not. Four
exceptions are recorded, and each was seen to be needed: `lost`, the frame of the
`didOpen` was one the server did not get, so that all changes are dropped after it;
`CutOff`, the last frame was not read whole; `late`, the editor was mounted after the hooks had been
run (`index.ts:33`), so the document is never opened and every change is
dropped; `early`, a timer read the diagnostics before the answer had come
(`index.ts:41`), and nothing sets the markers again.

**Deploy.** A click starts a task that carries what its closure captured: `sel`
and `code` (the current file and its text), `wasm0` (`currentWasm`), `given` (the
header's `contract`). `Chosen` and `CompilesFirst` are the conditions of
`deployWasm`. The chain of awaits is `compile`, `idl`, `upload`, `create`, one
action each with its failures as disjuncts; `Poll` is one turn of a loop of at
most `MaxPolls`. `Include` is the ledger: a transaction succeeds, fails or is
dropped, at any time after it was sent, asked for or not. `IdlGenerated` puts
the methods into the store, and `Deployed` (`updateContract` with an address)
joins to the address whatever methods are there by then. The exceptions the
properties make, each of which happens:

- the header hands `deployWasm` what it compiled last, be it of another file,
  and a click with no file selected deploys what was compiled last;
- `overtaken`: two deployments in flight; the address of the first gets the
  methods of the second;
- `gaveUp`: the poll ended before the ledger decided; what is included later
  is on the ledger and never listed. `deployStellerContract` swallows what it
  catches, so this is reported as a success;
- an invocation that returns no value leaves the dialog open, and so does one
  whose transaction is dropped.

**Solidity, Flow, Cfg, Optimiser, Finding, Codegen.** An expression is an operation and its
operands, a statement its kind, its expressions and the statements in it. The
operators carry the names of the code's parts: `Resolve` is sema's `statement`
with its loop scopes and `reachable` flags; `Cfg` has one operator per kind of
statement and expression, which thread the generator's state (blocks, current
block, dirty trackers, loop scopes, next variable); `Transfer` and `Through` are
the flow of definitions; `FoldConstants`, `StorageFlow` and `RemoveDead` the two
optimisations. Each pass is one action of `Codegen`, and each block taken from a
worklist is one, with the block chosen freely. An error of constant folding is a
diagnostic, after which the other passes still run (`errors`). `ReadBy` is what
`used_variable` marks as read; of a local without a mark `Cfg` generates neither
declaration nor assignment (`Removed`, `Dropped`), but the assignments inside the
right side (`SideEffects`). The worklist of reaching
definitions is a module of its own, `Finding`, with its `Begin` and `Find`
and a specification that starts from any graph, so that it can be proved about;
`Codegen` has these two actions as its steps `StartFind` and `FindStep`. `Flow`
says what the definitions are to stand for without reference to the worklist:
`Points` are where executions come to, each with the instruction that gave every
variable its value; they take every branch, so they include all real executions. `Meaning` is what the source
means, written from the language and not from the generator; `Run` executes a
graph. A program for which code that is run and source differ has one of the
following shapes, named by a predicate, each seen to be needed by checking the
property without it:

- `LeaksScope`: a do-while never takes its loop scope off the stack
  (`sema/statements.rs` does, `codegen/statements/mod.rs:269` does not), so a
  jump behind it, in an outer loop, goes to the wrong loop.
- `SkipsNext`: a `for` without a condition whose body does not end normally
  generates no `next` part though a `continue` leads there
  (`statements/mod.rs:428`); the block stays empty, and an analysis that
  indexes its instructions ends the compiler (`PanicStorage`).
- `SetsInCondition`: what the condition of a `while` or `for` sets is set
  outside the tracker that places the phi nodes (`:323`).
- `SplitsReturn`: a returned conditional leaves its tracker behind (`:768`).
  This one and the last show in `PhisCover` only: the graph still runs right, and
  only an emitter that relies on phi nodes would see it.
- `DropsEffects`: of what is assigned to a local nobody reads, a `++` or `--` is
  lost (`statements/mod.rs:1171`); so is a panic, and an assignment in a
  short circuit or a conditional is executed whatever its condition says.
- `TestsUnread`: the condition of a `for` is a local that nothing else reads; it is
  not marked as read (`sema/statements.rs:576`) and its assignments are dropped.
- `CopiesSelf`: `x = x` loses the definitions of `x` (see section 6).
- `StoresInLine` (of the graph): dead storage elimination keeps one of two
  definitions where paths merge, takes the same reaching definitions for the
  same value in a loop (`dead_storage.rs:715`), and removes a store that a
  load in an earlier-numbered block sees (`:488`). `StorageKeeps` says that
  where no path merges and no loop closes behind a store, it is right.

### Abstractions

- JSON and log lines are left out; of encodings and positions the models have what
  `EditorSession` and `LanguageServer` need (above); bodies in
  `Demuxer` have one length; a chunk does not end inside the digits of a length.
- Parsing in the server is a function of the texts read: a cache is the version
  it was built from.
- `Deploy` leaves out how operations are built, fees and the decoding of values; a wasm is
  the file and the text it was compiled from.
- The compiler's model has one function, one unsigned integer type of
  `Width` values, two slots and one mapping. Hashes do not collide. Memory,
  calls, and everything with a size are left out.
- Time is not counted. A timeout may fire whenever it is pending.
- `Explorer` has two levels below `explorer`, does not operate on the root
  folder, does not re-create `src` by hand, does not type names with dots or
  quotes, and does not put a file where a folder was (a component of the other
  kind stays mounted for a moment there). While Home covers the editor nothing
  is typed.

## 3. The runs

| run | module, configuration | shows | states |
|---|---|---|---|
| `queue` | `AsyncQueue`, `AsyncQueue.cfg` | no interleaving of two readers and two ways of writing loses, repeats or reorders an item; the queue implements the channel | 12 thousand |
| `demuxer` | `Demuxer`, `Demuxer.cfg` | wherever the stream is cut, order and frame boundary are kept, nothing complete stays in the buffer and every request is answered, until a chunk holds tokens of two messages | 91 thousand |
| `demuxer_fails` | `Demuxer`, `Demuxer_fails.cfg` | violated: such a chunk ends the loop | |
| `server` | `MCLanguageServer`, `LanguageServer.cfg` | three handlers on two documents: nothing goes back to an older text, locks are taken in one order, every handler is behind one that goes on, a completion panics only while the server is behind, but for two kinds of text | 1.1 million |
| `server_live` | `MCLanguageServer`, `LanguageServer_live.cfg` | every handler returns, the last text's diagnostics are shown | 38 thousand |
| `sandbox` | `Sandbox`, `Sandbox.cfg` | what a success carries, what outlives a request, every POST is answered | 12 thousand |
| `explorer` | `Explorer`, `Explorer.cfg` | tree, texts, tabs, current file and editor agree but for the exceptions above | 480 thousand |
| `editor_session` | `EditorSession`, `EditorSession.cfg` | the server ends up with the editor's text unless it was mounted late or a frame was cut short; the markers with those of the last text unless an answer was late | 2.5 thousand |
| `deploy` | `Deploy`, `Deploy.cfg` | which wasm is deployed, whose methods an address gets, what is listed, when the dialog closes | 141 thousand |
| `codegen` | `MCCodegen`, `Codegen.cfg` | the graph does what the source says after each pass, phi nodes are where they are needed, the definitions found cover every execution, no undefined variable is read, the compiler ends | 29 thousand |
| `codegen_hangs` | `MCCodegen`, `Codegen_hangs.cfg` | violated: the compiler ends | |
| `codegen_storage` | `MCCodegen`, `Codegen_storage.cfg` | violated: only dead storage is eliminated | |

Bounds, and why they are enough:

- `AsyncQueue`: two readers, two items, `MaxPromises = 4`. Two of each list are
  needed to confuse oldest and youngest; four promises let both readers wait,
  be served, and find items waiting after. `NoItem` and `NoPromise` are markers.
- `Demuxer`: two requests and two notifications for an order of each, one request
  of the server for the third inbox, `BodyLength = 2` so that a body can be cut,
  `MaxFrames = 2` tokens of frames in one chunk; three would fail like two.
  `MaxChunks = 1`: the loop appends the chunks one by one to its buffer, so a
  longer queue adds states and no new buffer.
- `LanguageServer`: three slots stand for tower-lsp's four: two parses in flight and a query
  between them. `MaxVersion = 3` has an old, a current and a new text;
  `MaxMessages = 5` an open, two changes and two more. The texts
  (`MCLineStarts` and the rest) are `.a.b`, one of three lines, so that a cursor can be
  past the cached text's end, and one in which a line of four characters of two bytes
  stands before a `.`, so that offset and character differ. `u1` imports `u2`: a file is stored by the parse of another.
  The slots are interchangeable in `server`; symmetry is not used where
  liveness is checked. `server` leaves `hover` and `diagnostic` out, which
  take one lock and answer, as the other queries may; `server_live` has
  `hover` for both, and leaves out `rename`, which is known to hang, and
  `completion`, which can panic.
- `Sandbox`: two requests on a pool of one thread, so that one waits behind the
  other. Requests share nothing else.
- `Explorer`: `MaxNodes = 3` (a folder with two nodes, or two folders and a
  file), one name to type besides the empty one and `main.sol`, one text,
  `MaxGestures = 5`. Each exception appears within five gestures; changing the
  view of the sidebar is free. With `MaxNodes = 4` the properties hold as well
  (1.3 million states).

- `EditorSession`: `MaxEdits = 3`: a change refused before `initialize`, one
  between it and `didOpen`, and one after can be in one behaviour. One text is wide.
- `Deploy`: two files; `MaxTasks = 2`, because what goes wrong goes wrong between two
  closures; `MaxPolls = 2` for a poll that asks again and a last one;
  `MaxEdits = 1` for a text that changed after it was compiled. A task that
  is done is not used again.
- `Codegen`: 977 bodies, put together in `MCCodegen` from statements on a local,
  a slot and the mapping, in branches, every kind of loop with every kind of
  jump, nested loops, conditionals and short circuits; compared for each
  argument and two storages. `Width = 3` has a zero, an identity and an
  overflow; `Fuel = 4` iterations, after which a loop over three values has
  either ended or repeats; an execution that needs more is not compared.
  `Steps = 60` is the length of the executions `NothingMissed` is about: in none of
  these graphs do longer ones come to any further point. The
  violated properties are checked on the one program each is about: the passing
  run leaves those programs out of `MCPrograms`, and `Compiles` of course
  says nothing of bodies that are not in it.

Every configuration has `CHECK_DEADLOCK FALSE`: with the bounds, or with a user
who stops, the system really does stop.

## 4. Fairness

- `AsyncQueue`: the continuation of a resolved promise is run
  (microtask queue). Nothing makes anyone write or read.
- `Demuxer`: the loop resumes when its queue has a chunk, the server reads,
  answers, and its sink is flushed: tower-lsp's tasks are driven by the same
  microtask queue and the framed sink is flushed when nothing else is ready.
  That the server answers each request is an assumption about its handlers;
  `LanguageServer` is where it is looked at.
- `LanguageServer`: a handler whose await is ready is polled again, and messages
  to the client are written out. The client may stop sending at any time.
- `Sandbox`: weak fairness of the closure's steps, one of which is the timer, so
  a container need never end. Strong fairness of `New`: the pool hands a thread
  that is freed to the requests in order, so no request is passed over for ever
  though the thread is taken again and again.
- `Explorer` has no liveness property and no fairness.
- `EditorSession`: weak fairness of everything but `Edit`: the wasm is fetched, the
  editor mounted, timers fire, promises resolve, the server takes what is in
  its stream.
- `Deploy`: weak fairness of each answer of the network and of the ledger's
  decision: a `fetch` returns or throws, and the ledger includes a transaction
  or drops it. Nobody need click. An invocation polls without end, so that a
  transaction dropped is an exception of `DialogCloses`.
- `Codegen`: weak fairness of the compilation as a whole: nothing waits, so
  what can go on goes on. `FairSpec` is weak fairness of `Next` with
  `ENABLED Next` written out, because TLC executes the passes fast and is very
  slow to decide whether they are enabled; `FairFinding`, for `codegen_hangs`,
  has the weak fairness of the first worklist in the usual form.

## 5. The proofs

`AsyncQueue_proofs`, for any readers, items and bound on promises, from the
assumptions of the module (`NoItem` is no item, `NoPromise` no number):

- `TypeCorrect`: `Spec => []TypeOK`
- `FifoCorrect`: `Spec => []FifoDelivery`
- `DeliveredOnceCorrect`: `Spec => []DeliveredOnce`
- `NothingLostCorrect`: `Spec => []NothingLost`

None of the three is inductive. What `next()` will return depends on what the
promises hold, and that on which promises are listed. The inductive invariant
`IInv` adds `ListsMatch` (each private list is the run of the newest promises,
and one of them is empty), `SettledInOrder` (the k-th promise holds the k-th item
accepted, and exactly the listed resolvers are pending) and `AwaitedOnce` (an
awaited promise has been taken, by one reader, after all that reader has
received). The argument: since both lists are runs up to the newest promise,
resolving the head of one, or taking the head of the other, keeps promise number
and item number in step. One lemma per group of actions gives the shape of the next
state (`PushShape`, `CallShape`, `ReturnShape`), one per group preserves the
invariant (`WriterInv`, `CallInv`, `ReturnInv`), `StepInv` puts them together.

and, in the same module:

- `ChannelCorrect`: `Spec => Channel!Spec`, the safety part of the refinement
  that the run `queue` checks as `ImplementsChannel`.

The mapping (`Buffer`, `Waiters`, `Hand` in `AsyncQueue`) is a function of the two
lists, of who awaits what, and of what is settled, so the proof is about
what each step does to these three: a `#__enqueue` puts its item in the hand of
the oldest waiter or at the end of the buffer (`PushPuts`), a `next()` takes the
oldest item or joins the waiters (`CallAsks`), its return empties the hand
(`ReturnLooks`), and closing changes none. `IInv` gives what the lemmas need:
`InvAwaits` that a promise is awaited by one reader, `InvViews` that the lists
hold what the mapping reads from them. The liveness in `Channel!FairSpec`
needs `ENABLED` and stays with TLC.

`Sandbox_proofs`, for any finite set of requests and any pool:

- `TypeCorrect`, `SuccessCorrect` (`SuccessIsWhole`), `AbandonedCorrect`
  (`AbandonedUnseen`), `ScratchCorrect` (`ScratchRemoved`).

Their invariant adds `Progress`: what each control point says of the container,
the exit code and the file, in particular that an exit code of 0 means that the
container has exited and left no partial file, which is what a later read of that
file needs. Requests interact through the pool only, so the proofs do not use it.

`EditorSession_proofs`, for any number of edits and any set of wide texts:

- `TypeCorrect`, and `InSyncCorrect`: `Spec => []InSyncWhenQuiet`.

`InSyncWhenQuiet` speaks of an empty stream and says nothing of what is on its
way. The inductive invariant adds that: the client has started only if the
server serves (`Serving`); before the hooks were run, or if they were run too early,
there is no `didOpen` in the stream (`NotOpened`), else it is there, served or lost
(`Opened`), and it is sent once, so that a file whose `didOpen` was lost is never
open (`OpenedOnce`); and unless a timer is still to send it, the last message in the
stream has the editor's text, or the server has if there is none and the last frame
was read whole (`LastIsText`).
The lemmas `Sending` and `Taking` say what `Append`, `Head` and `Tail` do to these;
one lemma per action that touches the stream follows.

`Deploy_proofs`, for any files and any number of clicks, polls and edits:

- `TypeCorrect`, `DeploysCorrect` (`DeploysTheSelected`), `MethodsCorrect`
  (`MethodsMatch`), `ListedCorrect` (`ListedIffOnChain`).

What goes wrong here goes wrong between two awaits, so the invariant says what
each await has to hold on to: the store's wasm is of its path and of no later
text (`WasmIsOfPath`), so a closure that captured it may rely on that for ever;
a task compiles for a file, with a text that file had, and before a deployment
only because the wasm it saw is of another file (`CompilesAFile`); the methods in
the store are those of the deployment in flight that was not overtaken
(`MethodsInFlight`); only a deployment that is over is listed (`ListedIsDone`);
and a contract is created only by a task that is there to ask for it, which ends
knowing its fate, or having listed it, or having given up (`Fates`). `Sound`
is what all this says of one task. The lemmas `Clicking`, `GoingOn`, `Ending`,
`Resting` and `Deciding` are the ways a step can touch one task, or only the
store, or only the ledger; each action is an instance of one of them, except
`IdlGenerated` and a successful `Poll`, which change tasks and store at once.

`Demuxer_proofs`, for any messages of the server, any length of a body and any
cut of the stream into chunks:

- `TypeCorrect`, `InStepCorrect` (`InStep`), `RoutedInOrderCorrect`
  (`RoutedInOrder`), `AnswersMatchCorrect` (`AnswersMatch`),
  `FailsOnlyOnBatchesCorrect` (`FailsOnlyOnBatches`),
  `NothingStaysBehindCorrect` (`NothingStaysBehind`).

`InStep` compares two concatenations, about which a prover can say nothing
directly. The invariant numbers the stream instead: `Ends(i)` is the position of
the last token of message i, `TokenAt` says that a token is at a position,
`Covers` that a sequence is what lies behind one. `Flow` says that the buffer,
the chunks and the sink are, one behind the other, the stream from what the
loop has taken to its end; the positions where the chunks begin are a function
`cut` that it claims to exist. A turn of the loop then compares numbers. To
route only what was sent it must know that a decoded buffer is one message:
`Short` (the loop never keeps as many tokens as it waits for) puts the end of
the message within the chunk, and `OneEach` (an unbatched chunk has tokens of
one message) puts nothing behind it, because no message is sent twice
(`InOnePlace`). `Entries` relates the map to the client and to what was routed,
`Routed` the inboxes to the messages before the loop's. `FlattenSeq` and `Ids`
are recursive functions, and what they give is proved by induction written out:
`Least` takes the least number of a set, `Induction` and `Recursion` follow from
it for sets and functions, without an operator as a parameter.

`NothingStaysBehind` is the safety half of `EveryRequestAnswered`. The loop takes
one message a chunk and then awaits the next chunk, so a message that was complete
in the buffer would stay there until the server has something else to say. It
needs one more invariant, `OnItsWay`: a request that was made is written and not
read, handled, or answered. `ReadToTheEnd` shows that with the chunks and the sink
empty the loop is at the end of the stream: by `Flow` what it keeps ends where a
message ends, and by `Short` it is less than one. Then all answers were routed, so
by `Entries` a request that still waits has none, and `OnItsWay` says where it is.

`LanguageServer_proofs`, for any documents, imports, number of slots and bounds:

- `TypeCorrect`, `LockOrderCorrect` (`LockOrder`);
- `NeverGoesBackCorrect` (`NeverGoesBack`), `DefinitionsNotOlderCorrect`
  (`DefinitionsNotOlder`), `FreshWhenQuietCorrect` (`FreshWhenQuiet`),
  `PanicOnlyBehindCorrect` (`PanicOnlyBehind`);
- `NobodyDeadlocks` (`BehindOneThatGoesOn`), `HandlersGetNearer`, `RenamesHang`.

The invariant has three layers, each inductive only on top of those before.
`Locks`: the guards in the two mutexes are exactly those the control points of the
handlers call for, each once, and a handler that goes on with a lock held is at
its head. This is all that `LockOrder` needs, and it makes a total order of the
handlers that wait for the files (`Ahead`). `Order`: along it texts are written,
read and stored by age. Nothing that is stored, sent or shown is newer than a text
a parse has read or a handler is to write (`NotAfter`, `Reached`), whoever is
ahead carries the older text, and the definitions are behind the caches only
while the parse in between holds the files (`DefinitionsFollow`). This is why a
result computed without a lock does not go back: not because it was read last,
but because whoever read later also queues later. `Arrival`: nothing gets lost on
the way. Once those ahead have had their turn a buffer has the client's text
(`TextArrives`); a text that is there is about to be read, was read, was stored,
or is stored everywhere and told to the client last (`ResultsArrive`); so when
nothing runs, all of it is fresh, and a line that is missing from the cache is in
a text that is still coming. `PanicOnlyBehind` needs one thing more, for the name in
front of a `.`: a completion that nobody is behind has its own text in the buffer and
in the cache when it gets the files (`UpToDate`), and as it keeps them until it has
cut the name out (`NothingMoves`) it still has then (`CutsItsText`); in a text whose
characters are bytes the cut then fails only at offset 1. The last three theorems need the first layer only:
they are the safety half of `EveryHandlerReturns`. The first in line for the cache
has it or publishes; the first for the files has them, publishes or waits for the
cache; and who publishes goes on, because by `Parked` (all messages in the channel
but one were sent by handlers that wait) there is one for the client to take. So
without a stuck rename every handler is at most two waits behind one that goes on
(`FilesHolder`, `PublisherGoesOn`), and `HandlersGetNearer` says that a handler
that goes on has fewer awaits before it each time. That those who can go on do is
the fairness of `server_live`. `RenamesHang` is why stuck renames are excepted: they
keep the files for ever (section 6). `MessageSteps` and `HandlerSteps` reduce the actions
to the few forms the upper layers tell apart; each layer has one lemma per form.

`Explorer_proofs`, for any names and texts, any number of nodes and any number
of gestures:

- `TypeInvariant`: `Spec => []TypeOK`
- `TextsFollowFiles` (`FilesHaveTexts`), `NothingOpensBlank` (`OpenHasText`),
  `OpenIsTabbed` (`OpenFileHasTab`), `EditorFollows` (`EditorShowsCurrent`),
  `TreeNeverThrows` (`ExplorerRenders`).

Beyond the module's `NoTextAssumption` and `BoundsAssumption` they need
`NoPlaceAssumption`: `home` and `null` are two values, and neither is the path of
a node. An event touches up to five pieces of the context and the properties each
speak of two, so no property is inductive without the others. `Sound` says what is
true of a context: the tree holds every folder above a node and a node's path is
as long as its place (`Tree`); until files arrive late there are no holes
(`Whole`); until a folder is moved a node's path is its place, every file has a
text, the open one a tab (`Placed`, `Texted`, `Tabbed`); until a folder is moved
or a compiled file is gone whatever can be opened has a text (`Opened`); without
a current file there are no tabs, because closing a tab opens the last one left;
and a current `home` has its tab. The exceptions are those of the properties, and
the proof shows at which event each is needed: a moved folder copies the nodes
below with their old paths, so `Placed` ends, and with it what is deleted or
renamed through such a path. `Draws` adds that the explorer has crashed exactly
when its tree cannot be drawn: a gesture on a node therefore comes from a node
that was found at its own path, which is what makes `deleteFile` and `renameFile`
act on the node that was clicked. `Shows` is about Monaco's text, which follows a
value only if there is one. `Set`, `Cut`, `Without` and the places below a place
have lemmas of their own (`SetTree`, `CutTree`, `WithoutFacts`, `ChildFacts`);
each event keeps `Sound` (`AddFileSound` to `ChangeContentSound`), whatever
is sent to the store keeps the rest (`SendKeeps`), and each action follows from
these two. `Without` is a recursive function, whose induction is written out as in
`Demuxer_proofs`; `AddFiles` is one or two additions (`Dropped`).

`Finding_proofs`, for any graph of any size, any order of the worklist and
executions of any length:

- `NothingIsMissed` (`NothingMissed`), and what the passes behind it rely on:
  `UndefinedIsSeen`, `LiteralsDoAgree`;
- `NothingIsInvented`, `DefinitionsAreExact`.

The invariant of the worklist is `Settled`: a block that is not on it, and is the
entry or has definitions, has passed on what it has at its end to every block
after it. It survives `TakeBlock` because a block whose definitions change goes
back on the list, and one whose definitions are equal to what flows in needs no
change (`TakeFacts`). When the list is empty `Settled` holds of all blocks, and
`SeenEverywhere` follows an execution from the entry: inside a block a transfer
keeps track of what the instruction does to the values (`TransferCovers`), across
an edge `Settled` does. `NothingIsInvented` is the other direction and an
invariant of every step: a block on the list is one executions arrive at
(`Arrived`), and what flows through such a block is carried through it by some of
them (`CarryOn`, from `TransferCarried`). Both together say that the result is a
function of the graph, though the hash set gives the blocks in any order.
`Through` and `Points` are recursive functions, and `ThroughFacts` and
`PointsNext` say what they satisfy, by induction written out from `Least`.

That nothing is missed needs three things of a graph (`WellMade`), and each is one
the code does not check. `EntrySets`: the entry block sets a variable; without
definitions to pass on the worklist would stop at the first edge, as empty sets
do not differ. `Declares`: no variable is copied before it was set, which would
make an unset one of the target. Both are what the generator does, and
`GeneratedRight` checks them of every graph of the run. `CopiesItself`: no
instruction copies a variable to itself; of this the generator makes what the
source says, and it is a fault of the pass (section 6). `NothingIsInvented` needs
none of them.

## 6. Where the code and its documentation disagree

Each with a run in which TLC finds the violation:

1. `demuxer.ts:53`: a chunk with bytes of two messages makes `JSON.parse`
   throw and ends the loop, though `:55-56` keeps what lies behind the first
   message (`demuxer_fails`).
2. `codegen/reaching_definitions.rs:67`: a block is put back on the worklist
   whenever its definitions differ from those flowing in, though flowing in only adds
   to them; in a loop whose paths set a variable differently blocks put
   each other back for ever, and the compiler does not end (`codegen_hangs`;
   of the run's program, which reads both of its locals, so that none of their
   definitions is eliminated before, no order of the worklist gets beyond this pass).
3. `codegen/dead_storage.rs:488`: a load clears the mark of a store only if the
   pass over the blocks has come to the store; a store in a block made after the
   load's is removed, though `:428` speaks of dead stores (`codegen_storage`).

Seen while modelling, stated by an exception above or left out of a run:

- `languageserver.rs:2678`: `rename` waits for the mutex it holds, and every
  later handler waits behind it; `server_live` leaves it out.
- `languageserver.rs:2289`: a `.` typed as the first character of a document gives
  a slice that begins behind its end, and the server panics with the current text in
  its cache, though `:2192-2194` says that it answers with a list. In a text with
  other characters than ASCII before the `.` the same line, or `:2282`, may be out of
  range, because the offset counts bytes. `PanicOnlyBehind` names the two.
- `codegen/statements/mod.rs:1171`: `:68` and `:1129-1131` say that effects are kept
  when an assignment to a local nobody reads is removed; those of `++` and `--`
  are not: `uint y = x++; return x;` returns the old `x` (`DropsEffects`).
- `sema/statements.rs:576`: the condition of a `for` is not passed to
  `used_variable`, which the other loops and `if` call; what only a `for` tests counts
  as never read, and what is assigned to it is not generated (`TestsUnread`).
- `languageserver.rs:292`: a parse that overlaps `did_close` stores the cache of
  the closed file, which `:176-177` says is removed.
- `sandbox.rs:256`: `:225-226` promises that a command that takes too long is
  killed; the line that did it is commented out, so the container goes on.
- `queue.ts:34`: `:82` says the stream is closed on return; `write` tests a
  copy of the flag and `close` is refused while the stream is locked.
- `codec/headers.ts:3`: the length is that of the string, not of the bytes sent;
  `EditorSession` has what becomes of such a frame.
- `codegen/statements/mod.rs:269`, `:323`, `:428`, `:768` and
  `dead_storage.rs:715`: the shapes of programs listed under `Codegen`.
- `codegen/reaching_definitions.rs:119-130`: an assignment of a variable to itself
  becomes a kill and a copy from what was just killed, so it has no definition
  any more. In `x = 2; if (c) x = 1; else x = x; return x;` constant folding then
  finds that all definitions of `x` behind the branches are 1, and `:1184` of
  `constant_folding.rs` takes that to be its value: the function returns 1 on both
  paths. `FoldingKeeps` and `NothingMissed` are violated by this program without
  `CopiesSelf` and `CopiesItself`, which leave it out.
- `codegen/reaching_definitions.rs:67`: in a function whose entry block sets no
  variable (no parameter, no return value, and no declaration or read of storage
  before the first branch) the worklist stops at the first edge, because the empty sets on both
  sides do not differ. The definitions of all later blocks are missing, and the
  check for undefined variables then has nothing to complain of.
- `useDeploy.tsx:43`, `InvokeFunction.tsx`: the exceptions listed under `Deploy`.

## 7. What is only model-checked, and what is not modelled

Only checked by TLC: all liveness (`EveryRequestAnswered`,
`EveryHandlerReturns`, `LatestShown`, `EveryPostAnswered`, `MarkersSettle`,
`DialogCloses`, `Compiles`), whose proofs need fairness and `ENABLED`; the
liveness part of the refinement of `FifoChannel`; and the compiler but for
reaching definitions (`GeneratedRight`, `PhisCover`, `NoUndefinedRead`,
`FoldingKeeps`, `StorageKeeps`), whose operators recurse over expressions and
statements and are out of the proof system's reach. Of these, `UndefinedIsSeen`
and `LiteralsDoAgree` prove what the two passes take from the definitions; that
the passes, which recurse over expressions, do the right thing with it is
checked. The type invariants
(`TypeOK`) are proved, each as a theorem of its module, and not run.

Not modelled inside the modelled components:

- queue: `[Symbol.asyncDispose]`, which empties the three lists and marks the queue
  closed (`queue.ts:96-103`), so that readers and items would be forgotten; nothing
  disposes of a queue. `throw()` forwards its argument and `abort()` its reason, and
  neither has a caller.
- demuxer: a chunk that ends inside the digits of a length, which is then read as
  a shorter one (`demuxer.ts:35`); the text codec and `Client.start`.
- editor session: how many bytes of the next frame are taken for the rest of one
  that was cut short; either may happen, that frame is read or it is not.
- language server: the text of a change is taken for the whole document, which
  is what the editor sends though the server announces incremental changes;
  formatting and the handlers that only log keep no state;
  the `Builder` that turns a namespace into a cache is sequential.
- sandbox: a panic of the closure, a client that disconnects, shutdown.
- sandbox: containers are never removed (`sandbox.rs:38`), so that exited ones pile
  up in the docker daemon, which is not modelled.
- store: logs, font size.
- backup: an upload that fails between two files (`googlebackup.ts:87`) leaves
  part of a folder; the component has no module.
- compiler: function calls, try, modifiers, inline assembly and Yul, arrays,
  structs, strings, external interfaces, other types; of the optimiser,
  vector to slice, strength reduction and common
  subexpressions; the encodings of the targets. The emitter of LLVM, which would
  turn phi sets into phi nodes, is not in the repository.

Components without a module are listed in section 1 and, with the reason, in
`PROJECT.json`.

## 8. Plan

Done, in this order: the queue with its channel and its proofs, the demuxer, the
language server, the sandbox and its proofs, the explorer, the editor session
and its proofs, deployment and invocation, the core of the compiler; the proofs
that the queue implements the channel and of what is deployed and listed; the
proofs about the demuxer, the language server and the explorer; the proof that
reaching definitions are exact.

Next, by importance:

1. `Demuxer` with the length in two tokens, for chunks that end in its digits.
2. The compiler: function calls and return values of several variables; then the
   passes over the graph that are left, `strength_reduce` and the common
   subexpressions first, each a further action of `Codegen` between `Fold` and
   `StartStorage` compared by `SameMeaning`.
3. Small modules: the backup (one upload of several failing), the supervisor.

Proofs, once TLC agrees:

1. The compiler: the worklist of `dead_storage`, in a module of its own as
   `Finding` is; its entries are merged where paths meet, so what it finds is less
   than what executions bring, and how much less is to be stated first. The other
   passes over the graph with recursive functions in place of recursive
   operators: what each leaves alone (edges, phi sets, returns) can then be
   proved for any program, though not that two executions agree.
2. The safety half of the other liveness properties (`MarkersSettle`,
   `DialogCloses`), as `NobodyDeadlocks` is of `EveryHandlerReturns` and
   `NothingStaysBehindCorrect` of `EveryRequestAnswered`.
