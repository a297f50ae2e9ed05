--------------------------- MODULE LanguageServer ---------------------------
(***************************************************************************)
(* The Solidity language server (crates/solang/src/languageserver.rs):     *)
(* its two locked structures and the handlers that run over them.          *)
(*                                                                         *)
(* tower-lsp (external) starts the handlers in the order of the messages   *)
(* and polls up to Cardinality(Slots) of them at once, so a handler can be *)
(* suspended at any of its awaits.  A handler is a task in a slot; its pc  *)
(* names the await it is at.  The two tokio mutexes are fair: a lock is    *)
(* the sequence of the guards asked for, the first of which is held.       *)
(*                                                                         *)
(* Texts are version numbers: every didOpen and didChange of the client    *)
(* carries the next one, so `older' and `newer' are < and >.  Parsing and  *)
(* code generation run without an await; of their result the model keeps   *)
(* which version of which file it was computed from.  Of a text it keeps   *)
(* what turns a position into an offset and cuts a word out before it.     *)
(***************************************************************************)
EXTENDS Integers, Sequences, FiniteSets

CONSTANTS
    Uris,           \* the documents of the client
    Slots,          \* the handlers polled concurrently
    Kinds,          \* the kinds of message the client sends
    Imports,        \* the documents each one imports, itself included
    LineStarts,     \* File::line_starts of each version: bytes before a line
    Chars,          \* the number of characters of each version
    Ascii,          \* the versions in which a character is a byte
    WordFirst,      \* the versions that begin with a letter or digit
    Positions,      \* the positions in each version that are asked about
    Dots,           \* those right behind a `.', which asks by itself
    MaxVersion,     \* bound: versions of texts the client sends
    MaxMessages,    \* bound: messages the client sends
    NoUri           \* the slot is free

Versions == 1 .. MaxVersion
None == 0                       \* no text, no cache, no diagnostics
VersionOrNone == Versions \cup {None}

Notices == {"didOpen", "didChange", "didSave", "didClose"}
Queries == {"hover", "definition", "references", "rename", "diagnostic"}
Completions == {"completion", "dotCompletion"}      \* INVOKED, or by a `.'

Position == [line : Nat, column : Nat]

ASSUME ImportsAssumption ==
    Imports \in [Uris -> SUBSET Uris] /\ \A u \in Uris : u \in Imports[u]
ASSUME KindsAssumption == Kinds \subseteq Notices \cup Queries \cup Completions
ASSUME BoundsAssumption == MaxVersion \in Nat /\ MaxMessages \in Nat
ASSUME NoUriAssumption == NoUri \notin Uris

(* File::get_offset, for a line the file has: the column is added to the   *)
(* byte the line starts at.                                                *)
HasLine(v, pos) == pos.line <= Len(LineStarts[v])
GetOffset(v, pos) ==
    IF pos.line = 0 THEN pos.column ELSE LineStarts[v][pos.line] + pos.column

(* A position is in its text; the `.' before one is a character of the     *)
(* text, counted as the offset is if all characters are bytes.             *)
ASSUME TextAssumption ==
    /\ LineStarts \in [Versions -> Seq(Nat)]
    /\ Chars \in [Versions -> Nat]
    /\ \A v \in Versions :
         /\ Dots[v] \subseteq Positions[v] /\ Positions[v] \subseteq Position
         /\ \A pos \in Positions[v] : HasLine(v, pos)
         /\ \A pos \in Dots[v] : pos.column > 0
         /\ v \in Ascii => \A pos \in Dots[v] : GetOffset(v, pos) <= Chars[v]

VARIABLES
    latest,         \* the version of each document in the client, None if closed
    version,        \* the last version the client used
    messages,       \* how many messages it has sent
    task,           \* the handler in each slot
    filesLock,      \* guards of Mutex<Files>, held and waiting
    cacheLock,      \* guards of Mutex<GlobalCache>, held and waiting
    textBuffers,    \* Files::text_buffers
    caches,         \* Files::caches: the version each FileCache was built from
    diagnostics,    \* Files::diagnostics: the version they were computed from
    definitions,    \* GlobalCache: the newest version of each file merged in
    outbox,         \* the channel of notifications to the client
    parked,         \* senders waiting for the channel to have room
    shown,          \* the diagnostics the client was last told to show
    crashed         \* a handler has panicked: the wasm instance is gone

clientVars == <<latest, version, messages>>
dataVars == <<textBuffers, caches, diagnostics, definitions>>
sendVars == <<outbox, parked, shown>>
vars == <<latest, version, messages, task, filesLock, cacheLock, textBuffers,
          caches, diagnostics, definitions, outbox, parked, shown, crashed>>

Pc == {"idle", "write", "snapshot", "store", "extend", "publish", "remove",
       "read", "collect", "resolve", "suggest"}

(* A handler can ask for the same lock twice: 1 and 2 tell its guards apart. *)
Guard == Slots \X {1, 2}

Task == [kind : Kinds \cup {"none"}, uri : Uris \cup {NoUri},
         arg : Nat, pos : Position, pc : Pc, snap : [Uris -> VersionOrNone]]

NoSnap == [u \in Uris |-> None]
NoPos == [line |-> 0, column |-> 0]
Idle == [kind |-> "none", uri |-> NoUri, arg |-> 0, pos |-> NoPos,
         pc |-> "idle", snap |-> NoSnap]

TypeOK ==
    /\ latest \in [Uris -> VersionOrNone]
    /\ version \in VersionOrNone
    /\ messages \in 0 .. MaxMessages
    /\ task \in [Slots -> Task]
    /\ filesLock \in Seq(Guard)
    /\ cacheLock \in Seq(Guard)
    /\ textBuffers \in [Uris -> VersionOrNone]
    /\ caches \in [Uris -> VersionOrNone]
    /\ diagnostics \in [Uris -> VersionOrNone]
    /\ definitions \in [Uris -> VersionOrNone]
    /\ outbox \in Seq([uri : Uris, version : VersionOrNone])
    /\ parked \in Seq(Slots)
    /\ shown \in [Uris -> VersionOrNone]
    /\ crashed \in BOOLEAN

Init ==
    /\ latest = [u \in Uris |-> None]
    /\ version = None
    /\ messages = 0
    /\ task = [s \in Slots |-> Idle]
    /\ filesLock = <<>>
    /\ cacheLock = <<>>
    /\ textBuffers = [u \in Uris |-> None]
    /\ caches = [u \in Uris |-> None]
    /\ diagnostics = [u \in Uris |-> None]
    /\ definitions = [u \in Uris |-> None]
    /\ outbox = <<>>
    /\ parked = <<>>
    /\ shown = [u \in Uris |-> None]
    /\ crashed = FALSE

-----------------------------------------------------------------------------
(* Mutant of Ask: an unfair mutex, the newest guard goes before the others.*)
Ask_Barging(lock, s, n) ==
    IF lock = <<>> THEN <<<<s, n>>>>
    ELSE <<Head(lock), <<s, n>>>> \o Tail(lock)

(* lock().await of a fair mutex: the guard joins the queue, and is held    *)
(* once it is at its head; dropping it hands the lock to the next one.     *)
Ask(lock, s, n) == Append(lock, <<s, n>>)
Holds(lock, s, n) == lock # <<>> /\ Head(lock) = <<s, n>>
Drop(lock) == Tail(lock)

At(s, pc) == ~crashed /\ task[s].pc = pc
Goto(s, pc) == task' = [task EXCEPT ![s].pc = pc]
Return(s) == task' = [task EXCEPT ![s] = Idle]

(* Every handler's first await is files.lock(): the messages are queued    *)
(* for it in the order they arrive.                                        *)
Start(s, kind, u, arg, pos, pc) ==
    /\ kind \in Kinds
    /\ ~crashed
    /\ task[s] = Idle
    /\ messages < MaxMessages
    /\ messages' = messages + 1
    /\ task' = [task EXCEPT ![s] = [kind |-> kind, uri |-> u, arg |-> arg,
                                    pos |-> pos, pc |-> pc, snap |-> NoSnap]]
    /\ filesLock' = Ask(filesLock, s, 1)
    /\ UNCHANGED <<cacheLock, dataVars, sendVars, crashed>>

NextVersion(u) ==
    /\ version < MaxVersion
    /\ version' = version + 1
    /\ latest' = [latest EXCEPT ![u] = version + 1]

DidOpen(s, u) ==
    /\ latest[u] = None
    /\ NextVersion(u)
    /\ Start(s, "didOpen", u, version + 1, NoPos, "write")

DidChange(s, u) ==
    /\ latest[u] # None
    /\ NextVersion(u)
    /\ Start(s, "didChange", u, version + 1, NoPos, "write")

(* The client may or may not send the text with its didSave.               *)
DidSave(s, u) ==
    /\ latest[u] # None
    /\ \/ Start(s, "didSave", u, latest[u], NoPos, "write")
       \/ Start(s, "didSave", u, None, NoPos, "snapshot")
    /\ UNCHANGED <<latest, version>>

DidClose(s, u) ==
    /\ latest[u] # None
    /\ latest' = [latest EXCEPT ![u] = None]
    /\ Start(s, "didClose", u, None, NoPos, "remove")
    /\ UNCHANGED version

(* A query; a completion names a position of the text the client has, one  *)
(* triggered by the `.' the user types that behind the `.'.                *)
AsksAt(kind, v) == IF kind = "dotCompletion" THEN Dots[v] ELSE Positions[v]

Query(s, u) ==
    /\ latest[u] # None
    /\ \/ \E kind \in Queries : Start(s, kind, u, 0, NoPos, "read")
       \/ \E kind \in Completions : \E pos \in AsksAt(kind, latest[u]) :
             Start(s, kind, u, 0, pos, "read")
    /\ UNCHANGED <<latest, version>>

-----------------------------------------------------------------------------
(* Mutants of Write: the text there is stays, the file is not parsed again.*)
Write_KeepsFirst(s) ==
    LET u == task[s].uri IN
    /\ At(s, "write")
    /\ Holds(filesLock, s, 1)
    /\ textBuffers' = [textBuffers EXCEPT ![u] =
                                IF @ = None THEN task[s].arg ELSE @]
    /\ filesLock' = Ask(Drop(filesLock), s, 1)
    /\ Goto(s, "snapshot")
    /\ UNCHANGED <<clientVars, cacheLock, caches, diagnostics, definitions,
                   sendVars, crashed>>

Write_NoReparse(s) ==
    LET u == task[s].uri IN
    /\ At(s, "write")
    /\ Holds(filesLock, s, 1)
    /\ textBuffers' = [textBuffers EXCEPT ![u] = task[s].arg]
    /\ IF task[s].kind = "didOpen"
       THEN filesLock' = Ask(Drop(filesLock), s, 1) /\ Goto(s, "snapshot")
       ELSE filesLock' = Drop(filesLock) /\ Return(s)
    /\ UNCHANGED <<clientVars, cacheLock, caches, diagnostics, definitions,
                   sendVars, crashed>>

(* did_open, did_change, did_save: the new text goes into the buffer under *)
(* a lock of its own; did_change and did_save ignore a file that is closed.*)
Write(s) ==
    LET u == task[s].uri IN
    /\ At(s, "write")
    /\ Holds(filesLock, s, 1)
    /\ textBuffers' =
         IF task[s].kind = "didOpen" \/ textBuffers[u] # None
         THEN [textBuffers EXCEPT ![u] = task[s].arg] ELSE textBuffers
    /\ filesLock' = Ask(Drop(filesLock), s, 1)
    /\ Goto(s, "snapshot")
    /\ UNCHANGED <<clientVars, cacheLock, caches, diagnostics, definitions,
                   sendVars, crashed>>

(* parse_file, first lock: all buffers are copied into the resolver; the   *)
(* guard is dropped, the files are parsed and the lock is asked for again. *)
Snapshot(s) ==
    /\ At(s, "snapshot")
    /\ Holds(filesLock, s, 1)
    /\ task' = [task EXCEPT ![s].snap = textBuffers, ![s].pc = "store"]
    /\ filesLock' = Ask(Drop(filesLock), s, 1)
    /\ UNCHANGED <<clientVars, cacheLock, dataVars, sendVars, crashed>>

(* The files of the namespace: the document and what it imports, as far as *)
(* the resolver found a text for them.                                     *)
Parsed(s) ==
    IF task[s].snap[task[s].uri] = None THEN {}
    ELSE {f \in Imports[task[s].uri] : task[s].snap[f] # None}

(* parse_file, second lock: caches and diagnostics are replaced, and the   *)
(* other lock is asked for while this one is held.                         *)
Store(s) ==
    /\ At(s, "store")
    /\ Holds(filesLock, s, 1)
    /\ caches' = [f \in Uris |-> IF f \in Parsed(s) THEN task[s].snap[f]
                                                    ELSE caches[f]]
    /\ diagnostics' = [diagnostics EXCEPT ![task[s].uri] =
                                                task[s].snap[task[s].uri]]
    /\ cacheLock' = Ask(cacheLock, s, 1)
    /\ Goto(s, "extend")
    /\ UNCHANGED <<clientVars, filesLock, textBuffers, definitions, sendVars,
                   crashed>>

(* Mutant of Send: a notification the channel has no room for is dropped.  *)
Send_Try(s, u, v) ==
    /\ outbox' = IF outbox = <<>>
                 THEN <<[uri |-> u, version |-> v]>> ELSE outbox
    /\ UNCHANGED <<parked, shown>>

(* The channel to the client takes the message at once; its sender then    *)
(* waits if there are more than one in it.                                 *)
Send(s, u, v) ==
    /\ outbox' = Append(outbox, [uri |-> u, version |-> v])
    /\ parked' = IF outbox = <<>> THEN parked ELSE Append(parked, s)
    /\ UNCHANGED shown

(* Mutant of Extend: a definition that is already there is kept.           *)
Extend_KeepsOld(s) ==
    /\ At(s, "extend")
    /\ Holds(cacheLock, s, 1)
    /\ definitions' = [f \in Uris |->
                         IF f \in Parsed(s) /\ definitions[f] = None
                         THEN task[s].snap[f] ELSE definitions[f]]
    /\ Send(s, task[s].uri, task[s].snap[task[s].uri])
    /\ Goto(s, "publish")
    /\ UNCHANGED <<clientVars, filesLock, cacheLock, textBuffers, caches,
                   diagnostics, crashed>>

(* The rest of parse_file: definitions are merged, never removed, and the  *)
(* diagnostics are published with both guards still in scope.              *)
Extend(s) ==
    /\ At(s, "extend")
    /\ Holds(cacheLock, s, 1)
    /\ definitions' = [f \in Uris |-> IF f \in Parsed(s) THEN task[s].snap[f]
                                                         ELSE definitions[f]]
    /\ Send(s, task[s].uri, task[s].snap[task[s].uri])
    /\ Goto(s, "publish")
    /\ UNCHANGED <<clientVars, filesLock, cacheLock, textBuffers, caches,
                   diagnostics, crashed>>

(* did_close: the guard is dropped before the empty list is published.     *)
Remove(s) ==
    /\ At(s, "remove")
    /\ Holds(filesLock, s, 1)
    /\ caches' = [caches EXCEPT ![task[s].uri] = None]
    /\ textBuffers' = [textBuffers EXCEPT ![task[s].uri] = None]
    /\ filesLock' = Drop(filesLock)
    /\ Send(s, task[s].uri, None)
    /\ Goto(s, "publish")
    /\ UNCHANGED <<clientVars, cacheLock, diagnostics, definitions, crashed>>

Waiting(s) == \E i \in 1 .. Len(parked) : parked[i] = s

(* The send has completed: the handler returns and drops what it holds.    *)
Published(s) ==
    /\ At(s, "publish")
    /\ ~Waiting(s)
    /\ \/ /\ task[s].kind = "didClose"
          /\ UNCHANGED <<filesLock, cacheLock>>
       \/ /\ task[s].kind # "didClose"
          /\ filesLock' = Drop(filesLock)
          /\ cacheLock' = Drop(cacheLock)
    /\ Return(s)
    /\ UNCHANGED <<clientVars, dataVars, sendVars, crashed>>

(* tower-lsp takes a message off the channel, which wakes one sender, and  *)
(* the client replaces the diagnostics it shows.                           *)
Deliver ==
    /\ outbox # <<>>
    /\ ~crashed
    /\ shown' = [shown EXCEPT ![Head(outbox).uri] = Head(outbox).version]
    /\ outbox' = Tail(outbox)
    /\ parked' = IF parked = <<>> THEN parked ELSE Tail(parked)
    /\ UNCHANGED <<clientVars, task, filesLock, cacheLock, dataVars, crashed>>

-----------------------------------------------------------------------------
(* hover and diagnostic answer under the one guard; the others do when     *)
(* the file has no cache or the position is not on a reference.            *)
Answer(s) ==
    /\ At(s, "read")
    /\ Holds(filesLock, s, 1)
    /\ task[s].kind \in Completions => caches[task[s].uri] = None
    /\ filesLock' = Drop(filesLock)
    /\ Return(s)
    /\ UNCHANGED <<clientVars, cacheLock, dataVars, sendVars, crashed>>

(* goto_* : the reference is copied out, the files are unlocked, and only  *)
(* then the global cache is locked.  `arg' keeps the version it was in.    *)
GotoFound(s) ==
    /\ At(s, "read")
    /\ task[s].kind = "definition"
    /\ Holds(filesLock, s, 1)
    /\ caches[task[s].uri] # None
    /\ filesLock' = Drop(filesLock)
    /\ cacheLock' = Ask(cacheLock, s, 1)
    /\ task' = [task EXCEPT ![s].pc = "resolve", ![s].arg = caches[task[s].uri]]
    /\ UNCHANGED <<clientVars, dataVars, sendVars, crashed>>

(* references: the files are unlocked, and locked again to collect.        *)
ReferencesFound(s) ==
    /\ At(s, "read")
    /\ task[s].kind = "references"
    /\ Holds(filesLock, s, 1)
    /\ caches[task[s].uri] # None
    /\ filesLock' = Ask(Drop(filesLock), s, 1)
    /\ Goto(s, "collect")
    /\ UNCHANGED <<clientVars, cacheLock, dataVars, sendVars, crashed>>

(* rename has the lookup inlined: `files' is still in scope when the lock  *)
(* is asked for the second time.                                           *)
RenameFound(s) ==
    /\ At(s, "read")
    /\ task[s].kind = "rename"
    /\ Holds(filesLock, s, 1)
    /\ caches[task[s].uri] # None
    /\ filesLock' = Ask(filesLock, s, 2)
    /\ Goto(s, "collect")
    /\ UNCHANGED <<clientVars, cacheLock, dataVars, sendVars, crashed>>

(* The locations (or edits) are collected; references may have to leave    *)
(* the declaration out, which it looks up with both locks held.            *)
Collect(s) ==
    /\ At(s, "collect")
    /\ Holds(filesLock, s, IF task[s].kind = "rename" THEN 2 ELSE 1)
    /\ \/ /\ filesLock' = Drop(filesLock)
          /\ Return(s)
          /\ UNCHANGED cacheLock
       \/ /\ task[s].kind = "references"
          /\ cacheLock' = Ask(cacheLock, s, 1)
          /\ Goto(s, "suggest")
          /\ UNCHANGED filesLock
    /\ UNCHANGED <<clientVars, dataVars, sendVars, crashed>>

(* Mutant of Resolve: the files are locked again with the cache locked.    *)
Resolve_Relocks(s) ==
    /\ At(s, "resolve")
    /\ Holds(cacheLock, s, 1)
    /\ filesLock' = Ask(filesLock, s, 1)
    /\ Goto(s, "collect")
    /\ UNCHANGED <<clientVars, cacheLock, dataVars, sendVars, crashed>>

Resolve(s) ==
    /\ At(s, "resolve")
    /\ Holds(cacheLock, s, 1)
    /\ cacheLock' = Drop(cacheLock)
    /\ Return(s)
    /\ UNCHANGED <<clientVars, filesLock, dataVars, sendVars, crashed>>

(* completion: the position is turned into an offset of the cached file    *)
(* with unwrap(), so a line that file does not have is a panic.            *)
Complete(s) ==
    /\ At(s, "read")
    /\ task[s].kind \in Completions
    /\ Holds(filesLock, s, 1)
    /\ caches[task[s].uri] # None
    /\ \/ /\ HasLine(caches[task[s].uri], task[s].pos)
          /\ cacheLock' = Ask(cacheLock, s, 1)
          /\ Goto(s, "suggest")
          /\ UNCHANGED crashed
       \/ /\ ~HasLine(caches[task[s].uri], task[s].pos)
          /\ crashed' = TRUE
          /\ UNCHANGED <<task, cacheLock>>
    /\ UNCHANGED <<clientVars, filesLock, dataVars, sendVars>>

(* After a `.' the name before it is cut out of the text in the buffer,    *)
(* character by character, at the offset in the cached file: it goes back  *)
(* from offset - 2 over names and dots, and takes the slice up to          *)
(* offset - 1.  Both panic past the end, and the slice where it would end  *)
(* before it begins.                                                       *)
SlicePanics(offset, v) ==
    \/ offset > Chars[v] + 1
    \/ offset = 1 /\ v \notin WordFirst
    \/ offset = 0

NamePanics(s) ==
    LET u == task[s].uri IN
    /\ task[s].kind = "dotCompletion"
    /\ textBuffers[u] # None
    /\ SlicePanics(GetOffset(caches[u], task[s].pos), textBuffers[u])

(* completion and references end with both guards in scope.                *)
Suggest(s) ==
    /\ At(s, "suggest")
    /\ Holds(cacheLock, s, 1)
    /\ \/ /\ ~NamePanics(s)
          /\ filesLock' = Drop(filesLock)
          /\ cacheLock' = Drop(cacheLock)
          /\ Return(s)
          /\ UNCHANGED crashed
       \/ /\ NamePanics(s)
          /\ crashed' = TRUE
          /\ UNCHANGED <<task, filesLock, cacheLock>>
    /\ UNCHANGED <<clientVars, dataVars, sendVars>>

-----------------------------------------------------------------------------
Message(s) ==
    \E u \in Uris : DidOpen(s, u) \/ DidChange(s, u) \/ DidSave(s, u)
                      \/ DidClose(s, u) \/ Query(s, u)

Handler(s) ==
    \/ Write(s) \/ Snapshot(s) \/ Store(s) \/ Extend(s) \/ Remove(s)
    \/ Published(s)
    \/ Answer(s) \/ GotoFound(s) \/ ReferencesFound(s) \/ RenameFound(s)
    \/ Collect(s) \/ Resolve(s) \/ Complete(s) \/ Suggest(s)

Next ==
    \/ \E s \in Slots : Message(s) \/ Handler(s)
    \/ Deliver

Spec == Init /\ [][Next]_vars

(* A woken handler is polled again, and the messages to the client are     *)
(* written out; the client may stop sending at any time.                   *)
Fairness == WF_vars(Deliver) /\ \A s \in Slots : WF_vars(Handler(s))

FairSpec == Spec /\ Fairness

-----------------------------------------------------------------------------
Quiet ==
    /\ ~crashed
    /\ \A s \in Slots : task[s] = Idle
    /\ outbox = <<>>

(* Whatever handlers were interleaved, once they have all returned the     *)
(* buffers, the caches, the stored diagnostics and those the client shows  *)
(* are those of the text the client last sent.                             *)
FreshWhenQuiet ==
    Quiet => \A u \in Uris : latest[u] # None =>
        /\ textBuffers[u] = latest[u]
        /\ caches[u] = latest[u]
        /\ diagnostics[u] = latest[u]
        /\ definitions[u] = latest[u]
        /\ shown[u] = latest[u]

(* Two parses of a file, even one that reaches it through an import, store *)
(* their results in the order of the texts they read: no cache, definition *)
(* or diagnostic is replaced by an older one.                              *)
NeverGoesBack ==
    [][\A u \in Uris :
         /\ caches'[u] # None => caches[u] <= caches'[u]
         /\ definitions[u] <= definitions'[u]
         /\ shown'[u] # None => shown[u] <= shown'[u]]_vars

(* goto_definition looks a reference up after it has unlocked the files    *)
(* it found it in: the definitions are never older than that file.         *)
DefinitionsNotOlder ==
    \A s \in Slots :
        task[s].pc = "resolve" /\ Holds(cacheLock, s, 1) =>
            definitions[task[s].uri] >= task[s].arg

(* A text of some file has been received and not yet parsed and stored.    *)
Behind == \E s \in Slots : task[s].pc \in {"write", "snapshot", "store"}

(* A completion asked for in the client's text panics only while the       *)
(* server is behind, but for two kinds of text: after a `.' that is the    *)
(* first character, and after one in a text where characters and bytes     *)
(* are not the same.                                                       *)
PanicOnlyBehind ==
    crashed => \/ Behind
               \/ \E s \in Slots :
                    /\ task[s].pc = "suggest" /\ NamePanics(s)
                    /\ \/ GetOffset(caches[task[s].uri], task[s].pos) = 1
                       \/ textBuffers[task[s].uri] \notin Ascii

(* No handler waits for the files while it holds the global cache.         *)
LockOrder ==
    \A s \in Slots, n \in {1, 2} :
        cacheLock # <<>> /\ Head(cacheLock)[1] = s =>
            \A i \in 2 .. Len(filesLock) : filesLock[i][1] # s

(* A rename that waits for the lock it holds.                              *)
Stuck(t) == t.pc = "collect" /\ t.kind = "rename"

(* A handler that has what it waits for, or whose message is on its way.   *)
WantsFiles(t) ==
    t.pc \in {"write", "snapshot", "store", "remove", "read", "collect"}
WantsCache(t) == t.pc \in {"extend", "resolve", "suggest"}

GoesOn(s) ==
    \/ WantsFiles(task[s]) /\ Holds(filesLock, s, IF Stuck(task[s]) THEN 2 ELSE 1)
    \/ WantsCache(task[s]) /\ Holds(cacheLock, s, 1)
    \/ task[s].pc = "publish" /\ (Waiting(s) => outbox # <<>>)

WaitsFor(s, t) ==
    \/ WantsFiles(task[s]) /\ filesLock # <<>> /\ Head(filesLock)[1] = t
    \/ WantsCache(task[s]) /\ cacheLock # <<>> /\ Head(cacheLock)[1] = t

(* However the handlers have taken the two locks and the channel, each     *)
(* goes on, or waits for one that does, or for one that waits for such a   *)
(* one: they do not wait in a circle, nor for one that is gone, unless a   *)
(* rename waits for itself.                                                *)
BehindOneThatGoesOn ==
    ~crashed /\ (\A s \in Slots : ~Stuck(task[s])) =>
        \A s \in Slots : task[s].pc # "idle" =>
            \/ GoesOn(s)
            \/ \E t \in Slots : WaitsFor(s, t) /\
                    (GoesOn(t) \/ \E r \in Slots : WaitsFor(t, r) /\ GoesOn(r))

(* A handler has few awaits and comes to each once: it cannot keep the     *)
(* others waiting by going on for ever.                                    *)
Awaits(t) ==
    CASE t.pc = "write" -> 5
      [] t.pc = "snapshot" -> 4
      [] t.pc \in {"store", "read"} -> 3
      [] t.pc \in {"extend", "remove", "collect"} -> 2
      [] t.pc \in {"publish", "resolve", "suggest"} -> 1
      [] OTHER -> 0

NeverTurnsBack ==
    [][\A s \in Slots : task[s].pc # "idle" /\ task'[s] # task[s] =>
          Awaits(task'[s]) < Awaits(task[s])]_vars

(* A rename that has found what to rename never returns: it waits for the  *)
(* files with the files locked.                                            *)
RenameNeverReturns ==
    [][\A s \in Slots : Stuck(task[s]) => task'[s] = task[s]]_vars

(* Every handler returns: no two of them wait for each other's locks, nor  *)
(* one for a lock it holds itself.                                         *)
EveryHandlerReturns ==
    \A s \in Slots : task[s] # Idle ~> task[s] = Idle

(* The text the client last sent is eventually the one it has diagnostics  *)
(* for, unless it is replaced or closed before that.                       *)
LatestShown ==
    \A u \in Uris, v \in Versions :
        latest[u] = v ~> (shown[u] = v \/ latest[u] # v)
=============================================================================
