------------------------------ MODULE Explorer ------------------------------
(***************************************************************************)
(* The workspace of the playground: the file tree, the texts, the tabs and *)
(* the list of compiled files that the store keeps (packages/frontend/src/ *)
(* state), the components that send it events, and the text the editor     *)
(* shows.                                                                  *)
(*                                                                         *)
(* A place is the sequence of names that leads to a node below `explorer'; *)
(* it stands for the lodash path the code makes of them.  The code keeps   *)
(* that path in the node as well: the copy is what the components use, and *)
(* it does not follow the node when a folder above it is renamed.          *)
(*                                                                         *)
(* Every event of the store is an operator from the context to the next    *)
(* context, as in the code; an action is what one user gesture, or one     *)
(* promise that resolves, sends.  React and the Monaco component are       *)
(* external: a component whose render throws takes the page down, and the  *)
(* editor's text is replaced when the value it is given changes.           *)
(***************************************************************************)
EXTENDS Integers, Sequences, SequencesExt, FiniteSets

CONSTANTS
    Src, Main,      \* the folder and the file of the initial state
    Unnamed,        \* the empty name a node is created with
    OtherNames,     \* the names the user types
    Code,           \* the text of main.sol
    Empty,          \* the empty text
    OtherTexts,     \* the texts the user types or drops
    NoText,         \* undefined
    Home, None,     \* currentFile is "home", or null
    MaxNodes,       \* bound: nodes of the tree
    MaxGestures     \* bound: gestures of the user, the choice of a view apart

NewNames == OtherNames \cup {Unnamed}
Names == NewNames \cup {Src, Main}
Texts == OtherTexts \cup {Empty, Code}
Places == [{1} -> Names] \cup [{1, 2} -> Names]
Views == {"files", "compile", "deploy"}

ASSUME BoundsAssumption == MaxNodes \in Nat /\ MaxGestures \in Nat
ASSUME NoTextAssumption == NoText \notin Texts
ASSUME NoPlaceAssumption == Home # None /\ Home \notin Places /\ None \notin Places

VARIABLES
    context,        \* the context of the store
    view,           \* what the sidebar shows
    loaded,         \* Monaco has been loaded and init() called
    shown,          \* the text in the editor
    drops,          \* files dropped on a folder and not yet read
    compiling,      \* files whose compilation is awaited
    crashed,        \* a component has thrown while it rendered
    gestures,       \* how many gestures the user has made
    causes          \* history: the rare things that have happened

vars == <<context, view, loaded, shown, drops, compiling, crashed, gestures,
          causes>>

Node == [kind : {"file", "folder", "hole"}, path : Places, open : BOOLEAN]
File(p) == [kind |-> "file", path |-> p, open |-> FALSE]
Folder(p, open) == [kind |-> "folder", path |-> p, open |-> open]
Hole(p) == [kind |-> "hole", path |-> p, open |-> FALSE]  \* it has no path

Child(base, n) == Append(base, n)
Ancestors(p) == {SubSeq(p, 1, k) : k \in 1 .. Len(p) - 1}
Under(p, q) == q \in Places /\ IsPrefix(p, q)

(* The function f with the value v for x, which may be new to it.          *)
With(f, x, v) == [y \in DOMAIN f \cup {x} |-> IF y = x THEN v ELSE f[y]]

Init ==
    /\ context = [explorer |-> [p \in {<<Src>>} |-> Folder(p, TRUE)],
                  files |-> <<>>, tabs |-> <<>>, currentFile |-> Home,
                  compiled |-> {}]
    /\ view = "files"
    /\ loaded = FALSE
    /\ shown = Empty
    /\ drops = {}
    /\ compiling = {}
    /\ crashed = FALSE
    /\ gestures = 0
    /\ causes = {}

-----------------------------------------------------------------------------
(* lodash set() and unset(): set() makes an object with nothing but items  *)
(* of every folder it misses on the way.                                   *)
Cut(tree, p) == Restrict(tree, {q \in DOMAIN tree : ~Under(p, q)})

Set(tree, p, node) ==
    [q \in DOMAIN Cut(tree, p) \cup Ancestors(p) \cup {p} |->
        IF q = p THEN node ELSE IF q \in DOMAIN tree THEN tree[q] ELSE Hole(q)]

TextOf(c, p) == IF p \in DOMAIN c.files THEN c.files[p] ELSE NoText

-----------------------------------------------------------------------------
(* The events of the store.                                                *)
AddTab(c, p) == IF Contains(c.tabs, p) THEN c
                ELSE [c EXCEPT !.tabs = Append(@, p)]

SetCurrentPath(c, p) == AddTab([c EXCEPT !.currentFile = p], p)

(* The tabs that stay, in their order, when those in `gone' are deleted.   *)
Without(tabs, gone) ==
    LET Left[i \in 0 .. Len(tabs)] ==
            IF i = 0 THEN <<>>
            ELSE IF tabs[i] \in gone THEN Left[i - 1]
                                     ELSE Append(Left[i - 1], tabs[i])
    IN  Left[Len(tabs)]

(* Mutant of RemoveTab: the file of the tab stays open.                    *)
RemoveTab_KeepsCurrent(c, p) == [c EXCEPT !.tabs = Without(@, {p})]

RemoveTab(c, p) ==
    LET left == Without(c.tabs, {p}) IN
    [c EXCEPT !.tabs = left,
              !.currentFile = IF @ # p THEN @
                              ELSE IF left = <<>> THEN None ELSE Last(left)]

(* Mutant of ChangeContent: it is the file of the last tab that is edited. *)
ChangeContent_LastTab(c, text) ==
    IF c.currentFile = None THEN c
    ELSE [c EXCEPT !.files = With(@, Last(c.tabs), text)]

ChangeContent(c, text) ==
    IF c.currentFile = None THEN c
    ELSE [c EXCEPT !.files = With(@, c.currentFile, text)]

AddFile(c, base, n, text) ==
    LET p == Child(base, n) IN
    AddTab([c EXCEPT !.explorer = Set(@, p, File(p)),
                     !.files = With(@, p, text),
                     !.currentFile = p], p)

AddFiles(c, base, files) ==
    LET Added[i \in 0 .. Len(files)] ==
            IF i = 0 THEN c
            ELSE AddFile(Added[i - 1], base, files[i][1], files[i][2])
    IN  Added[Len(files)]

AddFolder(c, base, n) ==
    LET p == Child(base, n) IN
    [c EXCEPT !.explorer = Set(@, p, Folder(p, TRUE))]

(* Mutant of DeleteFile: the file stays in the list of compiled files.     *)
DeleteFile_KeepsCompiled(c, p, base) ==
    LET d == RemoveTab(c, p) IN
    [d EXCEPT !.explorer = Cut(@, Child(base, Last(p))),
              !.files = Restrict(@, DOMAIN @ \ {p})]

(* The node goes from the folder the component is in, its text and its tab *)
(* go under the path the node keeps.                                       *)
DeleteFile(c, p, base) ==
    LET d == RemoveTab(c, p) IN
    [d EXCEPT !.explorer = Cut(@, Child(base, Last(p))),
              !.files = Restrict(@, DOMAIN @ \ {p}),
              !.compiled = @ \ {p}]

(* removeNestedTabs is part of it; currentFile is left as it is.           *)
DeleteFolder(c, p) ==
    [c EXCEPT !.explorer = Cut(@, p),
              !.tabs = Without(@, {q \in Places : Under(p, q)})]

(* Mutants of RenameFile: the old file is deleted before its text is read, *)
(* or the new node is given the old path.                                  *)
RenameFile_DeletesFirst(c, p, base, n) ==
    LET d == DeleteFile(c, p, base) IN AddFile(d, base, n, TextOf(d, p))

RenameFile_KeepsPath(c, p, base, n) ==
    LET d == DeleteFile(AddFile(c, base, n, TextOf(c, p)), p, base)
        q == Child(base, n)
    IN  [d EXCEPT !.explorer = IF q \in DOMAIN @ THEN With(@, q, File(p))
                                                 ELSE @]

(* A file renamed to the name it has is deleted.  (The test of currentFile *)
(* between the two changes nothing: addFile has set it already.)           *)
RenameFile(c, p, base, n) ==
    DeleteFile(AddFile(c, base, n, TextOf(c, p)), p, base)

(* The new folder takes over the items object, so the nodes below move     *)
(* with the paths they have; then the old path is unset, whether or not it *)
(* is the new one.                                                         *)
RenameFolder(c, p, base, n) ==
    LET new     == Child(base, n)
        Moved(q) == new \o SubSeq(q, Len(p) + 1, Len(q))
        below   == {q \in DOMAIN c.explorer : Under(p, q) /\ q # p}
        placed  == Set(c.explorer, new, Folder(new, c.explorer[p].open))
        moved   == {Moved(q) : q \in below}
        items   == [r \in moved \cup DOMAIN placed |->
                       IF r \in moved
                       THEN c.explorer[p \o SubSeq(r, Len(new) + 1, Len(r))]
                       ELSE placed[r]]
    IN  DeleteFolder([c EXCEPT !.explorer = items], p)

ToggleFolder(c, p) == [c EXCEPT !.explorer[p].open = ~@]

AddCompiled(c, p) == [c EXCEPT !.compiled = @ \cup {p}]

-----------------------------------------------------------------------------
(* The nodes a component is made for: those in folders that are open.      *)
Rendered(tree) ==
    {p \in DOMAIN tree : \A q \in Ancestors(p) :
        tree[q].kind = "folder" /\ tree[q].open}

(* File reads the name of, and Folder the items of, whatever is at the     *)
(* node's path; a hole is taken for a folder without a path.               *)
TreeRenders(tree) ==
    \A p \in Rendered(tree) :
        /\ tree[p].kind # "hole"
        /\ tree[p].path \in DOMAIN tree
        /\ tree[p].kind = "folder" => tree[tree[p].path].kind # "file"

(* CompileExplorer reads the name of the node of the current file.         *)
Renders(c, v) ==
    /\ v = "files" => TreeRenders(c.explorer)
    /\ v = "compile" /\ c.currentFile \in Places =>
            c.currentFile \in DOMAIN c.explorer

(* The value Editor gives to Monaco, undefined for home; Monaco's text is  *)
(* replaced when the value has changed and is not undefined.               *)
Value(c) == IF c.currentFile = None THEN Empty ELSE TextOf(c, c.currentFile)

Refreshed(c) ==
    IF loaded /\ Value(c) # Value(context) /\ Value(c) # NoText
    THEN Value(c) ELSE shown

(* What follows when the store has the context c and the sidebar shows v.  *)
Update(c, v) ==
    /\ Cardinality(DOMAIN c.explorer) <= MaxNodes
    /\ context' = c
    /\ view' = v
    /\ shown' = Refreshed(c)
    /\ crashed' = ~Renders(c, v)

Gesture ==
    /\ ~crashed
    /\ gestures < MaxGestures
    /\ gestures' = gestures + 1

Send(c) ==
    /\ Gesture
    /\ Update(c, view)
    /\ UNCHANGED <<loaded, drops, compiling>>

-----------------------------------------------------------------------------
Explored(kind) ==
    IF view # "files" THEN {}
    ELSE {p \in Rendered(context.explorer) : context.explorer[p].kind = kind}

PathOf(p) == context.explorer[p].path

(* The folders children are made in: `explorer' itself and those of the    *)
(* first level, whose path is where they are.                              *)
Bases ==
    IF view # "files" THEN {}
    ELSE {<<>>} \cup {p \in Explored("folder") : Len(p) = 1}

ClickFile(p) ==
    /\ Send(SetCurrentPath(context, PathOf(p)))
    /\ UNCHANGED causes

(* A folder renders its children again when their names change: a file put *)
(* where a folder was, or the reverse, would keep the other's component    *)
(* for a while, which is not modelled.                                     *)
Takes(base, n, kind) ==
    LET p == Child(base, n) IN
    p \in DOMAIN context.explorer => context.explorer[p].kind \in {kind, "hole"}

NewFile(base) ==
    /\ Takes(base, Unnamed, "file")
    /\ Send(AddFile(context, base, Unnamed, Empty))
    /\ UNCHANGED causes

NewFolder(base) ==
    /\ Takes(base, Unnamed, "folder")
    /\ Send(AddFolder(context, base, Unnamed))
    /\ UNCHANGED causes

TrashFile(p) ==
    /\ Send(DeleteFile(context, PathOf(p), Front(p)))
    /\ UNCHANGED causes

TrashFolder(p) ==
    /\ Send(DeleteFolder(context, PathOf(p)))
    /\ UNCHANGED causes

(* The input starts with the name the node has.                            *)
ConfirmFile(p, n) ==
    /\ Send(RenameFile(context, PathOf(p), Front(p), n))
    /\ UNCHANGED causes

ConfirmFolder(p, n) ==
    /\ Send(RenameFolder(context, PathOf(p), Front(p), n))
    /\ causes' = IF \E q \in DOMAIN context.explorer :
                        q # p /\ Under(p, q) /\ n # Last(p)
                 THEN causes \cup {"moved"} ELSE causes

Toggle(p) ==
    /\ Send(ToggleFolder(context, PathOf(p)))
    /\ UNCHANGED causes

ClickTab(tab) ==
    /\ Contains(context.tabs, tab)
    /\ Send(SetCurrentPath(context, tab))
    /\ UNCHANGED causes

CloseTab(tab) ==
    /\ Contains(context.tabs, tab)
    /\ Send(RemoveTab(context, tab))
    /\ UNCHANGED causes

ShowView(v) ==
    /\ ~crashed
    /\ v # view
    /\ Update(context, v)
    /\ UNCHANGED <<loaded, drops, compiling, gestures, causes>>

(* Monaco calls onChange for what the user types; home covers the editor.  *)
Type(text) ==
    /\ Gesture
    /\ loaded
    /\ context.currentFile # Home
    /\ text # shown
    /\ context' = ChangeContent(context, text)
    /\ shown' = text
    /\ causes' = IF context.currentFile = None THEN causes \cup {"stray"}
                                               ELSE causes
    /\ UNCHANGED <<view, loaded, drops, compiling, crashed>>

(* The deploy view's list of compiled files.                               *)
Select(p) ==
    /\ view = "deploy"
    /\ p \in context.compiled
    /\ Send(SetCurrentPath(context, p))
    /\ UNCHANGED causes

-----------------------------------------------------------------------------
(* beforeMount: init() sends the events of initState, then the editor is   *)
(* created with the value it was rendered with.                            *)
MonacoLoads ==
    /\ ~loaded
    /\ ~crashed
    /\ LET c == SetCurrentPath(SetCurrentPath(
                    AddFile(context, <<Src>>, Main, Code),
                    <<Src, Main>>), Home)
       IN  /\ Cardinality(DOMAIN c.explorer) <= MaxNodes
           /\ context' = c
           /\ crashed' = ~Renders(c, view)
    /\ loaded' = TRUE
    /\ shown' = IF Value(context) = NoText THEN Empty ELSE Value(context)
    /\ causes' = IF <<Src>> \in DOMAIN context.explorer THEN causes
                 ELSE causes \cup {"late"}
    /\ UNCHANGED <<view, drops, compiling, gestures>>

(* handleFileDrop: the path of the folder is kept across the await.        *)
Drop(base, files) ==
    /\ Gesture
    /\ drops = {}
    /\ drops' = {<<base, files>>}
    /\ UNCHANGED <<context, view, loaded, shown, compiling, crashed, causes>>

(* If one of them could not be read, no file is added.                     *)
DropRead(drop) ==
    /\ ~crashed
    /\ drops' = drops \ {drop}
    /\ \/ /\ \A i \in 1 .. Len(drop[2]) : Takes(drop[1], drop[2][i][1], "file")
          /\ Update(AddFiles(context, drop[1], drop[2]), view)
       \/ Update(context, view)
    /\ causes' = IF drop[1] \in {<<>>} \cup DOMAIN context.explorer THEN causes
                 ELSE causes \cup {"late"}
    /\ UNCHANGED <<loaded, compiling, gestures>>

(* handleCompile: so is the path of the current file.                      *)
Compile ==
    /\ Gesture
    /\ view = "compile"
    /\ context.currentFile \in Places
    /\ compiling' = compiling \cup {context.currentFile}
    /\ UNCHANGED <<context, view, loaded, shown, drops, crashed, causes>>

(* Whether the compilation succeeded or not, the file is listed.           *)
CompileReturns(p) ==
    /\ ~crashed
    /\ compiling' = compiling \ {p}
    /\ Update(AddCompiled(context, p), view)
    /\ causes' = IF p \in DOMAIN context.files THEN causes
                 ELSE causes \cup {"stale"}
    /\ UNCHANGED <<loaded, drops, gestures>>

Dropped == {<<<<n, t>>>> : n \in OtherNames, t \in OtherTexts}
               \cup {<<<<n, t>>, <<Main, t>>>> : n \in OtherNames,
                                                  t \in OtherTexts}

Next ==
    \/ \E p \in Explored("file") :
          \/ ClickFile(p)
          \/ TrashFile(p)
          \/ \E n \in NewNames \cup {Last(p)} : ConfirmFile(p, n)
    \/ \E p \in Explored("folder") :
          \/ TrashFolder(p)
          \/ Toggle(p)
          \/ \E n \in NewNames \cup {Last(p)} : ConfirmFolder(p, n)
    \/ \E base \in Bases :
          \/ NewFile(base)
          \/ NewFolder(base)
          \/ \E files \in Dropped : Drop(base, files)
    \/ \E tab \in ToSet(context.tabs) : ClickTab(tab) \/ CloseTab(tab)
    \/ \E v \in Views : ShowView(v)
    \/ \E text \in Texts : Type(text)
    \/ \E p \in context.compiled : Select(p)
    \/ MonacoLoads
    \/ \E drop \in drops : DropRead(drop)
    \/ Compile
    \/ \E p \in compiling : CompileReturns(p)

Spec == Init /\ [][Next]_vars

-----------------------------------------------------------------------------
TypeOK ==
    /\ DOMAIN context = {"explorer", "files", "tabs", "currentFile", "compiled"}
    /\ DOMAIN context.explorer \subseteq Places
    /\ \A p \in DOMAIN context.explorer :
          context.explorer[p] \in Node
    /\ DOMAIN context.files \subseteq Places
    /\ \A p \in DOMAIN context.files : context.files[p] \in Texts \cup {NoText}
    /\ context.tabs \in Seq(Places \cup {Home})
    /\ IsInjective(context.tabs)
    /\ context.currentFile \in Places \cup {Home, None}
    /\ context.compiled \subseteq Places
    /\ view \in Views
    /\ loaded \in BOOLEAN
    /\ shown \in Texts
    /\ compiling \subseteq Places
    /\ crashed \in BOOLEAN
    /\ gestures \in 0 .. MaxGestures
    /\ causes \subseteq {"moved", "late", "stale", "stray"}

(* Every file of the tree has a text, until a folder is renamed with nodes *)
(* in it and they keep the paths they had.                                 *)
FilesHaveTexts ==
    "moved" \notin causes =>
        \A p \in DOMAIN context.explorer :
            context.explorer[p].kind = "file" => TextOf(context, p) # NoText

(* Whatever a tab, the editor or the list of compiled files can open has a *)
(* text, unless a file was deleted or renamed while it was being compiled: *)
(* what is typed never goes to a file that is not there.                   *)
OpenHasText ==
    causes \cap {"moved", "stale"} = {} =>
        \A p \in ToSet(context.tabs) \cup {context.currentFile}
                    \cup context.compiled :
            p \in Places => TextOf(context, p) # NoText

(* The file the editor has open has a tab, as long as it is in the tree:   *)
(* deleting the folder it is in closes the tab only.                       *)
OpenFileHasTab ==
    /\ context.currentFile \in DOMAIN context.explorer
       /\ context.explorer[context.currentFile].kind = "file"
       /\ "moved" \notin causes =>
            Contains(context.tabs, context.currentFile)
    /\ loaded /\ context.currentFile = Home => Contains(context.tabs, Home)
    /\ context.currentFile = None => context.tabs = <<>>

(* The text in the editor is that of the current file, unless text was     *)
(* typed while no file was open: an empty file opened next does not        *)
(* replace it.                                                             *)
EditorShowsCurrent ==
    loaded /\ context.currentFile \in DOMAIN context.files =>
        \/ shown = TextOf(context, context.currentFile)
        \/ TextOf(context, context.currentFile) = NoText
        \/ "stray" \in causes /\ TextOf(context, context.currentFile) = Empty

(* The file explorer renders, unless a folder was renamed with nodes in it *)
(* or files arrived for a folder that is not there any more.               *)
ExplorerRenders ==
    crashed /\ view = "files" => causes \cap {"moved", "late"} # {}
=============================================================================
