---------------------------- MODULE EditorSession ----------------------------
(***************************************************************************)
(* From the page to the language server: init() and mountService() of      *)
(* lib/editor, the client's start, the debounced changes and the markers.  *)
(*                                                                         *)
(* The page has one Monaco model for its whole life: to open a file is to  *)
(* give the model another text, which it reports as it reports typing.  A  *)
(* text is the number of times the model's text has changed.  Monaco, the  *)
(* timers and tower-lsp are external; the server's handlers and their      *)
(* locks are in LanguageServer, here they answer in the order of arrival.  *)
(***************************************************************************)
EXTENDS Integers, Sequences, FiniteSets

CONSTANTS
    MaxEdits,       \* bound: changes of the model's text
    Wide            \* the texts with more bytes in UTF-8 than units in UTF-16

None == -1              \* no text; the diagnostics then say: file not found
Texts == 0 .. MaxEdits

ASSUME EditsAssumption == MaxEdits \in Nat
ASSUME WideAssumption == Wide \subseteq Texts

VARIABLES
    page,       \* how far init() is: "loading", "asking", "started"
    mounted,    \* the editor exists and mountService has run
    hook,       \* afterInitializedHooks holds the hook of mountService
    language,   \* the providers and onDidCreateModel are registered
    text,       \* what the model holds
    debounce,   \* the 200 ms timer of the change handler runs
    timers,     \* how many 500 ms timers run
    into,       \* the messages in intoServer
    skewed,     \* the rest of a frame cut short is left in the stream
    accepts,    \* tower-lsp has served initialize
    buffer,     \* the server's text_buffers entry of the model's uri
    from,       \* fromServer.notifications: diagnostics not yet taken
    diagnostic, \* client.diagnostic: the text it is about
    markers,    \* the text the model's markers are about
    late,       \* history: the hooks were run before the editor was mounted
    early,      \* history: a 500 ms timer fired before the answer had come
    lost        \* history: the server has not got the didOpen

vars == <<page, mounted, hook, language, text, debounce, timers, into, skewed,
          accepts, buffer, from, diagnostic, markers, late, early, lost>>

Message == {[kind |-> "initialize", text |-> None]}
               \cup [kind : {"open", "change"}, text : Texts]

Init ==
    /\ page = "loading"
    /\ mounted = FALSE
    /\ hook = FALSE
    /\ language = FALSE
    /\ text = 0
    /\ debounce = FALSE
    /\ timers = 0
    /\ into = <<>>
    /\ skewed = FALSE
    /\ accepts = FALSE
    /\ buffer = None
    /\ from = <<>>
    /\ diagnostic = None
    /\ markers = None
    /\ late = FALSE
    /\ early = FALSE
    /\ lost = FALSE

-----------------------------------------------------------------------------
(* beforeMount has called init(); the wasm module is there: the language   *)
(* is registered, the server serves, and the client sends initialize.      *)
WasmLoaded ==
    /\ page = "loading"
    /\ page' = "asking"
    /\ language' = TRUE
    /\ into' = Append(into, [kind |-> "initialize", text |-> None])
    /\ UNCHANGED <<mounted, hook, text, debounce, timers, skewed, accepts,
                   buffer, from, diagnostic, markers, late, early, lost>>

(* The model is created, which starts a timer for its markers if the       *)
(* language is registered by then; onMount pushes the hook.                *)
Mount ==
    /\ ~mounted
    /\ mounted' = TRUE
    /\ hook' = TRUE
    /\ timers' = IF language THEN timers + 1 ELSE timers
    /\ UNCHANGED <<page, language, text, debounce, into, skewed, accepts,
                   buffer, from, diagnostic, markers, late, early, lost>>

(* Mutant of Open: the text is the one the editor was mounted with.        *)
Open_AtMount == [kind |-> "open", text |-> 0]

Open == [kind |-> "open", text |-> text]

(* The response of initialize is there: the hooks pushed so far are run,   *)
(* then the client's loops start.                                          *)
Initialized ==
    /\ page = "asking"
    /\ accepts
    /\ page' = "started"
    /\ into' = IF hook THEN Append(into, Open) ELSE into
    /\ late' = ~hook
    /\ UNCHANGED <<mounted, hook, language, text, debounce, timers, skewed,
                   accepts, buffer, from, diagnostic, markers, early, lost>>

-----------------------------------------------------------------------------
(* The user types, or opens another file: the timer starts over.           *)
Edit ==
    /\ mounted
    /\ text < MaxEdits
    /\ text' = text + 1
    /\ debounce' = TRUE
    /\ UNCHANGED <<page, mounted, hook, language, timers, into, skewed,
                   accepts, buffer, from, diagnostic, markers, late, early,
                   lost>>

(* fileChanged sends the whole text, whether or not the client has started *)
(* and the model been opened.                                              *)
SendChange ==
    /\ debounce
    /\ debounce' = FALSE
    /\ into' = Append(into, [kind |-> "change", text |-> text])
    /\ timers' = timers + 1
    /\ UNCHANGED <<page, mounted, hook, language, text, skewed, accepts,
                   buffer, from, diagnostic, markers, late, early, lost>>

InFlight == into # <<>> \/ from # <<>>

(* setModelMarkers with the diagnostics there are.                         *)
SetMarkers ==
    /\ timers > 0
    /\ timers' = timers - 1
    /\ markers' = diagnostic
    /\ early' = (early \/ InFlight)
    /\ UNCHANGED <<page, mounted, hook, language, text, debounce, into, skewed,
                   accepts, buffer, from, diagnostic, late, lost>>

-----------------------------------------------------------------------------
(* Headers.add gives the length of a message in UTF-16 units; the encoder  *)
(* then writes it in UTF-8.  The frame of a wide text is cut short.        *)
Whole(m) == m.text \notin Wide

(* The server: before initialize everything is refused; did_open stores    *)
(* the text, did_change only that of an open file, and takes the first     *)
(* change for the whole text; both parse and publish.                      *)
Stored(m) == IF m.kind = "open" \/ buffer # None THEN m.text ELSE None

(* tower-lsp reads a whole frame, past the rest of a cut one if it finds   *)
(* it.                                                                     *)
ReadFrame ==
    /\ into # <<>>
    /\ Whole(Head(into))
    /\ into' = Tail(into)
    /\ skewed' = FALSE

ServeInitialize ==
    /\ ReadFrame
    /\ Head(into).kind = "initialize"
    /\ accepts' = TRUE
    /\ UNCHANGED <<page, mounted, hook, language, text, debounce, timers,
                   buffer, from, diagnostic, markers, late, early, lost>>

ServeDocument ==
    /\ ReadFrame
    /\ Head(into).kind # "initialize"
    /\ buffer' = IF accepts THEN Stored(Head(into)) ELSE buffer
    /\ from' = IF accepts THEN Append(from, Stored(Head(into))) ELSE from
    /\ UNCHANGED <<page, mounted, hook, language, text, debounce, timers,
                   accepts, diagnostic, markers, late, early, lost>>

(* What is read of a cut frame is no JSON: it is dropped, and its rest     *)
(* stands before the next frame, which may then not be found.              *)
LoseFrame ==
    /\ into # <<>>
    /\ skewed \/ ~Whole(Head(into))
    /\ into' = Tail(into)
    /\ skewed' = TRUE
    /\ lost' = (lost \/ Head(into).kind = "open")
    /\ UNCHANGED <<page, mounted, hook, language, text, debounce, timers,
                   accepts, buffer, from, diagnostic, markers, late, early>>

Serve == ServeInitialize \/ ServeDocument \/ LoseFrame

(* Mutant of Latest: diagnostics are kept once there are some.             *)
Latest_First(old, new) == IF old = None THEN new ELSE old

Latest(old, new) == new

(* processNotifications takes them one by one once the client has started. *)
TakeDiagnostics ==
    /\ page = "started"
    /\ from # <<>>
    /\ from' = Tail(from)
    /\ diagnostic' = Latest(diagnostic, Head(from))
    /\ UNCHANGED <<page, mounted, hook, language, text, debounce, timers, into,
                   skewed, accepts, buffer, markers, late, early, lost>>

Next ==
    \/ WasmLoaded
    \/ Mount
    \/ Initialized
    \/ Edit
    \/ SendChange
    \/ SetMarkers
    \/ Serve
    \/ TakeDiagnostics

Spec == Init /\ [][Next]_vars

(* The wasm is fetched, the editor mounted, timers fire, promises resolve  *)
(* and the server takes what is in its stream; the user need not type.     *)
FairSpec ==
    /\ Spec
    /\ WF_vars(WasmLoaded) /\ WF_vars(Mount) /\ WF_vars(Initialized)
    /\ WF_vars(SendChange) /\ WF_vars(SetMarkers)
    /\ WF_vars(Serve) /\ WF_vars(TakeDiagnostics)

-----------------------------------------------------------------------------
TypeOK ==
    /\ page \in {"loading", "asking", "started"}
    /\ {mounted, hook, language, debounce, skewed, accepts, late, early, lost}
         \subseteq BOOLEAN
    /\ text \in Texts
    /\ {buffer, diagnostic, markers} \subseteq Texts \cup {None}
    /\ timers \in Nat
    /\ into \in Seq(Message)
    /\ from \in Seq(Texts \cup {None})

(* The editor and the server agree when nothing is on its way: whatever    *)
(* was typed before initialize (refused), between it and didOpen (not      *)
(* stored, the file is not open yet) or within the 200 ms of a change, the *)
(* server ends up with the model's whole text.  They agree again after a   *)
(* frame that was cut short, as soon as a later one is read whole.  Two    *)
(* things cannot be made good, and all changes are dropped after them: an  *)
(* editor mounted after the hooks were run, whose model is never opened,   *)
(* and a didOpen that was lost.                                            *)
Quiet == page = "started" /\ mounted /\ ~debounce /\ ~InFlight

InSyncWhenQuiet ==
    Quiet /\ ~skewed => buffer = (IF late \/ lost THEN None ELSE text)

(* The markers the user is left with are about the text in the editor,     *)
(* whatever file it is of, provided it has been changed after the client   *)
(* started, the editor was mounted in time, the last frame and didOpen     *)
(* were read whole, and no answer of the server took longer than the       *)
(* 500 ms the timer waits for it: nothing sets the markers again when a    *)
(* late answer comes.                                                      *)
ChangedSince == page = "started" /\ debounce

CutOff == skewed /\ into = <<>> /\ ~debounce

MarkersSettle ==
    ChangedSince ~> (late \/ early \/ lost \/ CutOff \/ markers = text)
=============================================================================
