-------------------------------- MODULE Deploy --------------------------------
(***************************************************************************)
(* Compiling, deploying and invoking a contract from the page: the hooks   *)
(* useCompile and useDeploy as the header, the compile view and the deploy *)
(* view call them, the two transactions of a deployment, the events on the *)
(* store's currentWasm and contract, and the dialog of an invocation.      *)
(*                                                                         *)
(* A click starts a task, a chain of awaits whose steps interleave with    *)
(* other clicks.  Everything a handler reads is what its component was     *)
(* rendered with, that is, what there was at the click; what it sends the  *)
(* store meets the store of later.  A wasm is the file and the text it was *)
(* compiled from.  The compile service, the network and its ledger are     *)
(* external: any call may fail, and a transaction that was sent is         *)
(* included with success, included as failed, or never included.           *)
(***************************************************************************)
EXTENDS Integers, FiniteSets, Functions

CONSTANTS
    Files,
    Home,           \* the home page, which has no text
    Null,           \* no file, no wasm, no address
    MaxTasks,       \* bound: clicks that start a task
    MaxPolls,       \* how often a deployment asks for its transaction (20)
    MaxEdits        \* bound: edits; a text is the number of its edits

ASSUME NullAssumption == Null # Home /\ {Null, Home} \cap Files = {}
ASSUME BoundsAssumption ==
    MaxTasks \in Nat /\ MaxPolls \in Nat \ {0} /\ MaxEdits \in Nat

Tasks == 1 .. MaxTasks

VARIABLES
    currentFile, text,  \* the store: the file shown, the text of each file
    currentWasm,        \* the store: the last wasm compiled, with its path
    compiled,           \* the store: the files the compile view has listed
    contract,           \* the store: methods, address and deployed
    held,               \* the header's `contract'
    task,               \* the clicks and how far they are
    ledger,             \* what became of the transactions of each task
    dialog,             \* the dialog that blocks the page is open
    overtaken,          \* history: tasks whose methods were replaced by
                        \* those of another before they had their address
    gaveUp,             \* history: tasks that stopped asking about what they
                        \* had sent
    listed              \* history: the addresses that have been in deployed

history == <<overtaken, gaveUp, listed>>
vars == <<currentFile, text, currentWasm, compiled, contract, held, task,
          ledger, dialog, history>>

(* sel, code, wasm0, given: the current file, its text, currentWasm and    *)
(* what deployWasm was called with, at the click; wasm: its `contract'.    *)
NoWasm == [path |-> Null, buff |-> Null]

Idle == [pc |-> "idle", by |-> "none", sel |-> Null, code |-> 0,
         wasm0 |-> NoWasm, given |-> Null, wasm |-> Null, polls |-> 0]

Init ==
    /\ currentFile = Home
    /\ text = [f \in Files |-> 0]
    /\ currentWasm = NoWasm
    /\ compiled = {}
    /\ contract = [methods |-> Null, address |-> Null, deployed |-> <<>>]
    /\ held = Null
    /\ task = [t \in Tasks |-> Idle]
    /\ ledger = [t \in Tasks |-> [upload |-> "none", create |-> "none",
                                  invoke |-> "none"]]
    /\ dialog = FALSE
    /\ overtaken = {}
    /\ gaveUp = {}
    /\ listed = {}

Running(t) == task[t].pc \notin {"idle", "done"}
Free == {t \in Tasks : task[t].pc = "idle"}
IsNext(t) == t \in Free /\ \A u \in Free : t <= u
Go(t, pc) == task' = [task EXCEPT ![t].pc = pc]
Done(t) == task' = [task EXCEPT ![t] =
                        [Idle EXCEPT !.pc = "done", !.wasm = task[t].wasm]]
StoreUnchanged == UNCHANGED <<currentFile, text, currentWasm, compiled, contract>>

-----------------------------------------------------------------------------
(* The user.  An open dialog is modal: nothing else can be clicked.        *)
ShowFile(f) ==
    /\ ~dialog
    /\ f # currentFile
    /\ Free # {}
    /\ currentFile' = f
    /\ UNCHANGED <<text, currentWasm, compiled, contract, held, task, ledger,
                   dialog, history>>

Edits == FoldFunction(LAMBDA n, m : n + m, 0, text)

Edit ==
    /\ ~dialog
    /\ currentFile \in Files
    /\ Free # {}
    /\ Edits < MaxEdits
    /\ text' = [text EXCEPT ![currentFile] = @ + 1]
    /\ UNCHANGED <<currentFile, currentWasm, compiled, contract, held, task,
                   ledger, dialog, history>>

(* deployWasm with the local contract w: the wasm last compiled if the     *)
(* path it was compiled from contains the selected one, as any path        *)
(* contains that of no file; else w; else the file is compiled.            *)
Chosen(sel, wasm0, w) ==
    IF sel = Null \/ wasm0.path = sel THEN wasm0.buff ELSE w

CompilesFirst(sel, wasm0, w) ==
    sel # Null /\ wasm0.path # sel /\ w = Null

(* A click makes the closure; pc is what it first awaits.                  *)
Click(t, by, pc, w) ==
    /\ ~dialog
    /\ IsNext(t)
    /\ task' = [task EXCEPT ![t] =
            [pc |-> pc, by |-> by, sel |-> currentFile,
             code |-> IF currentFile \in Files THEN text[currentFile] ELSE 0,
             wasm0 |-> currentWasm, given |-> held, wasm |-> w, polls |-> 0]]
    /\ StoreUnchanged
    /\ UNCHANGED <<held, ledger, dialog, history>>

(* No source code: compileFile returns at once, the header forgets what it *)
(* held, and a deployment ends.                                            *)
HeaderCompile(t) ==
    \/ currentFile \in Files /\ Click(t, "header", "compile", Null)
    \/ /\ currentFile \notin Files /\ ~dialog /\ held # Null
       /\ held' = Null
       /\ StoreUnchanged
       /\ UNCHANGED <<task, ledger, dialog, history>>

ViewCompile(t) == currentFile \in Files /\ Click(t, "view", "compile", Null)

StartDeploy(t, by, w) ==
    LET c == Chosen(currentFile, currentWasm, w) IN
    IF CompilesFirst(currentFile, currentWasm, w)
    THEN currentFile \in Files /\ Click(t, by, "compileThenIdl", Null)
    ELSE c # Null /\ Click(t, by, "idl", c)

HeaderDeploy(t) == StartDeploy(t, "headerDeploy", held)

(* The deploy view: nothing to click before a file has been listed; the    *)
(* file is compiled unless the path of the last wasm is part of its own.   *)
ViewDeploy(t) ==
    /\ compiled # {}
    /\ IF currentFile \in Files /\ currentWasm.path \notin {Null, currentFile}
       THEN Click(t, "viewDeploy", "compileThenDeploy", Null)
       ELSE StartDeploy(t, "viewDeploy", Null)

RemoveDeployed(a) ==
    /\ ~dialog
    /\ a \in DOMAIN contract.deployed
    /\ contract' = [contract EXCEPT !.deployed =
                        [b \in DOMAIN @ \ {a} |-> @[b]]]
    /\ UNCHANGED <<currentFile, text, currentWasm, compiled, held, task, ledger,
                   dialog, history>>

-----------------------------------------------------------------------------
(* The answer of the compile service.                                      *)
Built(t) == [file |-> task[t].sel, text |-> task[t].code]

(* Mutant of SetCurrentWasm: the path of the file shown by then.           *)
SetCurrentWasm_Late(w) == currentWasm' = [path |-> currentFile, buff |-> w]

(* updateCurrentWasm, with the path and the text of the click.             *)
SetCurrentWasm(w) == currentWasm' = [path |-> w.file, buff |-> w]

(* What each caller does with the wasm, or with Null.                      *)
AfterCompile(t, w) ==
    LET T == task[t] IN
    \/ /\ T.pc = "compile" /\ T.by = "header"
       /\ held' = w
       /\ Done(t)
       /\ UNCHANGED compiled
    \/ /\ T.pc = "compile" /\ T.by = "view"
       /\ compiled' = compiled \cup {T.sel}
       /\ Done(t)
       /\ UNCHANGED held
    \/ /\ T.pc = "compileThenDeploy"
       /\ task' = [task EXCEPT
                ![t].pc = IF CompilesFirst(T.sel, T.wasm0, w)
                          THEN "compileThenIdl" ELSE "idl",
                ![t].wasm = Chosen(T.sel, T.wasm0, w)]
       /\ UNCHANGED <<compiled, held>>
    \/ /\ T.pc = "compileThenIdl" /\ w # Null
       /\ task' = [task EXCEPT ![t].pc = "idl", ![t].wasm = w]
       /\ UNCHANGED <<compiled, held>>
    \/ /\ T.pc = "compileThenIdl" /\ w = Null
       /\ Done(t)
       /\ UNCHANGED <<compiled, held>>

CompileAnswer(t) ==
    /\ task[t].pc \in {"compile", "compileThenDeploy", "compileThenIdl"}
    /\ \/ SetCurrentWasm(Built(t)) /\ AfterCompile(t, Built(t))
       \/ UNCHANGED currentWasm /\ AfterCompile(t, Null)
    /\ UNCHANGED <<currentFile, text, contract, ledger, dialog, history>>

(* generateIdl; the methods go to the store before there is an address.    *)
IdlGenerated(t) ==
    /\ task[t].pc = "idl"
    /\ \/ /\ contract' = [contract EXCEPT !.methods = task[t].wasm]
          /\ overtaken' = overtaken \cup
                {u \in Tasks \ {t} : task[u].pc \in {"upload", "create"}}
          /\ Go(t, "upload")
       \/ Done(t) /\ UNCHANGED <<contract, overtaken>>
    /\ UNCHANGED <<currentFile, text, currentWasm, compiled, held, ledger,
                   dialog, gaveUp, listed>>

-----------------------------------------------------------------------------
(* deployStellerContract.  Fund, build, simulate, sign and send; whatever  *)
(* is thrown ends it, and the deployment is taken for a success without an *)
(* address.                                                                *)
Phase(t) == task[t].pc

Send(t) ==
    /\ Phase(t) \in {"upload", "create"}
    /\ ledger[t][Phase(t)] = "none"
    /\ \/ ledger' = [ledger EXCEPT ![t][Phase(t)] = "sent"] /\ UNCHANGED task
       \/ Done(t) /\ UNCHANGED ledger
    /\ StoreUnchanged
    /\ UNCHANGED <<held, dialog, history>>

Sent == {"sent", "success", "failed", "dropped"}

(* Mutant of Deployed: the methods of the last deployment go with every    *)
(* contract that is listed.                                                *)
Deployed_All(c, a) ==
    [c EXCEPT !.address = a,
              !.deployed = [b \in DOMAIN @ \cup {a} |-> c.methods]]

(* updateContract with an address: the methods there are become those of   *)
(* the contract, unless it has some.                                       *)
Deployed(c, a) ==
    [c EXCEPT !.address = a,
              !.deployed = IF c.methods # Null /\ a \notin DOMAIN @
                           THEN [b \in DOMAIN @ \cup {a} |->
                                    IF b = a THEN c.methods ELSE @[b]]
                           ELSE @]

(* Mutant of Succeeded: the address is listed as soon as the transaction  *)
(* has been sent.                                                          *)
Succeeded_Sent(status) == status \in Sent \ {"failed"}

Succeeded(status) == status = "success"

(* What getTransaction says decides: NOT_FOUND until the last poll asks    *)
(* again, SUCCESS goes on, and the rest throws.                            *)
Poll(t) ==
    /\ Phase(t) \in {"upload", "create"}
    /\ LET status == ledger[t][Phase(t)]
           absent == status \in {"sent", "dropped"}
           last == task[t].polls + 1 = MaxPolls
       IN  \/ /\ Succeeded(status) /\ Phase(t) = "upload"
              /\ task' = [task EXCEPT ![t].pc = "create", ![t].polls = 0]
              /\ UNCHANGED <<contract, gaveUp, listed>>
           \/ /\ Succeeded(status) /\ Phase(t) = "create"
              /\ contract' = Deployed(contract, t)
              /\ listed' = listed \cup {t}
              /\ Done(t)
              /\ UNCHANGED gaveUp
           \/ /\ absent /\ ~last
              /\ task' = [task EXCEPT ![t].polls = @ + 1]
              /\ UNCHANGED <<contract, gaveUp, listed>>
           \/ /\ status = "failed" \/ (absent /\ last)
              /\ gaveUp' = IF absent THEN gaveUp \cup {t} ELSE gaveUp
              /\ Done(t)
              /\ UNCHANGED <<contract, listed>>
    /\ UNCHANGED <<currentFile, text, currentWasm, compiled, held, ledger,
                   dialog, overtaken>>

(* A call of the network that throws while it polls, or an answer without  *)
(* the hash or the address it is asked for.                                *)
PollFails(t) ==
    /\ Phase(t) \in {"upload", "create"}
    /\ ledger[t][Phase(t)] \in Sent
    /\ gaveUp' = gaveUp \cup {t}
    /\ Done(t)
    /\ StoreUnchanged
    /\ UNCHANGED <<held, ledger, dialog, overtaken, listed>>

-----------------------------------------------------------------------------
(* handleInvoke: the dialog opens; callContract funds, builds, simulates,  *)
(* prepares and sends; then the transaction is asked for without end.      *)
Invoke(t, a) ==
    /\ a \in DOMAIN contract.deployed
    /\ ~dialog
    /\ IsNext(t)
    /\ task' = [task EXCEPT ![t] = [Idle EXCEPT !.pc = "call", !.by = "invoke"]]
    /\ dialog' = TRUE
    /\ StoreUnchanged
    /\ UNCHANGED <<held, ledger, history>>

CallContract(t) ==
    /\ task[t].pc = "call"
    /\ \/ /\ ledger' = [ledger EXCEPT ![t].invoke = "sent"]
          /\ Go(t, "await") /\ UNCHANGED dialog
       \/ dialog' = FALSE /\ Done(t) /\ UNCHANGED ledger
    /\ StoreUnchanged
    /\ UNCHANGED <<held, history>>

(* Mutant of Closes: what is thrown does not close it.                     *)
Closes_OnSuccess(status) == status = "success"

(* A success with a return value closes the dialog, and so does whatever   *)
(* is thrown; a success without one returns before that.                   *)
Closes(status) == status # "noValue"

AwaitInvoked(t) ==
    /\ task[t].pc = "await"
    /\ ledger[t].invoke \in {"success", "noValue", "failed"}
    /\ dialog' = ~Closes(ledger[t].invoke)
    /\ Done(t)
    /\ StoreUnchanged
    /\ UNCHANGED <<held, ledger, history>>

AwaitFails(t) ==
    /\ task[t].pc = "await"
    /\ dialog' = ~Closes("thrown")
    /\ Done(t)
    /\ StoreUnchanged
    /\ UNCHANGED <<held, ledger, history>>

(* The ledger: what was sent is included, or never is.                     *)
Include(t, tx) ==
    /\ ledger[t][tx] = "sent"
    /\ \E s \in {"success", "failed", "dropped"}
                 \cup (IF tx = "invoke" THEN {"noValue"} ELSE {}) :
          ledger' = [ledger EXCEPT ![t][tx] = s]
    /\ StoreUnchanged
    /\ UNCHANGED <<held, task, dialog, history>>

Next ==
    \/ \E f \in Files \cup {Home, Null} : ShowFile(f)
    \/ Edit
    \/ \E a \in Tasks : RemoveDeployed(a)
    \/ \E t \in Tasks :
          \/ HeaderCompile(t)
          \/ ViewCompile(t)
          \/ HeaderDeploy(t)
          \/ ViewDeploy(t)
          \/ CompileAnswer(t)
          \/ IdlGenerated(t)
          \/ Send(t)
          \/ Poll(t)
          \/ PollFails(t)
          \/ \E a \in Tasks : Invoke(t, a)
          \/ CallContract(t)
          \/ AwaitInvoked(t)
          \/ AwaitFails(t)
          \/ \E tx \in {"upload", "create", "invoke"} : Include(t, tx)

Spec == Init /\ [][Next]_vars

(* Every call of the network returns or throws in the end, and the ledger  *)
(* decides about what it was sent; nobody need click.                      *)
FairSpec ==
    /\ Spec
    /\ \A t \in Tasks :
          /\ WF_vars(CompileAnswer(t)) /\ WF_vars(IdlGenerated(t))
          /\ WF_vars(Send(t)) /\ WF_vars(Poll(t))
          /\ WF_vars(CallContract(t)) /\ WF_vars(AwaitInvoked(t))
          /\ \A tx \in {"upload", "create", "invoke"} : WF_vars(Include(t, tx))

-----------------------------------------------------------------------------
Wasm == [file : Files, text : Nat]
MaybeWasm == Wasm \cup {Null}
Shown == Files \cup {Home, Null}
LastWasm == [path : Files \cup {Null}, buff : MaybeWasm]
Task == [pc : {"idle", "compile", "compileThenDeploy", "compileThenIdl", "idl",
               "upload", "create", "call", "await", "done"},
         by : {"none", "header", "view", "headerDeploy", "viewDeploy", "invoke"},
         sel : Shown, code : Nat, wasm0 : LastWasm, given : MaybeWasm,
         wasm : MaybeWasm, polls : Nat]
Fate == {"none", "noValue"} \cup Sent

TypeOK ==
    /\ currentFile \in Shown
    /\ text \in [Files -> Nat]
    /\ currentWasm \in LastWasm
    /\ compiled \subseteq Files
    /\ DOMAIN contract = {"methods", "address", "deployed"}
    /\ contract.methods \in MaybeWasm
    /\ contract.address \in Tasks \cup {Null}
    /\ DOMAIN contract.deployed \subseteq Tasks
    /\ contract.deployed \in [DOMAIN contract.deployed -> Wasm]
    /\ held \in MaybeWasm
    /\ task \in [Tasks -> Task]
    /\ ledger \in [Tasks -> [upload : Fate, create : Fate, invoke : Fate]]
    /\ dialog \in BOOLEAN
    /\ overtaken \subseteq Tasks
    /\ gaveUp \subseteq Tasks
    /\ listed \subseteq Tasks

Deploys(t) == task[t].pc \in {"idl", "upload", "create"}
OnChain(t) == ledger[t].create = "success"

(* A deployment uploads a wasm of the file that was selected at the click, *)
(* of no later text, whatever was selected, compiled or edited while it    *)
(* waited.  The exceptions are a click with no file selected, which        *)
(* deploys what was compiled last, and the header, which hands over what   *)
(* it compiled last, be it of another file.                                *)
DeploysTheSelected ==
    \A t \in Tasks : Deploys(t) =>
        LET T == task[t] IN
        \/ T.sel \notin Files
        \/ T.wasm.file = T.sel /\ T.wasm.text <= T.code
        \/ T.by = "headerDeploy" /\ T.wasm = T.given

(* The methods offered for an address are those of the wasm that is there: *)
(* they are put into the store before the deployment and joined to the     *)
(* address after it, so only another deployment in between can change them.*)
MethodsMatch ==
    \A t \in DOMAIN contract.deployed :
        contract.deployed[t] = task[t].wasm \/ t \in overtaken

(* What the deploy view lists is on the ledger, and what a deployment put  *)
(* there has been listed, unless the deployment is still running or has    *)
(* given up on a transaction it had sent.                                  *)
ListedIffOnChain ==
    /\ \A t \in DOMAIN contract.deployed : OnChain(t)
    /\ \A t \in Tasks :
          OnChain(t) => Running(t) \/ t \in listed \/ t \in gaveUp

(* The dialog that blocks the page closes again, except after a call that  *)
(* succeeded without a return value, and while the transaction it polls    *)
(* for is never included.                                                  *)
Unclosed == \E t \in Tasks : task[t].pc = "done" /\ ledger[t].invoke = "noValue"

DialogCloses ==
    dialog ~> \/ ~dialog \/ Unclosed
              \/ \E t \in Tasks : ledger[t].invoke = "dropped"
=============================================================================
