----------------------------- MODULE Deploy_proofs -----------------------------
(***************************************************************************)
(* Proofs, for any files and any number of clicks, polls and edits, of     *)
(* what a deployment uploads, whose methods an address is offered and what *)
(* is listed.                                                              *)
(***************************************************************************)
EXTENDS Deploy, TLAPS

-----------------------------------------------------------------------------
Compiles(t) == task[t].pc \in {"compile", "compileThenDeploy", "compileThenIdl"}
InFlight(t) == task[t].pc \in {"upload", "create"}

(* The store's wasm is that of its path, and of no later text.             *)
WasmIsOfPath ==
    currentWasm.path \in Files =>
        /\ currentWasm.buff \in Wasm
        /\ currentWasm.buff.file = currentWasm.path
        /\ currentWasm.buff.text <= text[currentWasm.path]

(* A task that compiles does so for a file, with a text it had; it compiles*)
(* before it deploys because the wasm it has seen is of another file.      *)
CompilesAFile ==
    \A t \in Tasks :
        /\ Compiles(t) => task[t].sel \in Files /\ task[t].code <= text[task[t].sel]
        /\ task[t].pc = "compileThenDeploy" =>
              task[t].wasm0.path \notin {Null, task[t].sel}

(* The methods in the store are those of the deployment in flight that was *)
(* not overtaken.                                                          *)
MethodsInFlight ==
    \A t \in Tasks : InFlight(t) => contract.methods = task[t].wasm \/ t \in overtaken

(* Only a deployment that is over has been listed.                         *)
ListedIsDone == \A t \in DOMAIN contract.deployed : t \in Tasks /\ task[t].pc = "done"

(* A contract is created by a task that is, or was, at that point; when it *)
(* is over its fate is known, or it is listed, or it was given up.         *)
Fates ==
    \A t \in Tasks :
        /\ task[t].pc \notin {"create", "done"} => ledger[t].create = "none"
        /\ task[t].pc = "done" =>
              ledger[t].create \in {"none", "failed"} \/ t \in listed \/ t \in gaveUp

IInv ==
    /\ TypeOK
    /\ WasmIsOfPath /\ CompilesAFile /\ DeploysTheSelected
    /\ MethodsInFlight /\ ListedIsDone /\ MethodsMatch
    /\ Fates /\ ListedIffOnChain

(* What the invariant says of one task, apart from its type.               *)
Sound(t) ==
    LET T == task[t] IN
    /\ Compiles(t) => T.sel \in Files /\ T.code <= text[T.sel]
    /\ T.pc = "compileThenDeploy" => T.wasm0.path \notin {Null, T.sel}
    /\ Deploys(t) => \/ T.sel \notin Files
                     \/ T.wasm.file = T.sel /\ T.wasm.text <= T.code
                     \/ T.by = "headerDeploy" /\ T.wasm = T.given
    /\ InFlight(t) => contract.methods = T.wasm \/ t \in overtaken
    /\ T.pc \notin {"create", "done"} => ledger[t].create = "none"
    /\ T.pc = "done" =>
          ledger[t].create \in {"none", "failed"} \/ t \in listed \/ t \in gaveUp

-----------------------------------------------------------------------------
(* The invariant by tasks, and what follows from it for a run.             *)
LEMMA ByTasks ==
    ASSUME TypeOK
    PROVE  IInv <=> /\ WasmIsOfPath /\ ListedIsDone /\ MethodsMatch
                    /\ \A t \in DOMAIN contract.deployed : OnChain(t)
                    /\ \A t \in Tasks : Sound(t)
<1>1. CompilesAFile /\ DeploysTheSelected /\ MethodsInFlight /\ Fates
         <=> \A t \in Tasks : Sound(t)
  BY DEF CompilesAFile, DeploysTheSelected, MethodsInFlight, Fates, Sound
<1>2. (\A t \in Tasks : Sound(t)) =>
         \A t \in Tasks : OnChain(t) => Running(t) \/ t \in listed \/ t \in gaveUp
  BY DEF Sound, OnChain, Running
<1> QED
  BY <1>1, <1>2 DEF IInv, ListedIffOnChain

(* The same of the next state, as the lemmas about steps use it.           *)
LEMMA ByTasksNext ==
    ASSUME TypeOK', WasmIsOfPath', ListedIsDone', MethodsMatch',
           \A t \in DOMAIN contract'.deployed : OnChain(t)',
           \A t \in Tasks : Sound(t)'
    PROVE  IInv'
<1>1. CompilesAFile' /\ DeploysTheSelected' /\ MethodsInFlight' /\ Fates'
  BY DEF CompilesAFile, DeploysTheSelected, MethodsInFlight, Fates, Sound
<1>2. \A t \in Tasks :
         OnChain(t)' => Running(t)' \/ t \in listed' \/ t \in gaveUp'
  BY DEF Sound, OnChain, Running
<1> QED
  BY <1>1, <1>2 DEF IInv, ListedIffOnChain

(* Init establishes the invariant.                                         *)
LEMMA InitInv == Init => IInv
<1> SUFFICES ASSUME Init PROVE IInv
  OBVIOUS
<1>1. TypeOK
  <2>1. NoWasm \in LastWasm
    BY DEF NoWasm, LastWasm, MaybeWasm
  <2>2. Idle \in Task
    BY <2>1 DEF Idle, Task, Shown, MaybeWasm
  <2>3. ledger \in [Tasks -> [upload : Fate, create : Fate, invoke : Fate]]
    BY DEF Init, Fate
  <2>4. /\ DOMAIN contract = {"methods", "address", "deployed"}
        /\ contract.methods \in MaybeWasm
        /\ contract.address \in Tasks \cup {Null}
        /\ contract.deployed = <<>>
    BY DEF Init, MaybeWasm
  <2>5. /\ DOMAIN contract.deployed \subseteq Tasks
        /\ contract.deployed \in [DOMAIN contract.deployed -> Wasm]
    BY <2>4
  <2> QED
    BY <2>1, <2>2, <2>3, <2>4, <2>5 DEF Init, TypeOK, Shown, MaybeWasm
<1>2. WasmIsOfPath /\ ListedIsDone /\ MethodsMatch
  BY NullAssumption DEF Init, WasmIsOfPath, ListedIsDone, MethodsMatch, NoWasm
<1>3. ASSUME NEW t \in Tasks
      PROVE  Sound(t)
  BY DEF Init, Sound, Compiles, Deploys, InFlight, Idle
<1>4. \A t \in DOMAIN contract.deployed : OnChain(t)
  BY DEF Init
<1> QED
  BY <1>1, <1>2, <1>3, <1>4, ByTasks

-----------------------------------------------------------------------------
(* What the ways to change a task do to it.                                *)
LEMMA TaskDone ==
    ASSUME TypeOK, NEW t \in Tasks, Done(t)
    PROVE  /\ task' \in [Tasks -> Task]
           /\ task'[t].pc = "done" /\ task'[t].wasm = task[t].wasm
           /\ \A u \in Tasks \ {t} : task'[u] = task[u]
<1>1. [Idle EXCEPT !.pc = "done", !.wasm = task[t].wasm] \in Task
  BY DEF TypeOK, Task, Idle, NoWasm, Shown, LastWasm, MaybeWasm
<1> QED
  BY <1>1 DEF TypeOK, Done, Task, Idle

(* A task that goes on to another point keeps the rest of its record.      *)
LEMMA TaskGo ==
    ASSUME TypeOK, NEW t \in Tasks, NEW pc \in {"upload", "await"}, Go(t, pc)
    PROVE  /\ task' \in [Tasks -> Task]
           /\ task'[t] = [task[t] EXCEPT !.pc = pc]
           /\ \A u \in Tasks \ {t} : task'[u] = task[u]
<1>1. task' = [task EXCEPT ![t] = [task[t] EXCEPT !.pc = pc]]
  BY DEF Go
<1>2. task \in [Tasks -> Task] /\ task[t] \in Task
  BY DEF TypeOK
<1>3. ASSUME NEW T \in Task
      PROVE  [T EXCEPT !.pc = pc] \in Task
  BY DEF Task
<1> QED
  BY <1>1, <1>2, <1>3

-----------------------------------------------------------------------------
(* A task that ends keeps the invariant, whatever else it leaves of the    *)
(* page, if the fate of a contract it was creating is known or it gave up. *)
LEMMA Ending ==
    ASSUME IInv, NEW t \in Tasks, Running(t), Done(t),
           currentWasm' \in LastWasm, WasmIsOfPath',
           held' \in MaybeWasm, compiled' \subseteq Files, dialog' \in BOOLEAN,
           gaveUp \subseteq gaveUp', gaveUp' \subseteq Tasks,
           UNCHANGED <<currentFile, text, contract, ledger, overtaken, listed>>,
           task[t].pc = "create" => ledger[t].create \in {"none", "failed"} \/ t \in gaveUp'
    PROVE  IInv'
<1> USE DEF IInv
<1>1. TypeOK'
  BY TaskDone DEF TypeOK
<1>2. ListedIsDone' /\ MethodsMatch'
  BY TaskDone DEF ListedIsDone, MethodsMatch, Running
<1>3. \A u \in DOMAIN contract'.deployed : OnChain(u)'
  BY DEF OnChain, ListedIffOnChain
<1>4. ASSUME NEW u \in Tasks
      PROVE  Sound(u)'
  <2>1. Sound(u)
    BY ByTasks
  <2>2. CASE u = t
    BY <2>1, <2>2, TaskDone DEF Sound, Compiles, Deploys, InFlight, Running
  <2>3. CASE u # t
    <3>1. task'[u] = task[u]
      BY <2>3, TaskDone
    <3> QED
      BY <2>1, <3>1 DEF Sound, Compiles, Deploys, InFlight
  <2> QED
    BY <2>2, <2>3
<1> QED
  BY <1>1, <1>2, <1>3, <1>4, ByTasksNext

(* A task that goes on keeps it, if it is sound where it gets to.          *)
LEMMA GoingOn ==
    ASSUME IInv, NEW t \in Tasks, task[t].pc # "done", task'[t].pc # "done",
           task' \in [Tasks -> Task], \A u \in Tasks \ {t} : task'[u] = task[u],
           currentWasm' \in LastWasm, WasmIsOfPath',
           dialog' \in BOOLEAN,
           ledger' \in [Tasks -> [upload : Fate, create : Fate, invoke : Fate]],
           \A u \in Tasks : ledger'[u].create = ledger[u].create,
           UNCHANGED <<currentFile, text, contract, held, compiled, overtaken,
                       gaveUp, listed>>,
           Sound(t)'
    PROVE  IInv'
<1> USE DEF IInv
<1>1. TypeOK'
  BY DEF TypeOK
<1>2. ListedIsDone' /\ MethodsMatch'
  BY DEF ListedIsDone, MethodsMatch
<1>3. \A u \in DOMAIN contract'.deployed : OnChain(u)'
  BY DEF OnChain, ListedIffOnChain, ListedIsDone
<1>4. ASSUME NEW u \in Tasks
      PROVE  Sound(u)'
  <2>1. CASE u = t
    BY <2>1
  <2>2. CASE u # t
    <3>1. Sound(u) /\ task'[u] = task[u] /\ ledger'[u].create = ledger[u].create
      BY <2>2, ByTasks
    <3> QED
      BY <3>1 DEF Sound, Compiles, Deploys, InFlight
  <2> QED
    BY <2>1, <2>2
<1> QED
  BY <1>1, <1>2, <1>3, <1>4, ByTasksNext

(* Steps that leave the tasks and the ledger alone.                        *)
LEMMA Resting ==
    ASSUME IInv, TypeOK', WasmIsOfPath', \A f \in Files : text[f] <= text'[f],
           \A a \in DOMAIN contract'.deployed :
              /\ a \in DOMAIN contract.deployed
              /\ contract'.deployed[a] = contract.deployed[a],
           contract'.methods = contract.methods,
           UNCHANGED <<task, ledger, overtaken, gaveUp, listed>>
    PROVE  IInv'
<1> USE DEF IInv
<1>1. ListedIsDone' /\ MethodsMatch'
  BY DEF ListedIsDone, MethodsMatch
<1>2. \A u \in DOMAIN contract'.deployed : OnChain(u)'
  BY DEF OnChain, ListedIffOnChain
<1>3. ASSUME NEW u \in Tasks
      PROVE  Sound(u)'
  <2>1. Sound(u)
    BY ByTasks
  <2>2. Compiles(u) => task[u].code <= text'[task[u].sel]
    <3> SUFFICES ASSUME Compiles(u)
                 PROVE  task[u].code <= text'[task[u].sel]
      OBVIOUS
    <3>1. task[u].sel \in Files /\ task[u].code <= text[task[u].sel]
      BY <2>1 DEF Sound
    <3>2. /\ task[u].code \in Nat
          /\ text[task[u].sel] \in Nat
          /\ text'[task[u].sel] \in Nat
      BY <3>1 DEF TypeOK, Task
    <3> QED
      BY <3>1, <3>2
  <2> QED
    BY <2>1, <2>2 DEF Sound, Compiles, Deploys, InFlight
<1> QED
  BY <1>1, <1>2, <1>3, ByTasksNext

-----------------------------------------------------------------------------
(* The user.                                                               *)
LEMMA ShowFileInv ==
    ASSUME IInv, NEW f \in Files \cup {Home, Null}, ShowFile(f)
    PROVE  IInv'
<1>1. TypeOK' /\ WasmIsOfPath'
  BY DEF IInv, TypeOK, ShowFile, Shown, WasmIsOfPath, history
<1>2. \A g \in Files : text[g] <= text'[g]
  BY DEF IInv, TypeOK, ShowFile
<1> QED
  BY <1>1, <1>2, Resting DEF ShowFile, history

(* A text is edited; no wasm and no compilation is of a later one.         *)
LEMMA EditInv ==
    ASSUME IInv, Edit
    PROVE  IInv'
<1>1. text' \in [Files -> Nat] /\ \A g \in Files : text[g] <= text'[g]
  BY DEF IInv, TypeOK, Edit
<1>2. TypeOK'
  BY <1>1 DEF IInv, TypeOK, Edit, history
<1>3. WasmIsOfPath'
  <2> SUFFICES ASSUME currentWasm.path \in Files
               PROVE  /\ currentWasm.buff \in Wasm
                      /\ currentWasm.buff.file = currentWasm.path
                      /\ currentWasm.buff.text <= text'[currentWasm.path]
    BY DEF WasmIsOfPath, Edit
  <2>1. currentWasm.buff.text \in Nat
    BY DEF IInv, TypeOK, LastWasm, MaybeWasm, Wasm, WasmIsOfPath
  <2> QED
    BY <1>1, <2>1 DEF IInv, TypeOK, WasmIsOfPath
<1> QED
  BY <1>1, <1>2, <1>3, Resting DEF Edit, history

(* A contract is taken off the list.                                       *)
LEMMA RemoveDeployedInv ==
    ASSUME IInv, NEW a \in Tasks, RemoveDeployed(a)
    PROVE  IInv'
<1> DEFINE d == [b \in DOMAIN contract.deployed \ {a} |-> contract.deployed[b]]
<1>1. /\ contract' = [contract EXCEPT !.deployed = d]
      /\ DOMAIN contract = {"methods", "address", "deployed"}
  BY DEF IInv, TypeOK, RemoveDeployed
<1>2. /\ DOMAIN contract' = {"methods", "address", "deployed"}
      /\ contract'.deployed = d
      /\ contract'.methods = contract.methods
      /\ contract'.address = contract.address
  BY <1>1
<1>3. d \in [DOMAIN d -> Wasm] /\ DOMAIN d \subseteq Tasks
  BY DEF IInv, TypeOK
<1>4. TypeOK'
  BY <1>2, <1>3 DEF IInv, TypeOK, RemoveDeployed, history
<1>5. WasmIsOfPath'
  BY DEF IInv, WasmIsOfPath, RemoveDeployed
<1>6. \A f \in Files : text[f] <= text'[f]
  BY DEF IInv, TypeOK, RemoveDeployed
<1> QED
  BY <1>2, <1>4, <1>5, <1>6, Resting DEF RemoveDeployed, history

-----------------------------------------------------------------------------
(* A click starts a task that is sound, if what it first awaits fits what  *)
(* is shown and what was compiled last.                                    *)
LEMMA Clicking ==
    ASSUME IInv, NEW t \in Tasks, NEW w \in MaybeWasm,
           NEW by \in {"header", "view", "headerDeploy", "viewDeploy"},
           NEW pc \in {"compile", "compileThenDeploy", "compileThenIdl", "idl"},
           Click(t, by, pc, w),
           pc # "idl" => currentFile \in Files,
           pc = "compileThenDeploy" => currentWasm.path \notin {Null, currentFile},
           pc = "idl" => \/ currentFile \notin Files
                         \/ w.file = currentFile /\ w.text <= text[currentFile]
                         \/ by = "headerDeploy" /\ w = held
    PROVE  IInv'
<1> DEFINE code == IF currentFile \in Files THEN text[currentFile] ELSE 0
           T == [pc |-> pc, by |-> by, sel |-> currentFile, code |-> code,
                 wasm0 |-> currentWasm, given |-> held, wasm |-> w, polls |-> 0]
<1>1. task[t].pc = "idle" /\ task' = [task EXCEPT ![t] = T]
  BY DEF Click, IsNext, Free
<1>2. code \in Nat /\ (currentFile \in Files => code = text[currentFile])
  BY DEF IInv, TypeOK
<1>3. T \in Task
  BY <1>2 DEF IInv, TypeOK, Task
<1>4. /\ task' \in [Tasks -> Task]
      /\ task'[t] = T
      /\ \A u \in Tasks \ {t} : task'[u] = task[u]
  BY <1>1, <1>3 DEF IInv, TypeOK
<1>5. UNCHANGED <<currentFile, text, currentWasm, contract, held, compiled, ledger,
                  dialog, overtaken, gaveUp, listed>>
  BY DEF Click, StoreUnchanged, history
<1>6. WasmIsOfPath'
  BY <1>5 DEF IInv, WasmIsOfPath
<1>7. ledger[t].create = "none"
  BY <1>1 DEF IInv, Fates
<1>8. Sound(t)'
  BY <1>2, <1>4, <1>5, <1>7 DEF Sound, Compiles, Deploys, InFlight
<1>9. currentWasm' \in LastWasm /\ dialog' \in BOOLEAN
      /\ ledger' \in [Tasks -> [upload : Fate, create : Fate, invoke : Fate]]
  BY <1>5 DEF IInv, TypeOK
<1> HIDE DEF T, code
<1> QED
  <2>1. task'[t].pc # "done"
    BY <1>4 DEF T
  <2> QED
    BY <1>1, <1>4, <1>5, <1>6, <1>8, <1>9, <2>1, GoingOn

(* A click on Compile in the header.                                       *)
LEMMA HeaderCompileInv ==
    ASSUME IInv, NEW t \in Tasks, HeaderCompile(t)
    PROVE  IInv'
<1>1. CASE currentFile \in Files /\ Click(t, "header", "compile", Null)
  BY <1>1, Clicking DEF MaybeWasm
<1>2. CASE held' = Null /\ StoreUnchanged /\ UNCHANGED <<task, ledger, dialog, history>>
  <2>1. TypeOK' /\ WasmIsOfPath'
    BY <1>2 DEF IInv, TypeOK, StoreUnchanged, history, MaybeWasm, WasmIsOfPath
  <2>2. \A f \in Files : text[f] <= text'[f]
    BY <1>2 DEF IInv, TypeOK, StoreUnchanged
  <2> QED
    BY <1>2, <2>1, <2>2, Resting DEF StoreUnchanged, history
<1> QED
  BY <1>1, <1>2 DEF HeaderCompile

(* The same in the compile view.                                           *)
LEMMA ViewCompileInv ==
    ASSUME IInv, NEW t \in Tasks, ViewCompile(t)
    PROVE  IInv'
  BY Clicking DEF ViewCompile, MaybeWasm

(* What deployWasm starts with is of the file selected, or was handed over.*)
LEMMA StartDeployInv ==
    ASSUME IInv, NEW t \in Tasks, NEW by \in {"headerDeploy", "viewDeploy"},
           NEW w \in MaybeWasm, StartDeploy(t, by, w),
           w # Null => by = "headerDeploy" /\ w = held
    PROVE  IInv'
<1> DEFINE c == Chosen(currentFile, currentWasm, w)
<1>1. CASE CompilesFirst(currentFile, currentWasm, w)
  <2>1. currentFile \in Files /\ Click(t, by, "compileThenIdl", Null)
    BY <1>1 DEF StartDeploy
  <2> QED
    BY <2>1, Clicking DEF MaybeWasm
<1>2. CASE ~CompilesFirst(currentFile, currentWasm, w)
  <2>1. c # Null /\ Click(t, by, "idl", c)
    BY <1>2 DEF StartDeploy
  <2>2. c \in MaybeWasm
    BY DEF IInv, TypeOK, LastWasm, Chosen
  <2>3. \/ currentFile \notin Files
        \/ c.file = currentFile /\ c.text <= text[currentFile]
        \/ by = "headerDeploy" /\ c = held
    <3>1. CASE currentWasm.path = currentFile
      BY <3>1 DEF IInv, WasmIsOfPath, Chosen
    <3>2. CASE currentWasm.path # currentFile /\ currentFile \in Files
      BY <2>1, <3>2, NullAssumption DEF Chosen
    <3> QED
      BY <3>1, <3>2
  <2> HIDE DEF c
  <2> QED
    BY <2>1, <2>2, <2>3, Clicking
<1> QED
  BY <1>1, <1>2

(* A click on Deploy in the header, which compiles first when the last     *)
(* wasm is not of the file selected.                                       *)
LEMMA HeaderDeployInv ==
    ASSUME IInv, NEW t \in Tasks, HeaderDeploy(t)
    PROVE  IInv'
<1>1. held \in MaybeWasm
  BY DEF IInv, TypeOK
<1> QED
  BY <1>1, StartDeployInv DEF HeaderDeploy

(* A click on Deploy in the deployment view.                               *)
LEMMA ViewDeployInv ==
    ASSUME IInv, NEW t \in Tasks, ViewDeploy(t)
    PROVE  IInv'
<1>1. Null \in MaybeWasm
  BY DEF MaybeWasm
<1>2. CASE currentFile \in Files /\ currentWasm.path \notin {Null, currentFile}
  <2>1. Click(t, "viewDeploy", "compileThenDeploy", Null)
    BY <1>2 DEF ViewDeploy
  <2> QED
    BY <1>1, <1>2, <2>1, Clicking
<1>3. CASE ~(currentFile \in Files /\ currentWasm.path \notin {Null, currentFile})
  <2>1. StartDeploy(t, "viewDeploy", Null)
    BY <1>3 DEF ViewDeploy
  <2> QED
    BY <1>1, <2>1, StartDeployInv
<1> QED
  BY <1>2, <1>3

-----------------------------------------------------------------------------
(* The answer of the compile service: w is what its caller gets.           *)
LEMMA Answering ==
    ASSUME IInv, NEW t \in Tasks, Compiles(t), NEW w \in {Built(t), Null},
           AfterCompile(t, w), currentWasm' \in LastWasm, WasmIsOfPath',
           UNCHANGED <<currentFile, text, contract, ledger, dialog, history>>
    PROVE  IInv'
<1>1. /\ task[t] \in Task /\ task[t].sel \in Files
      /\ task[t].code <= text[task[t].sel]
      /\ task[t].pc = "compileThenDeploy" =>
            task[t].wasm0.path \notin {Null, task[t].sel}
      /\ ledger[t].create = "none"
  BY DEF IInv, TypeOK, CompilesAFile, Compiles, Fates
<1>2. Built(t) \in Wasm /\ w \in MaybeWasm
  BY <1>1 DEF Built, Wasm, MaybeWasm, Task
<1>3. /\ UNCHANGED <<currentFile, text, contract, ledger, dialog, overtaken,
                     gaveUp, listed>>
      /\ dialog' \in BOOLEAN
      /\ held \in MaybeWasm /\ compiled \subseteq Files /\ gaveUp \subseteq Tasks
      /\ ledger' \in [Tasks -> [upload : Fate, create : Fate, invoke : Fate]]
  BY DEF IInv, TypeOK, history
<1>4. CASE task[t].pc = "compile" \/ (task[t].pc = "compileThenIdl" /\ w = Null)
  <2>1. Done(t) /\ held' \in MaybeWasm /\ compiled' \subseteq Files
    BY <1>1, <1>2, <1>3, <1>4 DEF AfterCompile
  <2>2. Running(t) /\ task[t].pc # "create"
    BY <1>4 DEF Running
  <2> QED
    BY <1>3, <2>1, <2>2, Ending
<1>5. CASE task[t].pc = "compileThenDeploy"
  <2> DEFINE pc == IF CompilesFirst(task[t].sel, task[t].wasm0, w)
                   THEN "compileThenIdl" ELSE "idl"
  <2>1. Chosen(task[t].sel, task[t].wasm0, w) = w
    BY <1>1, <1>5, NullAssumption DEF Chosen
  <2>2. task' = [task EXCEPT ![t].pc = pc, ![t].wasm = w]
        /\ UNCHANGED <<compiled, held>>
    BY <1>5, <2>1 DEF AfterCompile
  <2>3. /\ task' \in [Tasks -> Task]
        /\ task'[t] = [task[t] EXCEPT !.pc = pc, !.wasm = w]
        /\ \A u \in Tasks \ {t} : task'[u] = task[u]
    BY <1>1, <1>2, <2>2 DEF IInv, TypeOK, Task
  <2>4. pc = "idl" => w = Built(t)
    BY <1>1, <1>5, NullAssumption DEF CompilesFirst
  <2>5. pc \in {"compileThenIdl", "idl"}
    OBVIOUS
  <2> HIDE DEF pc
  <2>6. Sound(t)'
    <3>1. /\ task'[t].pc = pc /\ task'[t].wasm = w
          /\ task'[t].sel = task[t].sel /\ task'[t].code = task[t].code
      BY <1>1, <2>3 DEF Task
    <3>2. task[t].code \in Nat
      BY <1>1 DEF Task
    <3> QED
      BY <1>1, <1>3, <2>4, <2>5, <3>1, <3>2 DEF Sound, Compiles, Deploys, InFlight, Built
  <2>7. task[t].pc # "done" /\ task'[t].pc # "done"
    BY <1>1, <1>5, <2>3, <2>5 DEF Task
  <2> QED
    BY <1>3, <2>2, <2>3, <2>6, <2>7, GoingOn
<1>6. CASE task[t].pc = "compileThenIdl" /\ w # Null
  <2>1. task' = [task EXCEPT ![t].pc = "idl", ![t].wasm = w]
        /\ UNCHANGED <<compiled, held>>
    BY <1>6 DEF AfterCompile
  <2>2. /\ task' \in [Tasks -> Task]
        /\ task'[t] = [task[t] EXCEPT !.pc = "idl", !.wasm = w]
        /\ \A u \in Tasks \ {t} : task'[u] = task[u]
    BY <1>1, <1>2, <2>1 DEF IInv, TypeOK, Task
  <2>3. Sound(t)'
    <3>1. /\ task'[t].pc = "idl" /\ task'[t].wasm = Built(t)
          /\ task'[t].sel = task[t].sel /\ task'[t].code = task[t].code
      BY <1>1, <1>6, <2>2 DEF Task
    <3>2. task[t].code \in Nat
      BY <1>1 DEF Task
    <3> QED
      BY <1>1, <1>3, <3>1, <3>2 DEF Sound, Compiles, Deploys, InFlight, Built
  <2>4. task[t].pc # "done" /\ task'[t].pc # "done"
    BY <1>1, <1>6, <2>2 DEF Task
  <2> QED
    BY <1>3, <2>1, <2>2, <2>3, <2>4, GoingOn
<1> QED
  BY <1>4, <1>5, <1>6 DEF Compiles

(* The answer of the compile endpoint replaces the last wasm, and a        *)
(* deployment may go on with it.                                           *)
LEMMA CompileAnswerInv ==
    ASSUME IInv, NEW t \in Tasks, CompileAnswer(t)
    PROVE  IInv'
<1>1. Compiles(t) /\ UNCHANGED <<currentFile, text, contract, ledger, dialog, history>>
  BY DEF CompileAnswer, Compiles
<1>2. CASE SetCurrentWasm(Built(t)) /\ AfterCompile(t, Built(t))
  <2>1. /\ task[t].sel \in Files /\ task[t].code \in Nat
        /\ task[t].code <= text[task[t].sel]
    BY <1>1 DEF IInv, TypeOK, CompilesAFile, Compiles, Task
  <2>2. currentWasm' \in LastWasm
    BY <1>2, <2>1 DEF SetCurrentWasm, Built, LastWasm, MaybeWasm, Wasm
  <2>3. WasmIsOfPath'
    BY <1>1, <1>2, <2>1 DEF SetCurrentWasm, Built, WasmIsOfPath, Wasm
  <2> QED
    BY <1>1, <1>2, <2>2, <2>3, Answering
<1>3. CASE UNCHANGED currentWasm /\ AfterCompile(t, Null)
  <2>1. currentWasm' \in LastWasm /\ WasmIsOfPath'
    BY <1>1, <1>3 DEF IInv, TypeOK, WasmIsOfPath
  <2> QED
    BY <1>1, <1>3, <2>1, Answering
<1> QED
  BY <1>2, <1>3 DEF CompileAnswer

-----------------------------------------------------------------------------
(* The methods go to the store, over those of the deployments in flight.   *)
LEMMA IdlGeneratedInv ==
    ASSUME IInv, NEW t \in Tasks, IdlGenerated(t)
    PROVE  IInv'
<1>1. /\ task[t].pc = "idl" /\ task[t] \in Task
      /\ UNCHANGED <<currentFile, text, currentWasm, compiled, held, ledger,
                     dialog, gaveUp, listed>>
  BY DEF IdlGenerated, IInv, TypeOK
<1>2. CASE Done(t) /\ UNCHANGED <<contract, overtaken>>
  <2>1. /\ currentWasm' \in LastWasm /\ WasmIsOfPath' /\ held' \in MaybeWasm
        /\ compiled' \subseteq Files /\ dialog' \in BOOLEAN
        /\ gaveUp' \subseteq Tasks /\ gaveUp \subseteq gaveUp'
    BY <1>1 DEF IInv, TypeOK, WasmIsOfPath
  <2> QED
    BY <1>1, <1>2, <2>1, Ending DEF Running
<1>3. CASE /\ contract' = [contract EXCEPT !.methods = task[t].wasm]
           /\ overtaken' = overtaken \cup
                 {u \in Tasks \ {t} : task[u].pc \in {"upload", "create"}}
           /\ Go(t, "upload")
  <2>1. /\ task' \in [Tasks -> Task]
        /\ task'[t] = [task[t] EXCEPT !.pc = "upload"]
        /\ \A u \in Tasks \ {t} : task'[u] = task[u]
    BY <1>3, TaskGo DEF IInv
  <2>2. /\ DOMAIN contract' = {"methods", "address", "deployed"}
        /\ contract'.methods = task[t].wasm
        /\ contract'.address = contract.address
        /\ contract'.deployed = contract.deployed
    BY <1>3 DEF IInv, TypeOK
  <2>3. TypeOK'
    BY <1>1, <1>3, <2>1, <2>2 DEF IInv, TypeOK, Task
  <2>4. WasmIsOfPath'
    BY <1>1 DEF IInv, WasmIsOfPath
  <2>5. ListedIsDone' /\ MethodsMatch'
    BY <1>1, <1>3, <2>1, <2>2 DEF IInv, ListedIsDone, MethodsMatch
  <2>6. \A a \in DOMAIN contract'.deployed : OnChain(a)'
    BY <1>1, <2>2 DEF IInv, ListedIffOnChain, OnChain
  <2>7. ASSUME NEW u \in Tasks
        PROVE  Sound(u)'
    <3>1. Sound(u)
      BY ByTasks DEF IInv
    <3>2. CASE u = t
      <4>1. /\ task'[u].pc = "upload" /\ task'[u].wasm = task[u].wasm
            /\ task'[u].sel = task[u].sel /\ task'[u].code = task[u].code
            /\ task'[u].by = task[u].by /\ task'[u].given = task[u].given
        BY <1>1, <2>1, <3>2 DEF Task
      <4> QED
        BY <1>1, <2>2, <3>1, <3>2, <4>1 DEF Sound, Compiles, Deploys, InFlight
    <3>3. CASE u # t
      BY <1>1, <1>3, <2>1, <3>1, <3>3 DEF Sound, Compiles, Deploys, InFlight
    <3> QED
      BY <3>2, <3>3
  <2> QED
    BY <2>3, <2>4, <2>5, <2>6, <2>7, ByTasksNext
<1> QED
  BY <1>2, <1>3 DEF IdlGenerated

-----------------------------------------------------------------------------
(* What becomes of a transaction: a contract is created only by a task     *)
(* that is there to ask for it, and nothing changes what is decided.       *)
LEMMA Deciding ==
    ASSUME IInv,
           ledger' \in [Tasks -> [upload : Fate, create : Fate, invoke : Fate]],
           \A u \in Tasks :
              \/ ledger'[u].create = ledger[u].create
              \/ ledger[u].create = "none" /\ task[u].pc = "create"
              \/ ledger[u].create = "sent",
           UNCHANGED <<currentFile, text, currentWasm, compiled, contract, held,
                       task, dialog, overtaken, gaveUp, listed>>
    PROVE  IInv'
<1>1. TypeOK'
  BY DEF IInv, TypeOK
<1>2. WasmIsOfPath' /\ ListedIsDone' /\ MethodsMatch'
  BY DEF IInv, WasmIsOfPath, ListedIsDone, MethodsMatch
<1>3. \A a \in DOMAIN contract'.deployed : OnChain(a)'
  BY DEF IInv, ListedIffOnChain, ListedIsDone, OnChain
<1>4. ASSUME NEW u \in Tasks
      PROVE  Sound(u)'
  <2>1. Sound(u)
    BY ByTasks DEF IInv
  <2> QED
    BY <2>1 DEF Sound, Compiles, Deploys, InFlight
<1> QED
  BY <1>1, <1>2, <1>3, <1>4, ByTasksNext

(* A transaction is included, and succeeds or fails.                       *)
LEMMA IncludeInv ==
    ASSUME IInv, NEW t \in Tasks, NEW tx \in {"upload", "create", "invoke"},
           Include(t, tx)
    PROVE  IInv'
<1>1. PICK s \in {"success", "failed", "dropped", "noValue"} :
         ledger[t][tx] = "sent" /\ ledger' = [ledger EXCEPT ![t][tx] = s]
  BY DEF Include
<1>2. ledger \in [Tasks -> [upload : Fate, create : Fate, invoke : Fate]]
  BY DEF IInv, TypeOK
<1>3. s \in Fate
  BY DEF Fate, Sent
<1>4. ledger' \in [Tasks -> [upload : Fate, create : Fate, invoke : Fate]]
  BY <1>1, <1>2, <1>3
<1>5. \A u \in Tasks :
         ledger'[u].create = ledger[u].create \/ ledger[u].create = "sent"
  BY <1>1, <1>2
<1> QED
  BY <1>4, <1>5, Deciding DEF Include, StoreUnchanged, history

(* The transaction of a task is sent, or the task is over.                 *)
LEMMA SendInv ==
    ASSUME IInv, NEW t \in Tasks, Send(t)
    PROVE  IInv'
<1>1. /\ task[t].pc \in {"upload", "create"}
      /\ ledger[t][task[t].pc] = "none"
      /\ UNCHANGED <<currentFile, text, currentWasm, compiled, contract, held,
                     dialog, overtaken, gaveUp, listed>>
  BY DEF Send, Phase, StoreUnchanged, history
<1>2. ledger \in [Tasks -> [upload : Fate, create : Fate, invoke : Fate]]
  BY DEF IInv, TypeOK
<1>3. CASE /\ ledger' = [ledger EXCEPT ![t][task[t].pc] = "sent"]
           /\ UNCHANGED task
  <2>1. "sent" \in Fate
    BY DEF Fate, Sent
  <2>2. ledger' \in [Tasks -> [upload : Fate, create : Fate, invoke : Fate]]
    BY <1>1, <1>2, <1>3, <2>1
  <2>3. \A u \in Tasks : \/ ledger'[u].create = ledger[u].create
                         \/ ledger[u].create = "none" /\ task[u].pc = "create"
    BY <1>1, <1>2, <1>3
  <2> QED
    BY <1>1, <1>3, <2>2, <2>3, Deciding
<1>4. CASE Done(t) /\ UNCHANGED ledger
  <2>1. /\ currentWasm' \in LastWasm /\ WasmIsOfPath' /\ held' \in MaybeWasm
        /\ compiled' \subseteq Files /\ dialog' \in BOOLEAN
        /\ gaveUp' \subseteq Tasks /\ gaveUp \subseteq gaveUp'
    BY <1>1 DEF IInv, TypeOK, WasmIsOfPath
  <2>2. Running(t) /\ (task[t].pc = "create" => ledger[t].create = "none")
    BY <1>1 DEF Running
  <2> QED
    BY <1>1, <1>4, <2>1, <2>2, Ending
<1> QED
  BY <1>3, <1>4 DEF Send, Phase

(* What getTransaction says; a contract that is there gets its methods.    *)
LEMMA DeployedInv ==
    ASSUME IInv, NEW t \in Tasks, task[t].pc = "create", ledger[t].create = "success",
           contract' = Deployed(contract, t), listed' = listed \cup {t}, Done(t),
           UNCHANGED <<currentFile, text, currentWasm, compiled, held, ledger,
                       dialog, overtaken, gaveUp>>
    PROVE  IInv'
<1> DEFINE old == contract.deployed
           adds == contract.methods # Null /\ t \notin DOMAIN old
           new == [b \in DOMAIN old \cup {t} |->
                      IF b = t THEN contract.methods ELSE old[b]]
<1>1. /\ DOMAIN contract = {"methods", "address", "deployed"}
      /\ DOMAIN old \subseteq Tasks /\ old \in [DOMAIN old -> Wasm]
      /\ contract.methods \in MaybeWasm
  BY DEF IInv, TypeOK
<1>2. /\ DOMAIN contract' = {"methods", "address", "deployed"}
      /\ contract'.methods = contract.methods
      /\ contract'.address = t
      /\ contract'.deployed = IF adds THEN new ELSE old
  BY <1>1 DEF Deployed
<1>3. /\ task' \in [Tasks -> Task]
      /\ task'[t].pc = "done" /\ task'[t].wasm = task[t].wasm
      /\ \A u \in Tasks \ {t} : task'[u] = task[u]
  BY TaskDone DEF IInv
<1>4. /\ DOMAIN contract'.deployed \subseteq DOMAIN old \cup {t}
      /\ \A a \in DOMAIN contract'.deployed :
            \/ a \in DOMAIN old /\ a # t /\ contract'.deployed[a] = old[a]
            \/ a = t /\ contract'.deployed[a] = contract.methods
  <2>1. t \notin DOMAIN old
    BY DEF IInv, ListedIsDone
  <2> QED
    BY <1>2, <2>1
<1>5. TypeOK'
  <2>1. contract'.deployed \in [DOMAIN contract'.deployed -> Wasm]
    <3>1. CASE adds
      BY <1>1, <1>2, <3>1 DEF MaybeWasm
    <3>2. CASE ~adds
      BY <1>1, <1>2, <3>2
    <3> QED
      BY <3>1, <3>2
  <2> QED
    BY <1>1, <1>2, <1>3, <1>4, <2>1 DEF IInv, TypeOK
<1> HIDE DEF old
<1>6. WasmIsOfPath'
  BY DEF IInv, WasmIsOfPath
<1>7. ListedIsDone'
  BY <1>3, <1>4 DEF IInv, ListedIsDone, old
<1>8. MethodsMatch'
  <2> SUFFICES ASSUME NEW a \in DOMAIN contract'.deployed
               PROVE  contract'.deployed[a] = task'[a].wasm \/ a \in overtaken'
    BY DEF MethodsMatch
  <2>1. CASE a = t
    BY <1>3, <1>4, <2>1 DEF IInv, MethodsInFlight, InFlight
  <2>2. CASE a # t
    <3>1. a \in DOMAIN old /\ contract'.deployed[a] = old[a] /\ a \in Tasks
      BY <1>1, <1>4, <2>2
    <3> QED
      BY <1>3, <2>2, <3>1 DEF IInv, MethodsMatch, old
  <2> QED
    BY <2>1, <2>2
<1>9. \A a \in DOMAIN contract'.deployed : OnChain(a)'
  BY <1>4 DEF IInv, ListedIffOnChain, OnChain, old
<1>10. ASSUME NEW u \in Tasks
       PROVE  Sound(u)'
  <2>1. Sound(u)
    BY ByTasks DEF IInv
  <2>2. CASE u = t
    BY <1>3, <2>2 DEF Sound, Compiles, Deploys, InFlight
  <2>3. CASE u # t
    BY <1>2, <1>3, <2>1, <2>3 DEF Sound, Compiles, Deploys, InFlight
  <2> QED
    BY <2>2, <2>3
<1> QED
  BY <1>5, <1>6, <1>7, <1>8, <1>9, <1>10, ByTasksNext

(* A poll finds the fate of the transaction, and the task goes on or is    *)
(* over.                                                                   *)
LEMMA PollInv ==
    ASSUME IInv, NEW t \in Tasks, Poll(t)
    PROVE  IInv'
<1> DEFINE status == ledger[t][task[t].pc]
           absent == status \in {"sent", "dropped"}
<1>1. /\ task[t].pc \in {"upload", "create"} /\ task[t] \in Task
      /\ UNCHANGED <<currentFile, text, currentWasm, compiled, held, ledger,
                     dialog, overtaken>>
  BY DEF Poll, Phase, IInv, TypeOK
<1>2. /\ currentWasm' \in LastWasm /\ WasmIsOfPath' /\ held' \in MaybeWasm
      /\ compiled' \subseteq Files /\ dialog' \in BOOLEAN
      /\ ledger' \in [Tasks -> [upload : Fate, create : Fate, invoke : Fate]]
  BY <1>1 DEF IInv, TypeOK, WasmIsOfPath
<1>3. CASE /\ task[t].pc = "upload"
           /\ task' = [task EXCEPT ![t].pc = "create", ![t].polls = 0]
           /\ UNCHANGED <<contract, gaveUp, listed>>
  <2>1. /\ task' \in [Tasks -> Task]
        /\ task'[t] = [task[t] EXCEPT !.pc = "create", !.polls = 0]
        /\ \A u \in Tasks \ {t} : task'[u] = task[u]
    BY <1>1, <1>3 DEF IInv, TypeOK, Task
  <2>2. Sound(t)'
    <3>1. Sound(t)
      BY ByTasks DEF IInv
    <3>2. /\ task'[t].pc = "create" /\ task'[t].wasm = task[t].wasm
          /\ task'[t].sel = task[t].sel /\ task'[t].code = task[t].code
          /\ task'[t].by = task[t].by /\ task'[t].given = task[t].given
      BY <1>1, <2>1 DEF Task
    <3> QED
      BY <1>1, <1>3, <3>1, <3>2 DEF Sound, Compiles, Deploys, InFlight
  <2>3. task[t].pc # "done" /\ task'[t].pc # "done"
    BY <1>1, <2>1 DEF Task
  <2> QED
    BY <1>1, <1>2, <1>3, <2>1, <2>2, <2>3, GoingOn
<1>4. CASE /\ status = "success" /\ task[t].pc = "create"
           /\ contract' = Deployed(contract, t)
           /\ listed' = listed \cup {t}
           /\ Done(t) /\ UNCHANGED gaveUp
  BY <1>1, <1>4, DeployedInv
<1>5. CASE /\ task' = [task EXCEPT ![t].polls = @ + 1]
           /\ UNCHANGED <<contract, gaveUp, listed>>
  <2>1. /\ task' \in [Tasks -> Task]
        /\ task'[t] = [task[t] EXCEPT !.polls = @ + 1]
        /\ \A u \in Tasks \ {t} : task'[u] = task[u]
    BY <1>1, <1>5 DEF IInv, TypeOK, Task
  <2>2. Sound(t)'
    <3>1. Sound(t)
      BY ByTasks DEF IInv
    <3>2. /\ task'[t].pc = task[t].pc /\ task'[t].wasm = task[t].wasm
          /\ task'[t].sel = task[t].sel /\ task'[t].code = task[t].code
          /\ task'[t].by = task[t].by /\ task'[t].given = task[t].given
      BY <1>1, <2>1 DEF Task
    <3> QED
      BY <1>1, <1>5, <3>1, <3>2 DEF Sound, Compiles, Deploys, InFlight
  <2>3. task[t].pc # "done" /\ task'[t].pc # "done"
    BY <1>1, <2>1 DEF Task
  <2> QED
    BY <1>1, <1>2, <1>5, <2>1, <2>2, <2>3, GoingOn
<1>6. CASE /\ status = "failed" \/ absent
           /\ gaveUp' = IF absent THEN gaveUp \cup {t} ELSE gaveUp
           /\ Done(t) /\ UNCHANGED <<contract, listed>>
  <2>1. gaveUp \subseteq gaveUp' /\ gaveUp' \subseteq Tasks
    BY <1>6 DEF IInv, TypeOK
  <2>2. task[t].pc = "create" => ledger[t].create \in {"none", "failed"} \/ t \in gaveUp'
    BY <1>6
  <2> QED
    BY <1>1, <1>2, <1>6, <2>1, <2>2, Ending DEF Running
<1> QED
  BY <1>3, <1>4, <1>5, <1>6 DEF Poll, Phase, Succeeded

(* A poll throws, and the task is over.                                    *)
LEMMA PollFailsInv ==
    ASSUME IInv, NEW t \in Tasks, PollFails(t)
    PROVE  IInv'
<1>1. /\ task[t].pc \in {"upload", "create"}
      /\ gaveUp' = gaveUp \cup {t} /\ Done(t)
      /\ UNCHANGED <<currentFile, text, currentWasm, compiled, contract, held,
                     ledger, dialog, overtaken, listed>>
  BY DEF PollFails, Phase, StoreUnchanged
<1>2. /\ currentWasm' \in LastWasm /\ WasmIsOfPath' /\ held' \in MaybeWasm
      /\ compiled' \subseteq Files /\ dialog' \in BOOLEAN
      /\ gaveUp' \subseteq Tasks /\ gaveUp \subseteq gaveUp'
  BY <1>1 DEF IInv, TypeOK, WasmIsOfPath
<1> QED
  BY <1>1, <1>2, Ending DEF Running

-----------------------------------------------------------------------------
(* The invocation has nothing to do with what was deployed.                *)
LEMMA InvokeInv ==
    ASSUME IInv, NEW t \in Tasks, NEW a \in Tasks, Invoke(t, a)
    PROVE  IInv'
<1> DEFINE T == [Idle EXCEPT !.pc = "call", !.by = "invoke"]
<1>1. /\ task[t].pc = "idle" /\ task' = [task EXCEPT ![t] = T] /\ dialog' = TRUE
      /\ UNCHANGED <<currentFile, text, currentWasm, compiled, contract, held,
                     ledger, overtaken, gaveUp, listed>>
  BY DEF Invoke, IsNext, Free, StoreUnchanged, history
<1>2. T \in Task /\ T.pc = "call"
  BY DEF Task, Idle, NoWasm, Shown, LastWasm, MaybeWasm
<1>3. /\ task' \in [Tasks -> Task]
      /\ task'[t] = T
      /\ \A u \in Tasks \ {t} : task'[u] = task[u]
  BY <1>1, <1>2 DEF IInv, TypeOK
<1>4. /\ currentWasm' \in LastWasm /\ WasmIsOfPath' /\ dialog' \in BOOLEAN
      /\ ledger' \in [Tasks -> [upload : Fate, create : Fate, invoke : Fate]]
      /\ ledger[t].create = "none"
  BY <1>1 DEF IInv, TypeOK, WasmIsOfPath, Fates
<1> HIDE DEF T
<1>5. Sound(t)' /\ task'[t].pc # "done"
  BY <1>1, <1>2, <1>3, <1>4 DEF Sound, Compiles, Deploys, InFlight
<1> QED
  BY <1>1, <1>3, <1>4, <1>5, GoingOn

(* A task of an invocation ends.                                           *)
LEMMA CallEnds ==
    ASSUME IInv, NEW t \in Tasks, task[t].pc \in {"call", "await"}, Done(t),
           dialog' \in BOOLEAN, StoreUnchanged, UNCHANGED <<held, ledger, history>>
    PROVE  IInv'
<1>1. /\ currentWasm' \in LastWasm /\ WasmIsOfPath' /\ held' \in MaybeWasm
      /\ compiled' \subseteq Files
      /\ gaveUp' \subseteq Tasks /\ gaveUp \subseteq gaveUp'
  BY DEF IInv, TypeOK, WasmIsOfPath, StoreUnchanged, history
<1> QED
  BY <1>1, Ending DEF Running, StoreUnchanged, history

(* A call of a method is sent, or fails.                                   *)
LEMMA CallContractInv ==
    ASSUME IInv, NEW t \in Tasks, CallContract(t)
    PROVE  IInv'
<1>1. /\ task[t].pc = "call" /\ task[t] \in Task
      /\ UNCHANGED <<currentFile, text, currentWasm, compiled, contract, held,
                     overtaken, gaveUp, listed>>
  BY DEF CallContract, StoreUnchanged, history, IInv, TypeOK
<1>2. CASE /\ ledger' = [ledger EXCEPT ![t].invoke = "sent"]
           /\ Go(t, "await") /\ UNCHANGED dialog
  <2>1. "sent" \in Fate
    BY DEF Fate, Sent
  <2>2. /\ ledger' \in [Tasks -> [upload : Fate, create : Fate, invoke : Fate]]
        /\ \A u \in Tasks : ledger'[u].create = ledger[u].create
    BY <1>2, <2>1 DEF IInv, TypeOK
  <2>3. /\ task' \in [Tasks -> Task]
        /\ task'[t] = [task[t] EXCEPT !.pc = "await"]
        /\ \A u \in Tasks \ {t} : task'[u] = task[u]
    BY <1>2, TaskGo DEF IInv
  <2>4. task'[t].pc = "await"
    BY <1>1, <2>3 DEF Task
  <2>5. /\ currentWasm' \in LastWasm /\ WasmIsOfPath' /\ dialog' \in BOOLEAN
        /\ ledger[t].create = "none"
    BY <1>1, <1>2 DEF IInv, TypeOK, WasmIsOfPath, Fates
  <2>6. Sound(t)'
    BY <2>2, <2>4, <2>5 DEF Sound, Compiles, Deploys, InFlight
  <2> QED
    BY <1>1, <2>2, <2>3, <2>4, <2>5, <2>6, GoingOn
<1>3. CASE dialog' = FALSE /\ Done(t) /\ UNCHANGED ledger
  BY <1>1, <1>3, CallEnds DEF CallContract
<1> QED
  BY <1>2, <1>3 DEF CallContract

(* Its result comes, or waiting for it fails.                              *)
LEMMA AwaitInv ==
    ASSUME IInv, NEW t \in Tasks, AwaitInvoked(t) \/ AwaitFails(t)
    PROVE  IInv'
  BY CallEnds DEF AwaitInvoked, AwaitFails, Closes

-----------------------------------------------------------------------------
(* Every step keeps the invariant.                                         *)
LEMMA StepInv == IInv /\ [Next]_vars => IInv'
<1> SUFFICES ASSUME IInv, [Next]_vars
             PROVE  IInv'
  OBVIOUS
<1>1. ASSUME NEW f \in Files \cup {Home, Null}, ShowFile(f)
      PROVE  IInv'
  BY <1>1, ShowFileInv
<1>2. CASE Edit
  BY <1>2, EditInv
<1>3. ASSUME NEW a \in Tasks, RemoveDeployed(a)
      PROVE  IInv'
  BY <1>3, RemoveDeployedInv
<1>4. ASSUME NEW t \in Tasks,
             \/ HeaderCompile(t) \/ ViewCompile(t) \/ HeaderDeploy(t) \/ ViewDeploy(t)
             \/ CompileAnswer(t) \/ IdlGenerated(t)
             \/ Send(t) \/ Poll(t) \/ PollFails(t)
             \/ CallContract(t) \/ AwaitInvoked(t) \/ AwaitFails(t)
      PROVE  IInv'
  BY <1>4, HeaderCompileInv, ViewCompileInv, HeaderDeployInv, ViewDeployInv,
     CompileAnswerInv, IdlGeneratedInv, SendInv, PollInv, PollFailsInv,
     CallContractInv, AwaitInv
<1>5. ASSUME NEW t \in Tasks, NEW a \in Tasks, Invoke(t, a)
      PROVE  IInv'
  BY <1>5, InvokeInv
<1>6. ASSUME NEW t \in Tasks, NEW tx \in {"upload", "create", "invoke"}, Include(t, tx)
      PROVE  IInv'
  BY <1>6, IncludeInv
<1>7. CASE UNCHANGED vars
  BY <1>7 DEF vars, history, IInv, TypeOK, WasmIsOfPath, CompilesAFile,
     DeploysTheSelected, MethodsInFlight, ListedIsDone, MethodsMatch, Fates,
     ListedIffOnChain, Compiles, Deploys, InFlight, OnChain, Running
<1> QED
  BY <1>1, <1>2, <1>3, <1>4, <1>5, <1>6, <1>7 DEF Next

(* The invariant holds in every state of every run.                        *)
LEMMA Invariant == Spec => []IInv
  BY InitInv, StepInv, PTL DEF Spec

(* Every variable keeps its type, whatever the files and the bounds.       *)
THEOREM TypeCorrect == Spec => []TypeOK
<1>1. IInv => TypeOK
  BY DEF IInv
<1> QED
  BY <1>1, Invariant, PTL

(* deployWasm: what a deployment uploads is of the file that was selected  *)
(* at the click and no newer than its text, but for the two exceptions.    *)
THEOREM DeploysCorrect == Spec => []DeploysTheSelected
<1>1. IInv => DeploysTheSelected
  BY DEF IInv
<1> QED
  BY <1>1, Invariant, PTL

(* updateContract: an address is offered the methods of its own wasm,      *)
(* unless another deployment came in between.                              *)
THEOREM MethodsCorrect == Spec => []MethodsMatch
<1>1. IInv => MethodsMatch
  BY DEF IInv
<1> QED
  BY <1>1, Invariant, PTL

(* deployStellerContract: the deploy view lists only what is on the        *)
(* ledger, and all of it except what the page stopped asking about.        *)
THEOREM ListedCorrect == Spec => []ListedIffOnChain
<1>1. IInv => ListedIffOnChain
  BY DEF IInv
<1> QED
  BY <1>1, Invariant, PTL
=============================================================================
