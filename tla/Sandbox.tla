------------------------------ MODULE Sandbox ------------------------------
(***************************************************************************)
(* The compile endpoint of the backend (crates/backend/src/services):      *)
(* route_compile gives every POST to a thread of the blocking pool, which  *)
(* makes a scratch directory, starts a detached container over it, waits   *)
(* for the container under a timeout and reads what it left behind.        *)
(*                                                                         *)
(* Docker, the container and the file system are external: a docker        *)
(* command may fail at any time, the container writes its wasm file in     *)
(* its own time and may exit, be killed, or never end.  The timer may fire *)
(* whenever the thread waits: TIMEOUT is not counted out.                  *)
(***************************************************************************)
EXTENDS Integers, FiniteSets

CONSTANTS
    Requests,       \* the POSTs to /compile
    Pool            \* the threads spawn_blocking has

ASSUME RequestsAssumption == IsFiniteSet(Requests)
ASSUME PoolAssumption == Pool \in Nat \ {0}

VARIABLES
    job,            \* where the closure given to spawn_blocking is
    container,      \* the container started for the request
    wasmFile,       \* the first .wasm file of the output directory
    scratch,        \* the TempDir exists
    code,           \* the status `timed_out' carries out of the wait
    reply,          \* what was answered, "none" until then
    wasm            \* the payload of a SUCCESS

vars == <<job, container, wasmFile, scratch, code, reply, wasm>>
externalVars == <<container, wasmFile>>

Unknown == -1           \* the wait has not ended
TimedOut == -2          \* Err of tokio::time::timeout
NoCode == -3             \* stands for i32::MAX: `docker wait' printed no number

Job == {"idle", "queued", "created", "waiting", "logs", "reading", "found",
        "done"}
File == {"none", "partial", "whole"}

TypeOK ==
    /\ job \in [Requests -> Job]
    /\ container \in [Requests -> {"none", "running", "exited"}]
    /\ wasmFile \in [Requests -> File]
    /\ scratch \in [Requests -> BOOLEAN]
    /\ code \in [Requests -> {Unknown, TimedOut, 0, 1, NoCode}]
    /\ reply \in [Requests -> {"none", "success", "error", "failed"}]
    /\ wasm \in [Requests -> File]

Init ==
    /\ job = [r \in Requests |-> "idle"]
    /\ container = [r \in Requests |-> "none"]
    /\ wasmFile = [r \in Requests |-> "none"]
    /\ scratch = [r \in Requests |-> FALSE]
    /\ code = [r \in Requests |-> Unknown]
    /\ reply = [r \in Requests |-> "none"]
    /\ wasm = [r \in Requests |-> "none"]

-----------------------------------------------------------------------------
Goto(r, place) == job' = [job EXCEPT ![r] = place]

(* Mutant of Finish: the directory is kept.                                *)
Finish_KeepsScratch(r, answer) ==
    /\ Goto(r, "done")
    /\ reply' = [reply EXCEPT ![r] = answer]
    /\ UNCHANGED scratch

(* The closure returns: the Sandbox and its TempDir are dropped.  Removing *)
(* a directory that a running container writes to may fail, silently.      *)
Finish(r, answer) ==
    /\ Goto(r, "done")
    /\ reply' = [reply EXCEPT ![r] = answer]
    /\ \E left \in BOOLEAN :
         /\ left => scratch[r] /\ container[r] = "running"
         /\ scratch' = [scratch EXCEPT ![r] = left]

(* An early return with Err: route_compile answers 500.                    *)
Fail(r) ==
    /\ Finish(r, "failed")
    /\ UNCHANGED <<externalVars, code, wasm>>

(* The threads that are in a closure.                                      *)
Busy == {r \in Requests : job[r] \notin {"idle", "queued", "done"}}

Post(r) ==
    /\ job[r] = "idle"
    /\ Goto(r, "queued")
    /\ UNCHANGED <<externalVars, scratch, code, reply, wasm>>

(* Sandbox::new on a free thread.                                          *)
New(r) ==
    /\ job[r] = "queued"
    /\ Cardinality(Busy) < Pool
    /\ \/ /\ scratch' = [scratch EXCEPT ![r] = TRUE]
          /\ Goto(r, "created")
          /\ UNCHANGED <<externalVars, code, reply, wasm>>
       \/ Fail(r)

(* build_compile_command: a container over the scratch directory, without  *)
(* --rm and without a limit of time of its own.                            *)
StartContainer(r) == container' = [container EXCEPT ![r] = "running"]

(* Mutant of Run: the output of a detached container is read at once.      *)
Run_NoWait(r) ==
    /\ job[r] = "created"
    /\ StartContainer(r)
    /\ Goto(r, "logs")
    /\ UNCHANGED <<wasmFile, scratch, code, reply, wasm>>

(* The source is written and `docker run --detach' prints the container's  *)
(* id, or one of the two fails.                                            *)
Run(r) ==
    /\ job[r] = "created"
    /\ \/ /\ StartContainer(r)
          /\ Goto(r, "waiting")
          /\ UNCHANGED <<wasmFile, scratch, code, reply, wasm>>
       \/ Fail(r)

-----------------------------------------------------------------------------
(* solang writes the file of the contract and ends, with 0 only if it has  *)
(* written all of it; it may be killed for its memory in between.          *)
ContainerWrites(r) ==
    /\ container[r] = "running"
    /\ \/ wasmFile[r] = "none" /\ wasmFile' = [wasmFile EXCEPT ![r] = "partial"]
       \/ wasmFile[r] = "partial" /\ wasmFile' = [wasmFile EXCEPT ![r] = "whole"]
    /\ UNCHANGED <<job, container, scratch, code, reply, wasm>>

ContainerExits(r) ==
    /\ container[r] = "running"
    /\ container' = [container EXCEPT ![r] = "exited"]
    /\ UNCHANGED <<job, wasmFile, scratch, code, reply, wasm>>

-----------------------------------------------------------------------------
EndWait(r, status) ==
    /\ code' = [code EXCEPT ![r] = status]
    /\ Goto(r, "logs")
    /\ UNCHANGED <<externalVars, scratch, reply, wasm>>

(* `docker wait' prints the exit code of the container.                    *)
WaitReturns(r) ==
    /\ job[r] = "waiting"
    /\ container[r] = "exited"
    /\ \E status \in (IF wasmFile[r] = "partial" THEN {1} ELSE {0, 1}) :
         EndWait(r, status)

(* It cannot be started, which is an early return, or it fails without     *)
(* printing a number, which counts as an exit with i32::MAX.               *)
WaitFails(r) ==
    /\ job[r] = "waiting"
    /\ \/ Fail(r)
       \/ EndWait(r, NoCode)

(* Mutants of TimeOut: it is taken for the end of the container, or only   *)
(* noticed after it.                                                       *)
TimeOut_AsExit(r) ==
    /\ job[r] = "waiting"
    /\ EndWait(r, 0)

TimeOut_TooLate(r) ==
    /\ job[r] = "waiting"
    /\ container[r] = "exited"
    /\ EndWait(r, TimedOut)

(* The timer is first: the container is neither stopped nor removed.       *)
TimeOut(r) ==
    /\ job[r] = "waiting"
    /\ EndWait(r, TimedOut)

(* `docker logs' is run whatever ended the wait; only then is the timeout  *)
(* an error.                                                               *)
Logs(r) ==
    /\ job[r] = "logs"
    /\ \/ /\ code[r] # TimedOut
          /\ Goto(r, "reading")
          /\ UNCHANGED <<externalVars, scratch, code, reply, wasm>>
       \/ Fail(r)

(* The directory is listed: the exit code has no part in the verdict.      *)
Find(r) ==
    /\ job[r] = "reading"
    /\ \/ /\ wasmFile[r] # "none"
          /\ Goto(r, "found")
          /\ UNCHANGED <<externalVars, scratch, code, reply, wasm>>
       \/ /\ wasmFile[r] = "none"
          /\ Finish(r, "error")
          /\ UNCHANGED <<externalVars, code, wasm>>
       \/ Fail(r)

Read(r) ==
    /\ job[r] = "found"
    /\ \/ /\ wasm' = [wasm EXCEPT ![r] = wasmFile[r]]
          /\ Finish(r, "success")
       \/ /\ Finish(r, "error")
          /\ UNCHANGED wasm
    /\ UNCHANGED <<externalVars, code>>

-----------------------------------------------------------------------------
Step(r) ==
    \/ New(r) \/ Run(r) \/ WaitReturns(r) \/ TimeOut(r)
    \/ Logs(r) \/ Find(r) \/ Read(r)

Next ==
    \E r \in Requests :
        \/ Post(r) \/ Step(r) \/ WaitFails(r)
        \/ ContainerWrites(r) \/ ContainerExits(r)

Spec == Init /\ [][Next]_vars

(* The threads run and the timer fires; the pool serves its queue in       *)
(* order, and a container need never end.                                  *)
Fairness ==
    \A r \in Requests :
        /\ SF_vars(New(r))
        /\ WF_vars(Step(r))

FairSpec == Spec /\ Fairness

-----------------------------------------------------------------------------
(* A SUCCESS carries a truncated wasm only if the exit code that is thrown *)
(* away was not 0.                                                         *)
SuccessIsWhole ==
    \A r \in Requests :
        reply[r] = "success" /\ code[r] = 0 => wasm[r] = "whole"

(* A container outlives its request only if the wait for it ended without  *)
(* its exit code: by the timeout, or because `docker wait' failed.         *)
AbandonedUnseen ==
    \A r \in Requests :
        job[r] # "waiting" /\ container[r] = "running" =>
            code[r] \in {TimedOut, NoCode} \/ reply[r] = "failed"

(* A request that is answered leaves its scratch directory behind only     *)
(* with a container that was not waited for to the end.                    *)
ScratchRemoved ==
    \A r \in Requests :
        job[r] = "done" /\ scratch[r] =>
            code[r] \in {TimedOut, NoCode, Unknown} /\ container[r] # "none"

(* Every POST is answered, even if every container hangs and there are     *)
(* more of them than threads.                                              *)
EveryPostAnswered ==
    \A r \in Requests : job[r] = "queued" ~> reply[r] # "none"
=============================================================================
