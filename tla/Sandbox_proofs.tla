--------------------------- MODULE Sandbox_proofs ---------------------------
(***************************************************************************)
(* Proofs about Sandbox, for any set of requests and any size of the pool: *)
(* TypeOK, SuccessIsWhole, AbandonedUnseen and ScratchRemoved hold in every*)
(* reachable state.  None of them depends on the pool or on fairness.      *)
(***************************************************************************)
EXTENDS Sandbox, TLAPS

(* What the control points say about the rest of a request's state.        *)
Progress ==
    \A r \in Requests :
        /\ job[r] \in {"idle", "queued", "created"} => container[r] = "none"
        /\ job[r] \in {"idle", "queued", "created", "waiting"} =>
              code[r] = Unknown
        /\ job[r] # "done" => reply[r] = "none"
        /\ job[r] = "found" => wasmFile[r] # "none"
        /\ code[r] = 0 => container[r] = "exited" /\ wasmFile[r] # "partial"

(* The inductive invariant.                                                *)
IInv == TypeOK /\ Progress /\ SuccessIsWhole /\ AbandonedUnseen /\ ScratchRemoved

(* Init establishes the invariant.                                         *)
LEMMA InitInv == Init => IInv
BY DEF Init, IInv, TypeOK, Progress, SuccessIsWhole, AbandonedUnseen,
       ScratchRemoved, Job, File, Unknown, TimedOut, NoCode

(* Returning drops the scratch directory unless the container still runs.  *)
LEMMA FinishDrops ==
  ASSUME TypeOK, NEW r \in Requests, NEW answer \in {"success", "error", "failed"},
         Finish(r, answer)
  PROVE  /\ job' \in [Requests -> Job]
         /\ reply' \in [Requests -> {"none", "success", "error", "failed"}]
         /\ scratch' \in [Requests -> BOOLEAN]
         /\ job' = [job EXCEPT ![r] = "done"]
         /\ reply' = [reply EXCEPT ![r] = answer]
         /\ \A q \in Requests :
              scratch'[q] => scratch[q] /\ (q = r => container[r] = "running")
<1>1. job' = [job EXCEPT ![r] = "done"] /\ reply' = [reply EXCEPT ![r] = answer]
  BY DEF Finish, Goto
<1>2. job' \in [Requests -> Job]
  BY <1>1 DEF TypeOK, Job
<1>3. reply' \in [Requests -> {"none", "success", "error", "failed"}]
  BY <1>1 DEF TypeOK
<1> PICK left \in BOOLEAN :
        /\ left => scratch[r] /\ container[r] = "running"
        /\ scratch' = [scratch EXCEPT ![r] = left]
  BY DEF Finish
<1>4. scratch' \in [Requests -> BOOLEAN]
  BY DEF TypeOK
<1>5. ASSUME NEW q \in Requests, scratch'[q]
      PROVE  scratch[q] /\ (q = r => container[r] = "running")
  BY <1>5, Zenon DEF TypeOK
<1> QED BY <1>1, <1>2, <1>3, <1>4, <1>5

(* A step that returns leaves ScratchRemoved true, if what it knows of the *)
(* container's end is what AbandonedUnseen says of it.                     *)
LEMMA FinishScratch ==
  ASSUME TypeOK, ScratchRemoved, NEW r \in Requests,
         NEW answer \in {"success", "error", "failed"}, Finish(r, answer),
         UNCHANGED <<container, code>>,
         container[r] = "running" => code[r] \in {TimedOut, NoCode, Unknown}
  PROVE  ScratchRemoved'
<1> SUFFICES ASSUME NEW q \in Requests, job'[q] = "done", scratch'[q]
             PROVE  /\ code[q] \in {TimedOut, NoCode, Unknown}
                    /\ container[q] # "none"
  BY DEF ScratchRemoved
<1>1. scratch[q] /\ (q = r => container[r] = "running")
  BY FinishDrops
<1>2. CASE q = r
  BY <1>1, <1>2
<1>3. CASE q # r
  <2>1. job[q] = "done"
    BY <1>3, FinishDrops DEF TypeOK
  <2> QED BY <1>1, <2>1 DEF ScratchRemoved
<1> QED BY <1>2, <1>3

(* A request's own step leaves the state of every other request alone, so  *)
(* the invariant has to be checked for the one that moves.                 *)
LEMMA TypeStep == TypeOK /\ [Next]_vars => TypeOK'
<1> SUFFICES ASSUME TypeOK, [Next]_vars PROVE TypeOK'
  OBVIOUS
<1> USE DEF TypeOK, Job, File, Unknown, TimedOut, NoCode, externalVars
<1>1. ASSUME NEW r \in Requests, Post(r) \/ ContainerWrites(r) \/ ContainerExits(r)
      PROVE TypeOK'
  BY <1>1 DEF Post, ContainerWrites, ContainerExits, Goto
<1>2. ASSUME NEW r \in Requests, New(r) PROVE TypeOK'
  BY <1>2 DEF New, Goto, Fail, Finish
<1>3. ASSUME NEW r \in Requests, Run(r) PROVE TypeOK'
  BY <1>3 DEF Run, StartContainer, Goto, Fail, Finish
<1>4. ASSUME NEW r \in Requests, WaitReturns(r) \/ TimeOut(r) PROVE TypeOK'
  BY <1>4 DEF WaitReturns, TimeOut, EndWait, Goto
<1>5. ASSUME NEW r \in Requests, WaitFails(r) PROVE TypeOK'
  BY <1>5 DEF WaitFails, EndWait, Goto, Fail, Finish
<1>6. ASSUME NEW r \in Requests, Logs(r) PROVE TypeOK'
  BY <1>6 DEF Logs, Goto, Fail, Finish
<1>7. ASSUME NEW r \in Requests, Find(r) PROVE TypeOK'
  BY <1>7 DEF Find, Goto, Fail, Finish
<1>8. ASSUME NEW r \in Requests, Read(r) PROVE TypeOK'
  BY <1>8 DEF Read, Goto, Finish
<1>9. CASE UNCHANGED vars
  BY <1>9 DEF vars
<1> QED
  BY <1>1, <1>2, <1>3, <1>4, <1>5, <1>6, <1>7, <1>8, <1>9 DEF Next, Step

(* The rest of the invariant, action by action.                            *)
Safe == Progress /\ SuccessIsWhole /\ AbandonedUnseen /\ ScratchRemoved

(* Every step keeps the safety properties.                                 *)
LEMMA SafeStep == IInv /\ [Next]_vars => Safe'
<1> SUFFICES ASSUME IInv, [Next]_vars PROVE Safe'
  OBVIOUS
<1> USE DEF IInv, TypeOK, Progress, SuccessIsWhole, AbandonedUnseen,
            ScratchRemoved, Safe, Job, File, Unknown, TimedOut, NoCode,
            externalVars
<1>1. ASSUME NEW r \in Requests, Post(r) PROVE Safe'
  BY <1>1 DEF Post, Goto
<1>2. ASSUME NEW r \in Requests, ContainerWrites(r) \/ ContainerExits(r)
      PROVE Safe'
  BY <1>2 DEF ContainerWrites, ContainerExits
<1>3. ASSUME NEW r \in Requests, New(r) PROVE Safe'
  BY <1>3 DEF New, Goto, Fail, Finish
<1>4. ASSUME NEW r \in Requests, Run(r) PROVE Safe'
  BY <1>4 DEF Run, StartContainer, Goto, Fail, Finish
<1>5. ASSUME NEW r \in Requests, WaitReturns(r) PROVE Safe'
  BY <1>5 DEF WaitReturns, EndWait, Goto
<1>6. ASSUME NEW r \in Requests, TimeOut(r) PROVE Safe'
  BY <1>6 DEF TimeOut, EndWait, Goto
<1>7. ASSUME NEW r \in Requests, WaitFails(r) PROVE Safe'
  BY <1>7 DEF WaitFails, EndWait, Goto, Fail, Finish
<1>8. ASSUME NEW r \in Requests, Logs(r) PROVE Safe'
  BY <1>8 DEF Logs, Goto, Fail, Finish
<1>9. ASSUME NEW r \in Requests, Find(r) PROVE Safe'
  <2>1. CASE wasmFile[r] # "none" /\ Goto(r, "found")
              /\ UNCHANGED <<externalVars, scratch, code, reply, wasm>>
    BY <1>9, <2>1 DEF Find, Goto
  <2>2. ASSUME NEW answer \in {"error", "failed"}, Finish(r, answer),
               UNCHANGED <<externalVars, code, wasm>>, job[r] = "reading"
        PROVE  Safe'
    <3>1. Progress' /\ SuccessIsWhole' /\ AbandonedUnseen'
      BY <2>2 DEF Finish, Goto
    <3>2. ScratchRemoved'
      BY <2>2, FinishScratch
    <3> QED BY <3>1, <3>2
  <2> QED BY <1>9, <2>1, <2>2 DEF Find, Fail
<1>10. ASSUME NEW r \in Requests, Read(r) PROVE Safe'
  <2> PICK answer \in {"error", "success"} : Finish(r, answer)
    BY <1>10 DEF Read
  <2>1. Progress' /\ AbandonedUnseen'
    BY <1>10, FinishDrops DEF Read
  <2>2. SuccessIsWhole'
    BY <1>10, FinishDrops DEF Read
  <2>3. ScratchRemoved'
    BY <1>10, FinishScratch DEF Read
  <2> QED BY <2>1, <2>2, <2>3
<1>11. CASE UNCHANGED vars
  BY <1>11 DEF vars
<1> QED
  BY <1>1, <1>2, <1>3, <1>4, <1>5, <1>6, <1>7, <1>8, <1>9, <1>10, <1>11
     DEF Next, Step

(* So the invariant holds in every reachable state.                        *)
LEMMA Invariant == Spec => []IInv
<1>1. IInv /\ [Next]_vars => IInv'
  BY TypeStep, SafeStep DEF IInv, Safe
<1> QED
  BY InitInv, <1>1, PTL DEF Spec

(* Every variable keeps the values the closure of route_compile gives it.  *)
THEOREM TypeCorrect == Spec => []TypeOK
<1>1. IInv => TypeOK
  BY DEF IInv
<1> QED
  BY Invariant, <1>1, PTL

(* A truncated wasm is only ever returned with an exit code other than 0.  *)
THEOREM SuccessCorrect == Spec => []SuccessIsWhole
<1>1. IInv => SuccessIsWhole
  BY DEF IInv
<1> QED
  BY Invariant, <1>1, PTL

(* A container that outlives its request was not waited for to the end.    *)
THEOREM AbandonedCorrect == Spec => []AbandonedUnseen
<1>1. IInv => AbandonedUnseen
  BY DEF IInv
<1> QED
  BY Invariant, <1>1, PTL

(* Only such a container leaves a scratch directory behind.                *)
THEOREM ScratchCorrect == Spec => []ScratchRemoved
<1>1. IInv => ScratchRemoved
  BY DEF IInv
<1> QED
  BY Invariant, <1>1, PTL
=============================================================================
