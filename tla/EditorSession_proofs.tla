------------------------- MODULE EditorSession_proofs -------------------------
(***************************************************************************)
(* Proofs, for any number of edits and whatever texts have wide            *)
(* characters, that the editor and the language server agree when nothing  *)
(* is on its way between them and the last frame was read whole.           *)
(***************************************************************************)
EXTENDS EditorSession, SequenceTheorems, TLAPS

-----------------------------------------------------------------------------
(* What a stream of messages still holds.                                  *)
NoOpen(s) == \A i \in 1 .. Len(s) : s[i].kind # "open"
OneOpen(s) ==
    \A i, j \in 1 .. Len(s) : s[i].kind = "open" /\ s[j].kind = "open" => i = j
EndsWith(s, v) == s[Len(s)].kind # "initialize" /\ s[Len(s)].text = v

(* The server refuses nothing once the client has started.                 *)
Serving == page = "started" => accepts

(* The file is not open, nor about to be, before the hooks have run, nor   *)
(* ever if they were run without the editor's hook.                        *)
NotOpened == page # "started" \/ late => NoOpen(into) /\ buffer = None /\ ~lost

(* Else it is open, or its didOpen is in the stream, or has been lost.     *)
Opened == page = "started" /\ ~late => ~NoOpen(into) \/ buffer # None \/ lost

(* It is sent once: a file whose didOpen was lost stays closed.            *)
OpenedOnce ==
    /\ OneOpen(into)
    /\ ~NoOpen(into) => buffer = None /\ ~lost
    /\ lost => buffer = None

(* The last message the server has got, or will get, has the editor's      *)
(* text, unless it is cut short.                                           *)
LastIsText ==
    page = "started" /\ ~late /\ ~debounce =>
        /\ into # <<>> => EndsWith(into, text)
        /\ into = <<>> => skewed \/ lost \/ buffer = text

IInv ==
    TypeOK /\ Serving /\ NotOpened /\ Opened /\ OpenedOnce /\ LastIsText

-----------------------------------------------------------------------------
(* An empty stream holds no didOpen.                                       *)
LEMMA NothingSent == NoOpen(<<>>) /\ OneOpen(<<>>)
<1>1. Len(<<>>) = 0
  OBVIOUS
<1> QED
  BY <1>1 DEF NoOpen, OneOpen

(* What sending a message does to the stream.                              *)
LEMMA Sending ==
    ASSUME NEW s \in Seq(Message), NEW m \in Message
    PROVE  /\ Append(s, m) \in Seq(Message)
           /\ Append(s, m) # <<>>
           /\ NoOpen(Append(s, m)) <=> NoOpen(s) /\ m.kind # "open"
           /\ OneOpen(s) /\ (NoOpen(s) \/ m.kind # "open") => OneOpen(Append(s, m))
           /\ m.kind # "initialize" => EndsWith(Append(s, m), m.text)
<1> DEFINE a == Append(s, m)
<1>1. /\ a \in Seq(Message)
      /\ Len(a) = Len(s) + 1
      /\ Len(s) \in Nat
      /\ \A i \in 1 .. Len(s) : a[i] = s[i]
      /\ a[Len(s) + 1] = m
  OBVIOUS
<1>2. a # <<>>
  BY <1>1
<1>3. NoOpen(a) <=> NoOpen(s) /\ m.kind # "open"
  BY <1>1 DEF NoOpen
<1>4. m.kind # "initialize" => EndsWith(a, m.text)
  BY <1>1 DEF EndsWith
<1>5. ASSUME OneOpen(s), NoOpen(s) \/ m.kind # "open"
      PROVE  OneOpen(a)
  BY <1>1, <1>5 DEF NoOpen, OneOpen
<1> QED
  BY <1>1, <1>2, <1>3, <1>4, <1>5

(* What taking a message leaves of the stream.                             *)
LEMMA Taking ==
    ASSUME NEW s \in Seq(Message), s # <<>>
    PROVE  /\ Head(s) \in Message
           /\ Tail(s) \in Seq(Message)
           /\ NoOpen(s) <=> NoOpen(Tail(s)) /\ Head(s).kind # "open"
           /\ OneOpen(s) => /\ OneOpen(Tail(s))
                            /\ Head(s).kind = "open" => NoOpen(Tail(s))
           /\ \A v \in Texts : EndsWith(s, v) =>
                 IF Tail(s) = <<>>
                 THEN Head(s).kind # "initialize" /\ Head(s).text = v
                 ELSE EndsWith(Tail(s), v)
<1> DEFINE r == Tail(s)
<1>1. /\ r \in Seq(Message)
      /\ Len(s) \in Nat \ {0}
      /\ Len(r) = Len(s) - 1
      /\ \A i \in 1 .. Len(r) : r[i] = s[i + 1]
      /\ Head(s) = s[1]
      /\ s[1] \in Message
  OBVIOUS
<1>2. NoOpen(s) <=> NoOpen(r) /\ Head(s).kind # "open"
  <2>1. NoOpen(s) => NoOpen(r) /\ Head(s).kind # "open"
    BY <1>1 DEF NoOpen
  <2>2. ASSUME NoOpen(r), Head(s).kind # "open"
        PROVE  NoOpen(s)
    <3> SUFFICES ASSUME NEW i \in 1 .. Len(s)
                 PROVE  s[i].kind # "open"
      BY DEF NoOpen
    <3>1. CASE i = 1
      BY <3>1, <2>2, <1>1
    <3>2. CASE i # 1
      <4>1. i - 1 \in 1 .. Len(r) /\ r[i - 1] = s[i]
        BY <3>2, <1>1
      <4> QED
        BY <4>1, <2>2 DEF NoOpen
    <3> QED
      BY <3>1, <3>2
  <2> QED
    BY <2>1, <2>2
<1>3. ASSUME NEW v \in Texts, EndsWith(s, v)
      PROVE  IF r = <<>>
             THEN Head(s).kind # "initialize" /\ Head(s).text = v
             ELSE EndsWith(r, v)
  <2>1. CASE r = <<>>
    <3>1. Len(r) = 0
      BY <2>1, <1>1, EmptySeq
    <3>2. Len(s) = 1
      BY <3>1, <1>1
    <3> QED
      BY <2>1, <3>2, <1>1, <1>3 DEF EndsWith
  <2>2. CASE r # <<>>
    <3>1. Len(r) \in 1 .. Len(r) /\ r[Len(r)] = s[Len(s)]
      BY <2>2, <1>1
    <3> QED
      BY <2>2, <3>1, <1>3 DEF EndsWith
  <2> QED
    BY <2>1, <2>2
<1>4. ASSUME OneOpen(s)
      PROVE  OneOpen(r) /\ (Head(s).kind = "open" => NoOpen(r))
  <2>1. \A i \in 1 .. Len(r) : i + 1 \in 1 .. Len(s) /\ i + 1 # 1
    BY <1>1
  <2>2. 1 \in 1 .. Len(s)
    BY <1>1
  <2>3. OneOpen(r)
    BY <1>1, <1>4, <2>1 DEF OneOpen
  <2>4. ASSUME s[1].kind = "open" PROVE NoOpen(r)
    BY <1>1, <1>4, <2>1, <2>2, <2>4 DEF OneOpen, NoOpen
  <2> QED
    BY <1>1, <2>3, <2>4
<1> QED
  BY <1>1, <1>2, <1>3, <1>4

-----------------------------------------------------------------------------
(* The invariant holds initially.                                          *)
LEMMA InitInv == Init => IInv
<1> SUFFICES ASSUME Init PROVE IInv
  OBVIOUS
<1> USE EditsAssumption DEF Init
<1>1. TypeOK
  <2>1. 0 \in Texts
    BY DEF Texts
  <2>2. <<>> \in Seq(Message) /\ <<>> \in Seq(Texts \cup {None})
    OBVIOUS
  <2> QED
    BY <2>1, <2>2 DEF TypeOK
<1>2. NoOpen(into) /\ OneOpen(into)
  BY NothingSent
<1> QED
  BY <1>1, <1>2 DEF IInv, Serving, NotOpened, Opened, OpenedOnce, LastIsText

(* A step of the page that sends message m, or none, and keeps the server  *)
(* as it is.                                                               *)
LEMMA WasmLoadedInv == IInv /\ WasmLoaded => IInv'
<1> SUFFICES ASSUME IInv, WasmLoaded PROVE IInv'
  OBVIOUS
<1> USE DEF IInv, WasmLoaded
<1> DEFINE m == [kind |-> "initialize", text |-> None]
<1>1. m \in Message
  BY DEF Message
<1>2. into' = Append(into, m) /\ into \in Seq(Message)
  BY DEF TypeOK
<1>3. /\ into' \in Seq(Message) /\ (NoOpen(into') <=> NoOpen(into))
      /\ OneOpen(into) => OneOpen(into')
  BY <1>1, <1>2, Sending
<1>4. TypeOK'
  BY <1>3 DEF TypeOK
<1>5. NotOpened' /\ OpenedOnce'
  BY <1>3 DEF NotOpened, OpenedOnce
<1> QED
  BY <1>4, <1>5 DEF Serving, Opened, LastIsText

(* The server has been initialized, and the document is opened unless      *)
(* there is no hook yet.                                                   *)
LEMMA InitializedInv == IInv /\ Initialized => IInv'
<1> SUFFICES ASSUME IInv, Initialized PROVE IInv'
  OBVIOUS
<1> USE DEF IInv, Initialized
<1>1. text \in Texts /\ Open \in Message /\ Open.kind = "open" /\ Open.text = text
  <2>1. text \in Texts
    BY DEF TypeOK
  <2> QED
    BY <2>1 DEF Message, Open
<1>2. into \in Seq(Message) /\ NoOpen(into) /\ buffer = None /\ ~lost
  BY DEF TypeOK, NotOpened
<1>3. CASE hook
  <2>1. into' = Append(into, Open) /\ late' = FALSE
    BY <1>3 DEF TypeOK
  <2>2. /\ into' \in Seq(Message) /\ into' # <<>>
        /\ ~NoOpen(into') /\ OneOpen(into') /\ EndsWith(into', text)
    BY <2>1, <1>1, <1>2, Sending DEF OpenedOnce
  <2>3. TypeOK'
    BY <2>1, <2>2 DEF TypeOK
  <2>4. LastIsText'
    BY <2>1, <2>2 DEF LastIsText, EndsWith
  <2> QED
    BY <1>2, <2>1, <2>2, <2>3, <2>4 DEF Serving, NotOpened, Opened, OpenedOnce
<1>4. CASE ~hook
  <2>1. into' = into /\ late' = TRUE
    BY <1>4 DEF TypeOK
  <2>2. TypeOK'
    BY <2>1 DEF TypeOK
  <2> QED
    BY <2>1, <2>2, <1>2
       DEF Serving, NotOpened, Opened, OpenedOnce, LastIsText
<1> QED
  BY <1>3, <1>4

(* A change goes behind all that was sent before.                          *)
LEMMA SendChangeInv == IInv /\ SendChange => IInv'
<1> SUFFICES ASSUME IInv, SendChange PROVE IInv'
  OBVIOUS
<1> USE DEF IInv, SendChange
<1> DEFINE m == [kind |-> "change", text |-> text]
<1>1. /\ text \in Texts /\ into \in Seq(Message)
      /\ into' = Append(into, m) /\ text' = text
  BY DEF TypeOK
<1>2. m \in Message /\ m.kind # "initialize" /\ m.kind # "open" /\ m.text = text
  BY <1>1 DEF Message
<1>3. /\ Append(into, m) \in Seq(Message)
      /\ Append(into, m) # <<>>
      /\ NoOpen(Append(into, m)) <=> NoOpen(into)
      /\ OneOpen(into) => OneOpen(Append(into, m))
      /\ EndsWith(Append(into, m), m.text)
  <2> HIDE DEF m
  <2> QED
    BY <1>1, <1>2, Sending
<1>4. /\ into' \in Seq(Message) /\ into' # <<>>
      /\ NoOpen(into') <=> NoOpen(into)
      /\ OneOpen(into) => OneOpen(into')
      /\ EndsWith(into', text)
  BY <1>1, <1>2, <1>3 DEF EndsWith, NoOpen, OneOpen
<1>5. TypeOK'
  <2>1. timers' \in Nat
    BY DEF TypeOK
  <2> QED
    BY <2>1, <1>4 DEF TypeOK
<1>6. LastIsText'
  BY <1>4 DEF LastIsText, EndsWith
<1> QED
  BY <1>4, <1>5, <1>6 DEF Serving, NotOpened, Opened, OpenedOnce

-----------------------------------------------------------------------------
(* The server takes initialize, and accepts requests from then on.         *)
LEMMA ServeInitializeInv == IInv /\ ServeInitialize => IInv'
<1> SUFFICES ASSUME IInv, ServeInitialize PROVE IInv'
  OBVIOUS
<1> USE DEF IInv, ServeInitialize, ReadFrame
<1>1. /\ into \in Seq(Message) /\ into # <<>> /\ into' = Tail(into)
      /\ text \in Texts
  BY DEF TypeOK
<1>2. /\ into' \in Seq(Message)
      /\ NoOpen(into') <=> NoOpen(into)
      /\ OneOpen(into) => OneOpen(into')
  BY <1>1, Taking
<1>3. EndsWith(into, text) => into' # <<>> /\ EndsWith(into', text)
  BY <1>1, Taking
<1>4. TypeOK'
  BY <1>2 DEF TypeOK
<1>5. LastIsText'
  BY <1>1, <1>3 DEF LastIsText, EndsWith
<1> QED
  BY <1>2, <1>4, <1>5 DEF Serving, NotOpened, Opened, OpenedOnce

(* An open file gets the text of the message, a file that is not open gets *)
(* none, and the file is open if didOpen was in the stream.                *)
LEMMA ServeDocumentInv == IInv /\ ServeDocument => IInv'
<1> SUFFICES ASSUME IInv, ServeDocument PROVE IInv'
  OBVIOUS
<1> USE DEF IInv, ServeDocument, ReadFrame
<1> DEFINE m == Head(into)
<1>1. /\ into \in Seq(Message) /\ into # <<>> /\ into' = Tail(into)
      /\ text \in Texts
  BY DEF TypeOK
<1>2. /\ into' \in Seq(Message) /\ m \in Message
      /\ NoOpen(into) <=> NoOpen(into') /\ m.kind # "open"
      /\ OneOpen(into') /\ (m.kind = "open" => NoOpen(into'))
  BY <1>1, Taking DEF OpenedOnce
<1>3. EndsWith(into, text) =>
         IF into' = <<>> THEN m.text = text ELSE EndsWith(into', text)
  BY <1>1, Taking
<1>4. m.text \in Texts /\ m.text # None
  BY <1>2, EditsAssumption DEF Message, Texts, None
<1>5. Stored(m) \in Texts \cup {None}
  BY <1>4 DEF Stored
<1>6. TypeOK'
  <2>1. from \in Seq(Texts \cup {None}) /\ buffer \in Texts \cup {None}
    BY DEF TypeOK
  <2>2. from' \in Seq(Texts \cup {None}) /\ buffer' \in Texts \cup {None}
    BY <2>1, <1>5
  <2> QED
    BY <2>2, <1>2 DEF TypeOK
<1>7. NotOpened'
  BY <1>2 DEF NotOpened, Stored
<1>8. page = "started" /\ ~late =>
         buffer' = IF m.kind = "open" \/ buffer # None THEN m.text ELSE None
  BY DEF Serving, Stored
<1>9. Opened'
  BY <1>2, <1>4, <1>8 DEF Opened
<1>10. OpenedOnce'
  BY <1>2 DEF OpenedOnce, Stored
<1>11. LastIsText'
  <2> SUFFICES ASSUME page = "started", ~late, ~debounce
               PROVE  /\ into' # <<>> => EndsWith(into', text)
                      /\ into' = <<>> => lost \/ buffer' = text
    BY DEF LastIsText, EndsWith
  <2>1. EndsWith(into, text)
    BY <1>1 DEF LastIsText
  <2>2. ASSUME into' = <<>>, ~lost PROVE buffer' = text
    <3>1. NoOpen(into')
      BY <2>2, NothingSent
    <3>2. m.kind = "open" \/ buffer # None
      BY <2>2, <3>1, <1>2 DEF Opened
    <3> QED
      BY <3>2, <2>1, <2>2, <1>3, <1>8
  <2> QED
    BY <2>1, <2>2, <1>3
<1> QED
  BY <1>6, <1>7, <1>9, <1>10, <1>11 DEF Serving

(* A lost frame changes nothing but the stream; that of didOpen was the    *)
(* only one.                                                               *)
LEMMA LoseFrameInv == IInv /\ LoseFrame => IInv'
<1> SUFFICES ASSUME IInv, LoseFrame PROVE IInv'
  OBVIOUS
<1> USE DEF IInv, LoseFrame
<1> DEFINE m == Head(into)
<1>1. /\ into \in Seq(Message) /\ into # <<>> /\ into' = Tail(into)
      /\ text \in Texts /\ lost \in BOOLEAN
  BY DEF TypeOK
<1>2. /\ into' \in Seq(Message) /\ m \in Message
      /\ NoOpen(into) <=> NoOpen(into') /\ m.kind # "open"
      /\ OneOpen(into') /\ (m.kind = "open" => NoOpen(into'))
  BY <1>1, Taking DEF OpenedOnce
<1>3. EndsWith(into, text) /\ into' # <<>> => EndsWith(into', text)
  BY <1>1, Taking
<1>4. lost' = (lost \/ m.kind = "open") /\ skewed' = TRUE /\ lost' \in BOOLEAN
  OBVIOUS
<1>5. TypeOK'
  BY <1>2, <1>4 DEF TypeOK
<1>6. NotOpened' /\ Opened' /\ OpenedOnce'
  BY <1>2, <1>4 DEF NotOpened, Opened, OpenedOnce
<1>7. LastIsText'
  BY <1>1, <1>3, <1>4 DEF LastIsText, EndsWith
<1> QED
  BY <1>5, <1>6, <1>7 DEF Serving

-----------------------------------------------------------------------------
(* Steps that touch neither the stream nor the server.                     *)
LEMMA OtherInv ==
    IInv /\ (Mount \/ Edit \/ SetMarkers \/ TakeDiagnostics) => IInv'
<1> SUFFICES ASSUME IInv, Mount \/ Edit \/ SetMarkers \/ TakeDiagnostics
             PROVE  IInv'
  OBVIOUS
<1> USE DEF IInv
<1>1. CASE Mount
  BY <1>1 DEF Mount, TypeOK, Serving, NotOpened, Opened, OpenedOnce, LastIsText,
              EndsWith
<1>2. CASE Edit
  <2>1. text' \in Texts
    BY <1>2, EditsAssumption DEF Edit, TypeOK, Texts, None
  <2> QED
    BY <1>2, <2>1 DEF Edit, TypeOK, Serving, NotOpened, Opened, OpenedOnce,
                      LastIsText
<1>3. CASE SetMarkers
  <2>1. TypeOK'
    BY <1>3 DEF SetMarkers, TypeOK, InFlight
  <2> QED
    BY <1>3, <2>1
       DEF SetMarkers, Serving, NotOpened, Opened, OpenedOnce, LastIsText, EndsWith
<1>4. CASE TakeDiagnostics
  <2>1. /\ from \in Seq(Texts \cup {None}) /\ from # <<>>
        /\ from' = Tail(from) /\ diagnostic' = Head(from)
    BY <1>4 DEF TakeDiagnostics, TypeOK, Latest
  <2>2. from' \in Seq(Texts \cup {None}) /\ diagnostic' \in Texts \cup {None}
    BY <2>1
  <2>3. TypeOK'
    BY <1>4, <2>2 DEF TakeDiagnostics, TypeOK
  <2> QED
    BY <1>4, <2>3
       DEF TakeDiagnostics, Serving, NotOpened, Opened, OpenedOnce, LastIsText, EndsWith
<1> QED
  BY <1>1, <1>2, <1>3, <1>4

(* Every step preserves the invariant.                                     *)
LEMMA StepInv == IInv /\ [Next]_vars => IInv'
<1> SUFFICES ASSUME IInv, [Next]_vars PROVE IInv'
  OBVIOUS
<1>1. CASE UNCHANGED vars
  BY <1>1 DEF vars, IInv, TypeOK, Serving, NotOpened, Opened, OpenedOnce,
              LastIsText, EndsWith
<1>2. CASE Next
  BY <1>2, WasmLoadedInv, InitializedInv, SendChangeInv, ServeInitializeInv,
     ServeDocumentInv, LoseFrameInv, OtherInv DEF Next, Serve
<1> QED
  BY <1>1, <1>2

(* So the invariant holds in every reachable state.                        *)
LEMMA Inductive == Spec => []IInv
<1> QED
  BY InitInv, StepInv, PTL DEF Spec

(* The streams carry what they are meant to, and the server keeps a text   *)
(* of the editor or none.                                                  *)
THEOREM TypeCorrect == Spec => []TypeOK
<1>1. IInv => TypeOK
  BY DEF IInv
<1> QED
  BY <1>1, Inductive, PTL

(* For any number of edits, at any moment of the start: when nothing is on *)
(* its way, nor the rest of a cut frame in the stream, the server has the  *)
(* editor's whole text, or, if the editor was mounted after the hooks were *)
(* run or the didOpen was lost, none.                                      *)
THEOREM InSyncCorrect == Spec => []InSyncWhenQuiet
<1>1. IInv => InSyncWhenQuiet
  BY DEF IInv, NotOpened, OpenedOnce, LastIsText, InSyncWhenQuiet, Quiet, InFlight
<1> QED
  BY <1>1, Inductive, PTL
=============================================================================
