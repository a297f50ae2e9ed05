--------------------------- MODULE Demuxer_proofs ---------------------------
(***************************************************************************)
(* What the demuxer keeps, for any messages of the server, any length of a *)
(* message and any way its sink cuts the stream into chunks: the position  *)
(* of every token in flight, and with it the frame boundary, the order of  *)
(* the inboxes and the answer each request gets.                           *)
(***************************************************************************)
EXTENDS Demuxer, FiniteSetTheorems, SequenceTheorems, TLAPS

(* The stream is numbered from 1: Ends(i) is the last token of message i.  *)
Ends(i) == i * (BodyLength + 2)

(* Token t is at position p of the stream of the messages `sent'; the      *)
(* tokens s are those behind position p.                                   *)
TokenAt(sent, t, p) ==
    \E i \in 1 .. Len(sent) : t.of = sent[i] /\ p = Ends(i - 1) + t.at
Covers(sent, s, p) == \A k \in 1 .. Len(s) : TokenAt(sent, s[k], p + k)

(* The pieces follow each other, piece k from behind position cut[k].      *)
Line(sent, pieces, cut) ==
    /\ cut \in [1 .. Len(pieces) + 1 -> Nat]
    /\ \A k \in 1 .. Len(pieces) :
          cut[k + 1] = cut[k] + Len(pieces[k]) /\ Covers(sent, pieces[k], cut[k])

(* What start() has taken off the stream, the header it is inside included.*)
Taken == Ends(Done) + IF contentLength = NoLength THEN 0 ELSE 2

Lined(cut) ==
    /\ Covers(emitted, buffer, Taken)
    /\ Line(emitted, chunks, cut) /\ cut[1] = Taken + Len(buffer)
    /\ Covers(emitted, sink, cut[Len(chunks) + 1])
    /\ cut[Len(chunks) + 1] + Len(sink) = Ends(Len(emitted))

-----------------------------------------------------------------------------
(* The parts of the invariant.                                             *)

(* What is in flight is the stream the server wrote, from where the loop   *)
(* is to its end.                                                          *)
Flow == ~failed => \E cut : Lined(cut)

(* A chunk without tokens of two messages has tokens of one.               *)
OneEach ==
    /\ \A k \in 1 .. Len(chunks) : chunks[k] # <<>>
    /\ ~batched => \A k \in 1 .. Len(chunks) : \A i, j \in 1 .. Len(chunks[k]) :
                        chunks[k][i].of = chunks[k][j].of

(* What the loop keeps is less than what it waits for.                     *)
Short ==
    ~failed => Len(buffer) < IF contentLength = NoLength THEN 2 ELSE BodyLength

Response(r) == [kind |-> "response", id |-> r]

(* A request is in one place: not made, written, handled, or answered.     *)
InOnePlace ==
    /\ \A r \in Requests : client[r] = "idle" =>
          /\ ~Emitted(Response(r)) /\ r \notin handling
          /\ \A i \in 1 .. Len(intoServer) : intoServer[i] # r
    /\ \A i \in 1 .. Len(intoServer) :
          /\ ~Emitted(Response(intoServer[i])) /\ intoServer[i] \notin handling
          /\ \A j \in 1 .. Len(intoServer) : intoServer[i] = intoServer[j] => i = j
    /\ \A r \in handling : ~Emitted(Response(r))
    /\ \A i, j \in 1 .. Len(emitted) : emitted[i] = emitted[j] => i = j

(* The entries of the map, the requests they belong to and the answers     *)
(* that were routed.                                                       *)
Entries ==
    /\ \A r \in Requests :
          /\ responses[r] = "absent" <=> client[r] = "idle"
          /\ responses[r] = "pending" <=> client[r] = "waiting"
          /\ responses[r] = "resolved" <=> client[r] = "answered"
          /\ responses[r] = "resolved" <=>
                \E i \in 1 .. Len(emitted) : i <= Done /\ emitted[i] = Response(r)
    /\ IsFiniteSet({r \in Requests : responses[r] = "resolved"})

(* The inboxes hold what there is of their kind in the messages routed.    *)
Routed ==
    /\ Done \in 0 .. Len(emitted)
    /\ contentLength # NoLength => Done < Len(emitted)
    /\ notifications = Ids(emitted, "notification")[Done]
    /\ requests = Ids(emitted, "request")[Done]

IInv ==
    /\ TypeOK /\ Flow /\ OneEach /\ Short /\ InOnePlace /\ Entries /\ Routed
    /\ FailsOnlyOnBatches

-----------------------------------------------------------------------------
(* Induction, from the least number that would contradict it.              *)
LessThan == {p \in Nat \X Nat : p[1] < p[2]}

(* A set of numbers has a least one.                                       *)
LEMMA Least ==
    ASSUME NEW S \in SUBSET Nat, S # {}
    PROVE  \E n \in S : \A m \in S : n <= m
<1>1. IsWellFoundedOn(LessThan, Nat)
  BY NatLessThanWellFounded DEF OpToRel, LessThan
<1>2. PICK n \in S : \A m \in S : ~(<<m, n>> \in LessThan)
  BY <1>1, WFMin, Zenon
<1>3. \A m \in S : m \in Nat /\ n \in Nat /\ ~(m < n)
  BY <1>2, Zenon DEF LessThan
<1> QED
  BY <1>3

(* What holds of a, and of i + 1 if it does of i, holds from a to b.       *)
LEMMA Induction ==
    ASSUME NEW a \in Nat, NEW b \in Nat, NEW S,
           a <= b => a \in S, \A i \in a .. b - 1 : i \in S => i + 1 \in S
    PROVE  a .. b \subseteq S
<1> SUFFICES ASSUME NEW x \in a .. b, x \notin S PROVE FALSE
  OBVIOUS
<1>0. PICK W : W = {i \in a .. b : i \notin S}
  BY Zenon
<1>1. PICK n \in W : \A m \in W : n <= m
  <2>1. W \in SUBSET Nat /\ x \in W
    BY <1>0
  <2> QED
    BY <2>1, Least
<1>2. n # a /\ n \in a .. b /\ n \notin S
  BY <1>0
<1>3. n - 1 \in a .. b - 1 /\ n - 1 \notin W
  BY <1>1, <1>2
<1>4. n - 1 \in S /\ (n - 1) + 1 = n
  BY <1>0, <1>2, <1>3
<1> QED
  BY <1>2, <1>3, <1>4

(* A function that is defined by what it is before exists.                 *)
IsUpto(f, k, V, base, step) ==
    /\ f \in [0 .. k -> V] /\ f[0] = base
    /\ \A i \in 1 .. k : f[i] = step[i][f[i - 1]]

(* Such a function exists, whatever each step makes of the value before.   *)
LEMMA Recursion ==
    ASSUME NEW n \in Nat, NEW V, NEW base \in V, NEW step \in [1 .. n -> [V -> V]]
    PROVE  \E f : IsUpto(f, n, V, base, step)
<1>0. PICK S : S = {k \in 0 .. n : \E f : IsUpto(f, k, V, base, step)}
  BY Zenon
<1>1. 0 \in S
  <2>1. PICK f : f = [i \in 0 .. 0 |-> base]
    BY Zenon
  <2>2. IsUpto(f, 0, V, base, step)
    BY <2>1 DEF IsUpto
  <2> QED
    BY <1>0, <2>2
<1>2. ASSUME NEW k \in 0 .. n - 1, k \in S PROVE k + 1 \in S
  <2>1. PICK f : IsUpto(f, k, V, base, step)
    BY <1>0, <1>2
  <2>2. f \in [0 .. k -> V] /\ f[0] = base /\ \A i \in 1 .. k : f[i] = step[i][f[i - 1]]
    BY <2>1 DEF IsUpto
  <2>3. PICK v \in V : v = step[k + 1][f[k]]
    BY <2>2
  <2>4. PICK g : g = [i \in 0 .. k + 1 |-> IF i <= k THEN f[i] ELSE v]
    BY Zenon
  <2>5. /\ g \in [0 .. k + 1 -> V] /\ g[0] = base /\ g[k + 1] = v
        /\ \A i \in 0 .. k : g[i] = f[i]
    BY <2>2, <2>4
  <2>6. ASSUME NEW i \in 1 .. k + 1 PROVE g[i] = step[i][g[i - 1]]
    <3>1. CASE i = k + 1
      BY <2>3, <2>5, <3>1
    <3>2. CASE i # k + 1
      <4>1. i \in 1 .. k /\ i - 1 \in 0 .. k /\ i \in 0 .. k
        BY <3>2
      <4> QED
        BY <2>2, <2>5, <4>1
    <3> QED
      BY <3>1, <3>2
  <2>7. IsUpto(g, k + 1, V, base, step)
    BY <2>5, <2>6 DEF IsUpto
  <2> QED
    BY <1>0, <2>7
<1>3. 0 .. n \subseteq S
  <2>1. 0 \in Nat /\ (0 <= n => 0 \in S)
    BY <1>1
  <2>2. \A k \in 0 .. n - 1 : k \in S => k + 1 \in S
    BY <1>2
  <2> QED
    BY <2>1, <2>2, Induction, Zenon
<1> QED
  BY <1>0, <1>3

-----------------------------------------------------------------------------
(* Positions.                                                              *)
LEMMA EndsFacts ==
    /\ Ends(0) = 0
    /\ \A i \in Nat : Ends(i) \in Nat /\ Ends(i + 1) = Ends(i) + BodyLength + 2
    /\ \A i, j \in Nat : i < j => Ends(i + 1) <= Ends(j)
    /\ BodyLength \in Nat /\ BodyLength > 0
<1>1. BodyLength \in Nat /\ BodyLength > 0
  BY BodyLengthAssumption
<1>2. ASSUME NEW i \in Nat, NEW k \in Nat
      PROVE  /\ i * k \in Nat /\ (i + 1) * k = i * k + k
  OBVIOUS
<1>3. ASSUME NEW i \in Nat
      PROVE  Ends(i) \in Nat /\ Ends(i + 1) = Ends(i) + BodyLength + 2
  BY <1>1, <1>2 DEF Ends
<1>4. ASSUME NEW i \in Nat, NEW j \in Nat, i < j PROVE Ends(i + 1) <= Ends(j)
  <2>1. PICK d \in Nat : j = (i + 1) + d
    BY <1>4
  <2>2. ASSUME NEW a \in Nat, NEW b \in Nat, NEW k \in Nat
        PROVE  (a + b) * k = a * k + b * k /\ b * k >= 0 /\ a * k \in Nat /\ b * k \in Nat
    OBVIOUS
  <2>3. PICK k \in Nat : k = BodyLength + 2
    BY <1>1
  <2>4. /\ j * k = (i + 1) * k + d * k /\ d * k >= 0
        /\ (i + 1) * k \in Nat /\ d * k \in Nat
    BY <2>1, <2>2
  <2> QED
    BY <2>3, <2>4 DEF Ends
<1>5. Ends(0) = 0
  BY <1>1 DEF Ends
<1> QED
  BY <1>1, <1>3, <1>4, <1>5

(* Only one token is at a position: that of the message it is within.      *)
LEMMA TokenWithin ==
    ASSUME NEW sent \in Seq(Message), NEW t \in Token, NEW p \in Nat, TokenAt(sent, t, p),
           NEW d \in Nat, Ends(d) < p, p <= Ends(d + 1)
    PROVE  /\ d + 1 \in 1 .. Len(sent)
           /\ t = [of |-> sent[d + 1], at |-> p - Ends(d)]
<1>1. PICK i \in 1 .. Len(sent) : t.of = sent[i] /\ p = Ends(i - 1) + t.at
  BY DEF TokenAt
<1>2. t.at \in 1 .. BodyLength + 2 /\ t = [of |-> t.of, at |-> t.at]
  BY DEF Token
<1>3. i - 1 \in Nat /\ Len(sent) \in Nat
  BY LenProperties
<1>4. Ends(i - 1) \in Nat /\ Ends(d) \in Nat
  BY <1>3, EndsFacts, Zenon
<1>5. ~(i - 1 < d)
  <2>1. SUFFICES ASSUME i - 1 < d PROVE FALSE
    OBVIOUS
  <2>2. Ends((i - 1) + 1) <= Ends(d) /\ Ends((i - 1) + 1) = Ends(i - 1) + BodyLength + 2
    BY <1>3, <2>1, EndsFacts, Zenon
  <2>3. PICK x \in Nat, y \in Nat, a \in Nat, n \in Nat :
           p = x + a /\ x + n + 2 <= y /\ y < p /\ a <= n + 2
    <3>1. BodyLength \in Nat /\ t.at \in Nat /\ t.at <= BodyLength + 2
      BY <1>2, BodyLengthAssumption
    <3> QED
      BY <1>1, <1>4, <2>2, <3>1, Zenon
  <2> QED
    BY <2>3
<1>6. ~(d < i - 1)
  <2>1. SUFFICES ASSUME d < i - 1 PROVE FALSE
    OBVIOUS
  <2>2. Ends(d + 1) <= Ends(i - 1) /\ Ends(d + 1) \in Nat
    BY <1>3, <2>1, EndsFacts
  <2>3. PICK x \in Nat, y \in Nat, a \in Nat : p = x + a /\ p <= y /\ y <= x /\ a > 0
    <3>1. t.at \in Nat /\ t.at > 0
      BY <1>2, BodyLengthAssumption
    <3> QED
      BY <1>1, <1>4, <2>2, <3>1, Zenon
  <2> QED
    BY <2>3
<1>7. i = d + 1
  BY <1>3, <1>5, <1>6
<1>8. i - 1 = d
  BY <1>7
<1>9. t.at = p - Ends(d)
  <2>1. PICK x \in Nat, a \in Nat : x = Ends(d) /\ a = t.at /\ p = x + a
    <3>1. t.at \in Nat
      BY <1>2, BodyLengthAssumption
    <3> QED
      BY <1>1, <1>4, <1>8, <3>1, Zenon
  <2>2. a = p - x
    BY <2>1
  <2> QED
    BY <2>1, <2>2, Zenon
<1> QED
  BY <1>1, <1>2, <1>7, <1>9, Zenon

(* Two tokens at one position are the same token.                          *)
LEMMA OneToken ==
    ASSUME NEW sent \in Seq(Message), NEW t \in Token, NEW u \in Token, NEW p \in Nat,
           TokenAt(sent, t, p), TokenAt(sent, u, p)
    PROVE  t = u
<1>1. PICK i \in 1 .. Len(sent) : t.of = sent[i] /\ p = Ends(i - 1) + t.at
  BY DEF TokenAt
<1>2. t.at \in 1 .. BodyLength + 2 /\ i - 1 \in Nat
  BY LenProperties DEF Token
<1>3. /\ Ends(i - 1) \in Nat /\ Ends((i - 1) + 1) = Ends(i - 1) + BodyLength + 2
      /\ BodyLength \in Nat
  BY <1>2, EndsFacts, Zenon
<1>4. Ends(i - 1) < p /\ p <= Ends((i - 1) + 1)
  <2>1. PICK x \in Nat, a \in Nat, n \in Nat :
           /\ x = Ends(i - 1) /\ p = x + a /\ Ends((i - 1) + 1) = x + n + 2
           /\ a > 0 /\ a <= n + 2
    <3>1. t.at \in Nat /\ t.at > 0 /\ t.at <= BodyLength + 2
      BY <1>2, BodyLengthAssumption
    <3> QED
      BY <1>1, <1>3, <3>1, Zenon
  <2>2. x < p /\ p <= x + n + 2
    BY <2>1
  <2> QED
    BY <2>1, <2>2, Zenon
<1> QED
  BY <1>2, <1>4, TokenWithin

(* Messages the server adds change no position.                            *)
LEMMA TokenStays ==
    ASSUME NEW sent \in Seq(Message), NEW m \in Message, NEW t, NEW p, TokenAt(sent, t, p)
    PROVE  TokenAt(Append(sent, m), t, p)
<1>1. PICK i \in 1 .. Len(sent) : t.of = sent[i] /\ p = Ends(i - 1) + t.at
  BY DEF TokenAt
<1>2. /\ Len(Append(sent, m)) = Len(sent) + 1 /\ Append(sent, m)[i] = sent[i]
      /\ Len(sent) \in Nat
  BY AppendProperties, LenProperties
<1> QED
  BY <1>1, <1>2 DEF TokenAt

(* Nor the positions of a run of tokens.                                   *)
LEMMA CoversStays ==
    ASSUME NEW sent \in Seq(Message), NEW m \in Message, NEW s, NEW p, Covers(sent, s, p)
    PROVE  Covers(Append(sent, m), s, p)
  BY TokenStays DEF Covers

(* What is where in a concatenation.                                       *)
LEMMA Concatenated ==
    ASSUME NEW S, NEW s \in Seq(S), NEW t \in Seq(S), NEW a \in Nat, NEW b \in Nat,
           a = Len(s), b = Len(t)
    PROVE  /\ s \o t \in Seq(S) /\ Len(s \o t) = a + b
           /\ \A i \in 1 .. a : (s \o t)[i] = s[i]
           /\ \A i \in 1 .. b : (s \o t)[a + i] = t[i]
<1>1. PICK r : r = s \o t
  BY Zenon
<1>2. /\ r \in Seq(S) /\ Len(r) = Len(s) + Len(t)
      /\ \A i \in 1 .. Len(s) + Len(t) : r[i] = IF i <= Len(s) THEN s[i] ELSE t[i - Len(s)]
  BY <1>1, ConcatProperties
<1>3. ASSUME NEW i \in 1 .. b PROVE r[a + i] = t[i]
  <2>1. a + i \in 1 .. a + b /\ ~(a + i <= a) /\ (a + i) - a = i
    OBVIOUS
  <2> QED
    BY <1>2, <2>1, Zenon
<1> QED
  BY <1>1, <1>2, <1>3

(* Tokens that follow others, put behind them.                             *)
LEMMA CoversConcat ==
    ASSUME NEW sent, NEW s \in Seq(Token), NEW t \in Seq(Token), NEW p \in Nat,
           Covers(sent, s, p), Covers(sent, t, p + Len(s))
    PROVE  Covers(sent, s \o t, p)
<1>1. Len(s) \in Nat /\ Len(t) \in Nat
  BY LenProperties
<1>2. Len(s \o t) = Len(s) + Len(t)
  BY ConcatProperties
<1>3. ASSUME NEW k \in 1 .. Len(s) + Len(t)
      PROVE  TokenAt(sent, (s \o t)[k], p + k)
  <2>1. CASE k <= Len(s)
    BY <1>1, <2>1, ConcatProperties DEF Covers
  <2>2. CASE k > Len(s)
    <3>1. /\ k - Len(s) \in 1 .. Len(t) /\ ~(k <= Len(s))
          /\ p + k = (p + Len(s)) + (k - Len(s))
      BY <1>1, <2>2
    <3>2. (s \o t)[k] = t[k - Len(s)]
      BY <3>1, ConcatProperties
    <3>3. TokenAt(sent, t[k - Len(s)], (p + Len(s)) + (k - Len(s)))
      BY <3>1 DEF Covers
    <3> QED
      BY <3>1, <3>2, <3>3
  <2> QED
    BY <1>1, <2>1, <2>2
<1> QED
  BY <1>2, <1>3 DEF Covers

(* The first n tokens, and those behind them.                              *)
LEMMA CoversParts ==
    ASSUME NEW sent, NEW s \in Seq(Token), NEW p \in Nat, NEW n \in 0 .. Len(s),
           Covers(sent, s, p)
    PROVE  /\ SubSeq(s, 1, n) \in Seq(Token) /\ Len(SubSeq(s, 1, n)) = n
           /\ Covers(sent, SubSeq(s, 1, n), p)
           /\ SubSeq(s, n + 1, Len(s)) \in Seq(Token)
           /\ Len(SubSeq(s, n + 1, Len(s))) = Len(s) - n
           /\ Covers(sent, SubSeq(s, n + 1, Len(s)), p + n)
<1>1. Len(s) \in Nat /\ \A i \in 1 .. Len(s) : s[i] \in Token
  BY LenProperties, ElementOfSeq
<1>2. /\ SubSeq(s, 1, n) \in Seq(Token) /\ Len(SubSeq(s, 1, n)) = n
      /\ \A i \in 1 .. n : SubSeq(s, 1, n)[i] = s[i]
  <2>1. \A i \in 1 .. n : s[i] \in Token
    BY <1>1
  <2> QED
    BY <1>1, <2>1, SubSeqProperties
<1>3. /\ SubSeq(s, n + 1, Len(s)) \in Seq(Token)
      /\ Len(SubSeq(s, n + 1, Len(s))) = Len(s) - n
      /\ \A i \in 1 .. Len(s) - n : SubSeq(s, n + 1, Len(s))[i] = s[n + i]
  <2>1. n + 1 \in Int /\ \A i \in n + 1 .. Len(s) : s[i] \in Token
    BY <1>1
  <2>2. PICK r : r = SubSeq(s, n + 1, Len(s))
    BY Zenon
  <2>3. /\ r \in Seq(Token)
        /\ Len(r) = IF n + 1 <= Len(s) THEN Len(s) - (n + 1) + 1 ELSE 0
        /\ \A i \in 1 .. Len(s) - (n + 1) + 1 : r[i] = s[(n + 1) + i - 1]
    BY <1>1, <2>1, <2>2, SubSeqProperties
  <2>4. Len(r) = Len(s) - n
    BY <1>1, <2>3
  <2>5. ASSUME NEW i \in 1 .. Len(s) - n PROVE r[i] = s[n + i]
    <3>1. i \in 1 .. Len(s) - (n + 1) + 1 /\ (n + 1) + i - 1 = n + i
      BY <1>1
    <3> QED
      BY <2>3, <3>1
  <2> QED
    BY <2>2, <2>3, <2>4, <2>5
<1>4. Covers(sent, SubSeq(s, 1, n), p)
  BY <1>1, <1>2 DEF Covers
<1>5. ASSUME NEW i \in 1 .. Len(s) - n
      PROVE  TokenAt(sent, s[n + i], (p + n) + i)
  <2>1. n + i \in 1 .. Len(s) /\ p + (n + i) = (p + n) + i
    BY <1>1
  <2>2. TokenAt(sent, s[n + i], p + (n + i))
    BY <2>1 DEF Covers
  <2> QED
    BY <2>1, <2>2
<1>6. Covers(sent, SubSeq(s, n + 1, Len(s)), p + n)
  BY <1>3, <1>5 DEF Covers
<1> QED
  BY <1>2, <1>3, <1>4, <1>6

(* The frame of the i-th message is where that message is.                 *)
LEMMA FrameFacts ==
    ASSUME NEW m \in Message
    PROVE  /\ Frame(m) \in Seq(Token) /\ Len(Frame(m)) = BodyLength + 2
           /\ \A k \in 1 .. BodyLength + 2 : Frame(m)[k] = [of |-> m, at |-> k]
           /\ Header(m) \in Seq(Token) /\ Len(Header(m)) = 2
           /\ \A k \in 1 .. 2 : Header(m)[k] = [of |-> m, at |-> k]
           /\ Body(m) \in Seq(Token) /\ Len(Body(m)) = BodyLength
           /\ \A k \in 1 .. BodyLength : Body(m)[k] = [of |-> m, at |-> k + 2]
<1>0. BodyLength \in Nat /\ BodyLength > 0
  BY EndsFacts
<1>1. \A k \in 1 .. BodyLength + 2 : [of |-> m, at |-> k] \in Token
  BY DEF Token
<1>2. /\ Frame(m) \in Seq(Token) /\ Len(Frame(m)) = BodyLength + 2
      /\ \A k \in 1 .. BodyLength + 2 : Frame(m)[k] = [of |-> m, at |-> k]
  <2>1. Frame(m) \in [1 .. BodyLength + 2 -> Token] /\ BodyLength + 2 \in Nat
    BY <1>0, <1>1 DEF Frame
  <2> QED
    BY <2>1 DEF Frame
<1>3. /\ Header(m) \in Seq(Token) /\ Len(Header(m)) = 2
      /\ \A k \in 1 .. 2 : Header(m)[k] = Frame(m)[k]
  <2>1. \A i \in 1 .. 2 : Frame(m)[i] \in Token
    BY <1>0, <1>1, <1>2
  <2> QED
    BY <2>1, SubSeqProperties DEF Header
<1>4. /\ Body(m) \in Seq(Token) /\ Len(Body(m)) = BodyLength
      /\ \A k \in 1 .. BodyLength : Body(m)[k] = Frame(m)[k + 2]
  <2>1. \A i \in 3 .. BodyLength + 2 : Frame(m)[i] \in Token
    BY <1>0, <1>1, <1>2
  <2>2. PICK f : f = Frame(m)
    OBVIOUS
  <2>3. PICK r : r = SubSeq(f, 3, BodyLength + 2)
    BY Zenon
  <2>4. /\ r \in Seq(Token)
        /\ Len(r) = IF 3 <= BodyLength + 2 THEN (BodyLength + 2) - 3 + 1 ELSE 0
        /\ \A k \in 1 .. (BodyLength + 2) - 3 + 1 : r[k] = f[3 + k - 1]
    BY <1>0, <2>1, <2>2, <2>3, SubSeqProperties
  <2>5. Len(r) = BodyLength
    BY <1>0, <2>4
  <2>6. ASSUME NEW k \in 1 .. BodyLength PROVE r[k] = f[k + 2]
    <3>1. k \in 1 .. (BodyLength + 2) - 3 + 1 /\ 3 + k - 1 = k + 2
      BY <1>0
    <3> QED
      BY <2>4, <3>1
  <2> QED
    BY <2>2, <2>3, <2>4, <2>5, <2>6, Zenon DEF Body
<1>5. \A k \in 1 .. 2 : Header(m)[k] = [of |-> m, at |-> k]
  BY <1>0, <1>2, <1>3
<1>6. ASSUME NEW k \in 1 .. BodyLength PROVE Body(m)[k] = [of |-> m, at |-> k + 2]
  <2>1. k + 2 \in 1 .. BodyLength + 2
    BY <1>0
  <2> QED
    BY <1>2, <1>4, <2>1
<1> QED
  BY <1>2, <1>3, <1>4, <1>5, <1>6

(* A message of the stream is framed where the stream has it.              *)
LEMMA CoversFrame ==
    ASSUME NEW sent \in Seq(Message), NEW i \in 1 .. Len(sent)
    PROVE  /\ Covers(sent, Frame(sent[i]), Ends(i - 1))
           /\ Covers(sent, Header(sent[i]), Ends(i - 1))
<1>1. PICK m \in Message : m = sent[i]
  BY ElementOfSeq
<1>2. i - 1 \in Nat /\ BodyLength \in Nat
  BY LenProperties, EndsFacts
<1>3. ASSUME NEW k \in 1 .. BodyLength + 2
      PROVE  TokenAt(sent, [of |-> m, at |-> k], Ends(i - 1) + k)
  BY <1>1 DEF TokenAt
<1>4. \A k \in 1 .. 2 : k \in 1 .. BodyLength + 2
  BY <1>2
<1>5. Covers(sent, Frame(sent[i]), Ends(i - 1))
  <2>1. /\ Len(Frame(m)) = BodyLength + 2
        /\ \A k \in 1 .. BodyLength + 2 : Frame(m)[k] = [of |-> m, at |-> k]
    BY FrameFacts, Zenon
  <2> QED
    BY <1>1, <1>3, <2>1, Zenon DEF Covers
<1>6. Covers(sent, Header(sent[i]), Ends(i - 1))
  <2>1. Len(Header(m)) = 2 /\ \A k \in 1 .. 2 : Header(m)[k] = [of |-> m, at |-> k]
    BY FrameFacts
  <2> QED
    BY <1>1, <1>3, <1>4, <2>1 DEF Covers
<1> QED
  BY <1>5, <1>6

-----------------------------------------------------------------------------
(* The recursive definitions: pieces put together, ids by kind.            *)
Joined(pieces) ==
    CHOOSE f : f = [i \in 1 .. Len(pieces) |->
                        IF i = 1 THEN pieces[i] ELSE f[i - 1] \o pieces[i]]

(* FlattenSeq is the last of the sequences joined one after the other.     *)
LEMMA JoinedFacts ==
    ASSUME NEW pieces \in Seq(Seq(Token)), Len(pieces) > 0
    PROVE  /\ FlattenSeq(pieces) = Joined(pieces)[Len(pieces)]
           /\ Joined(pieces)[1] = pieces[1]
           /\ \A i \in 2 .. Len(pieces) :
                 Joined(pieces)[i] = Joined(pieces)[i - 1] \o pieces[i]
<1>1. PICK n \in Nat \ {0} : n = Len(pieces)
  BY LenProperties
<1>2. \A i \in 1 .. n : pieces[i] \in Seq(Token)
  BY <1>1, ElementOfSeq
<1>3. PICK step : step = [i \in 1 .. n |-> [v \in Seq(Token) |-> v \o pieces[i]]]
  BY Zenon
<1>4. step \in [1 .. n -> [Seq(Token) -> Seq(Token)]]
  <2>1. \A i \in 1 .. n, v \in Seq(Token) : v \o pieces[i] \in Seq(Token)
    BY <1>2, ConcatProperties
  <2> QED
    BY <1>3, <2>1
<1>5. PICK f : IsUpto(f, n, Seq(Token), <<>>, step)
  BY <1>1, <1>4, EmptySeq, Recursion, Zenon
<1>6. /\ f[0] = <<>> /\ \A i \in 0 .. n : f[i] \in Seq(Token)
      /\ \A i \in 1 .. n : f[i] = f[i - 1] \o pieces[i]
  <2>1. /\ f \in [0 .. n -> Seq(Token)] /\ f[0] = <<>>
        /\ \A i \in 1 .. n : f[i] = step[i][f[i - 1]]
    BY <1>5 DEF IsUpto
  <2>2. ASSUME NEW i \in 1 .. n PROVE f[i] = f[i - 1] \o pieces[i]
    <3>1. i - 1 \in 0 .. n /\ f[i - 1] \in Seq(Token)
      BY <2>1
    <3>2. step[i] = [v \in Seq(Token) |-> v \o pieces[i]]
      BY <1>3
    <3>3. step[i][f[i - 1]] = f[i - 1] \o pieces[i]
      BY <3>1, <3>2, Zenon
    <3> QED
      BY <2>1, <3>3, Zenon
  <2> QED
    BY <2>1, <2>2, Zenon
<1>7. PICK g : g = [i \in 1 .. n |-> f[i]]
  BY Zenon
<1>8. ASSUME NEW i \in 1 .. n
      PROVE  g[i] = IF i = 1 THEN pieces[i] ELSE g[i - 1] \o pieces[i]
  <2>1. CASE i = 1
    <3>1. g[i] = f[i]
      BY <1>7
    <3>2. f[i] = f[i - 1] \o pieces[i]
      BY <1>6, Zenon
    <3>3. i - 1 = 0
      BY <2>1
    <3>4. f[i - 1] = <<>>
      BY <1>6, <3>3
    <3>5. g[i] = <<>> \o pieces[i]
      BY <3>1, <3>2, <3>4
    <3>6. pieces[i] \in Seq(Token)
      BY <1>2
    <3> QED
      BY <2>1, <3>5, <3>6, ConcatEmptySeq
  <2>2. CASE i # 1
    <3>1. i - 1 \in 1 .. n
      BY <2>2
    <3> QED
      BY <1>6, <1>7, <2>2, <3>1, Zenon
  <2> QED
    BY <2>1, <2>2
<1>9. g = [i \in 1 .. Len(pieces) |-> IF i = 1 THEN pieces[i] ELSE g[i - 1] \o pieces[i]]
  BY <1>1, <1>7, <1>8
<1>10. Joined(pieces) = [i \in 1 .. Len(pieces) |->
           IF i = 1 THEN pieces[i] ELSE Joined(pieces)[i - 1] \o pieces[i]]
  BY <1>9 DEF Joined
<1>11. FlattenSeq(pieces) = Joined(pieces)[Len(pieces)]
  BY <1>1 DEF FlattenSeq, Joined
<1>12. \A i \in 1 .. n :
           Joined(pieces)[i] = IF i = 1 THEN pieces[i] ELSE Joined(pieces)[i - 1] \o pieces[i]
  BY <1>1, <1>10, Zenon
<1>13. 1 \in 1 .. n /\ \A i \in 2 .. n : i \in 1 .. n /\ i # 1
  OBVIOUS
<1> QED
  BY <1>1, <1>11, <1>12, <1>13, Zenon

(* Pieces in a line, put together, are the stream between their ends.      *)
LEMMA Flattened ==
    ASSUME NEW sent, NEW pieces \in Seq(Seq(Token)), NEW cut, Line(sent, pieces, cut)
    PROVE  /\ FlattenSeq(pieces) \in Seq(Token)
           /\ Covers(sent, FlattenSeq(pieces), cut[1])
           /\ cut[1] + Len(FlattenSeq(pieces)) = cut[Len(pieces) + 1]
<1>1. PICK n \in Nat : n = Len(pieces)
  BY LenProperties
<1>2. /\ cut \in [1 .. n + 1 -> Nat] /\ cut[1] \in Nat
      /\ \A k \in 1 .. n : cut[k + 1] = cut[k] + Len(pieces[k]) /\ Covers(sent, pieces[k], cut[k])
  BY <1>1 DEF Line
<1>3. CASE n = 0
  <2>1. pieces = <<>>
    BY <1>1, <1>3, EmptySeq, Zenon
  <2>2. FlattenSeq(pieces) = <<>>
    BY <2>1, EmptySeq DEF FlattenSeq
  <2> QED
    BY <1>1, <1>2, <1>3, <2>2, EmptySeq DEF Covers
<1>4. CASE n > 0
  <2> DEFINE J == Joined(pieces)
  <2>1. /\ FlattenSeq(pieces) = J[n] /\ J[1] = pieces[1]
        /\ \A i \in 2 .. n : J[i] = J[i - 1] \o pieces[i]
    BY <1>1, <1>4, JoinedFacts, Zenon
  <2>2. \A i \in 1 .. n : pieces[i] \in Seq(Token)
    BY <1>1, ElementOfSeq
  <2> HIDE DEF J
  <2>3. PICK S : S = {i \in 1 .. n : /\ J[i] \in Seq(Token)
                                     /\ Covers(sent, J[i], cut[1])
                                     /\ cut[1] + Len(J[i]) = cut[i + 1]}
    BY Zenon
  <2>4. 1 \in S
    BY <1>2, <1>4, <2>1, <2>2, <2>3
  <2>5. ASSUME NEW i \in 1 .. n - 1, i \in S PROVE i + 1 \in S
    <3>1. /\ J[i] \in Seq(Token) /\ pieces[i + 1] \in Seq(Token)
          /\ Covers(sent, J[i], cut[1]) /\ cut[1] + Len(J[i]) = cut[i + 1]
      BY <2>2, <2>3, <2>5
    <3>2. J[i + 1] = J[i] \o pieces[i + 1]
      <4>1. i + 1 \in 2 .. n /\ (i + 1) - 1 = i
        BY <1>4
      <4> QED
        BY <2>1, <4>1, Zenon
    <3>3. i + 1 \in 1 .. n
      OBVIOUS
    <3>4. Covers(sent, pieces[i + 1], cut[1] + Len(J[i]))
      BY <1>2, <3>1, <3>3
    <3>5. Covers(sent, J[i + 1], cut[1])
      BY <1>2, <3>1, <3>2, <3>4, CoversConcat, Zenon
    <3>6. /\ J[i + 1] \in Seq(Token) /\ Len(J[i + 1]) = Len(J[i]) + Len(pieces[i + 1])
          /\ Len(J[i]) \in Nat /\ Len(pieces[i + 1]) \in Nat
      BY <3>1, <3>2, ConcatProperties, LenProperties
    <3>7. cut[(i + 1) + 1] = cut[i + 1] + Len(pieces[i + 1])
      BY <1>2, <3>3
    <3>8. cut[1] + Len(J[i + 1]) = cut[(i + 1) + 1]
      <4>1. cut[1] \in Nat
        BY <1>2
      <4>2. PICK a \in Nat, b \in Nat, c \in Nat :
               /\ a = Len(J[i]) /\ b = Len(pieces[i + 1]) /\ c = cut[1]
        BY <3>6, <4>1, Zenon
      <4>3. Len(J[i + 1]) = a + b /\ cut[i + 1] = c + a
        BY <3>1, <3>6, <4>2
      <4>4. cut[(i + 1) + 1] = (c + a) + b
        BY <3>7, <4>2, <4>3
      <4>5. (c + a) + b = c + (a + b)
        OBVIOUS
      <4>6. cut[1] + Len(J[i + 1]) = c + (a + b)
        BY <4>2, <4>3
      <4> QED
        BY <4>4, <4>5, <4>6
    <3> QED
      BY <2>3, <3>3, <3>5, <3>6, <3>8, Zenon
  <2>6. 1 .. n \subseteq S
    <3>1. 1 \in Nat /\ (1 <= n => 1 \in S)
      BY <2>4
    <3>2. \A i \in 1 .. n - 1 : i \in S => i + 1 \in S
      BY <2>5
    <3> QED
      BY <3>1, <3>2, Induction, Zenon
  <2>7. n \in S
    BY <1>4, <2>6
  <2> QED
    BY <1>1, <2>1, <2>3, <2>7
<1> QED
  BY <1>3, <1>4

(* Two lines between the same ends are the same tokens.                    *)
LEMMA SameTokens ==
    ASSUME NEW sent \in Seq(Message), NEW s \in Seq(Token), NEW t \in Seq(Token), NEW p \in Nat,
           Covers(sent, s, p), Covers(sent, t, p), Len(s) = Len(t)
    PROVE  s = t
<1>1. Len(s) \in Nat /\ \A k \in 1 .. Len(s) : s[k] \in Token /\ t[k] \in Token
  BY LenProperties, ElementOfSeq
<1>2. ASSUME NEW k \in 1 .. Len(s) PROVE s[k] = t[k]
  <2>1. TokenAt(sent, s[k], p + k) /\ TokenAt(sent, t[k], p + k) /\ p + k \in Nat
    BY DEF Covers
  <2> QED
    BY <1>1, <2>1, OneToken
<1> QED
  BY <1>2, SeqEqual

Id == Requests \cup Notes \cup Calls

(* The ids of a kind among the first i messages, from those before i.      *)
LEMMA IdsFacts ==
    ASSUME NEW sent \in Seq(Message), NEW kind
    PROVE  /\ Ids(sent, kind) \in [0 .. Len(sent) -> Seq(Id)]
           /\ Ids(sent, kind)[0] = <<>>
           /\ \A i \in 1 .. Len(sent) : Ids(sent, kind)[i] =
                 IF sent[i].kind = kind THEN Append(Ids(sent, kind)[i - 1], sent[i].id)
                                        ELSE Ids(sent, kind)[i - 1]
<1>1. PICK n \in Nat : n = Len(sent)
  BY LenProperties
<1>2. \A i \in 1 .. n : sent[i].id \in Id
  <2>1. \A m \in Message : m.id \in Id
    BY DEF Message, Id
  <2> QED
    BY <1>1, <2>1, ElementOfSeq
<1>3. PICK step : step = [i \in 1 .. n |-> [v \in Seq(Id) |->
                             IF sent[i].kind = kind THEN Append(v, sent[i].id) ELSE v]]
  BY Zenon
<1>4. step \in [1 .. n -> [Seq(Id) -> Seq(Id)]]
  <2>1. \A i \in 1 .. n, v \in Seq(Id) : Append(v, sent[i].id) \in Seq(Id)
    BY <1>2, AppendProperties
  <2> QED
    BY <1>3, <2>1
<1>5. PICK f : IsUpto(f, n, Seq(Id), <<>>, step)
  BY <1>1, <1>4, EmptySeq, Recursion, Zenon
<1>6. /\ f \in [0 .. n -> Seq(Id)] /\ f[0] = <<>>
      /\ \A i \in 1 .. n : f[i] = step[i][f[i - 1]]
  BY <1>5 DEF IsUpto
<1>7. ASSUME NEW i \in 1 .. n
      PROVE  f[i] = IF sent[i].kind = kind THEN Append(f[i - 1], sent[i].id) ELSE f[i - 1]
  <2>1. i - 1 \in 0 .. n /\ f[i - 1] \in Seq(Id)
    BY <1>6
  <2>2. step[i] = [v \in Seq(Id) |-> IF sent[i].kind = kind THEN Append(v, sent[i].id) ELSE v]
    BY <1>3
  <2>3. step[i][f[i - 1]] =
            IF sent[i].kind = kind THEN Append(f[i - 1], sent[i].id) ELSE f[i - 1]
    BY <2>1, <2>2
  <2> QED
    BY <1>6, <2>3
<1>8. f = [i \in 0 .. Len(sent) |->
              IF i = 0 THEN <<>>
              ELSE IF sent[i].kind = kind THEN Append(f[i - 1], sent[i].id) ELSE f[i - 1]]
  <2>1. \A i \in 0 .. n : i # 0 => i \in 1 .. n
    OBVIOUS
  <2>2. ASSUME NEW i \in 0 .. n
        PROVE  f[i] = IF i = 0 THEN <<>>
              ELSE IF sent[i].kind = kind THEN Append(f[i - 1], sent[i].id) ELSE f[i - 1]
    BY <1>6, <1>7, <2>1, Zenon
  <2> QED
    BY <1>1, <1>6, <2>2, Zenon
<1>9. Ids(sent, kind) = [i \in 0 .. Len(sent) |->
              IF i = 0 THEN <<>>
              ELSE IF sent[i].kind = kind THEN Append(Ids(sent, kind)[i - 1], sent[i].id)
              ELSE Ids(sent, kind)[i - 1]]
  BY <1>8 DEF Ids
<1> DEFINE F == Ids(sent, kind)
<1>10. \A i \in 0 .. n : F[i] = IF i = 0 THEN <<>>
              ELSE IF sent[i].kind = kind THEN Append(F[i - 1], sent[i].id) ELSE F[i - 1]
  BY <1>1, <1>9, Zenon
<1>11. DOMAIN F = 0 .. n /\ F = [i \in 0 .. n |-> F[i]]
  BY <1>1, <1>9
<1> HIDE DEF F
<1>12. /\ F[0] = <<>>
       /\ \A i \in 1 .. n : F[i] =
             IF sent[i].kind = kind THEN Append(F[i - 1], sent[i].id) ELSE F[i - 1]
  <2>1. 0 \in 0 .. n /\ \A i \in 1 .. n : i \in 0 .. n /\ i # 0
    OBVIOUS
  <2> QED
    BY <1>10, <2>1
<1>13. PICK S : S = {i \in 0 .. n : F[i] \in Seq(Id)}
  BY Zenon
<1>14. 0 .. n \subseteq S
  <2>1. 0 \in Nat /\ (0 <= n => 0 \in S)
    <3>1. F[0] = <<>>
      BY <1>12
    <3>2. F[0] \in Seq(Id)
      BY <3>1, EmptySeq, Zenon
    <3> QED
      BY <1>13, <3>2
  <2>2. ASSUME NEW i \in 0 .. n - 1, i \in S PROVE i + 1 \in S
    <3>1. i + 1 \in 1 .. n /\ i + 1 \in 0 .. n /\ (i + 1) - 1 = i
      OBVIOUS
    <3>2. F[i] \in Seq(Id) /\ sent[i + 1].id \in Id
      BY <1>2, <1>13, <2>2, <3>1
    <3>3. Append(F[i], sent[i + 1].id) \in Seq(Id)
      BY <3>2, AppendProperties
    <3>4. F[i + 1] = Append(F[i], sent[i + 1].id) \/ F[i + 1] = F[i]
      BY <1>12, <3>1, Zenon
    <3> QED
      BY <1>13, <3>1, <3>2, <3>3, <3>4, Zenon
  <2> QED
    BY <2>1, <2>2, Induction, Zenon
<1>15. F \in [0 .. n -> Seq(Id)]
  BY <1>11, <1>13, <1>14
<1> QED
  BY <1>1, <1>12, <1>15 DEF F

(* A message that is added changes none of the ids before it.              *)
LEMMA IdsGrow ==
    ASSUME NEW sent \in Seq(Message), NEW m \in Message, NEW kind, NEW n \in 0 .. Len(sent)
    PROVE  Ids(Append(sent, m), kind)[n] = Ids(sent, kind)[n]
<1>1. PICK l \in Nat : l = Len(sent)
  BY LenProperties
<1>2. PICK more : more = Append(sent, m)
  BY Zenon
<1>3. more \in Seq(Message) /\ Len(more) = l + 1 /\ \A i \in 1 .. l : more[i] = sent[i]
  BY <1>1, <1>2, AppendProperties
<1>4. PICK F, G : F = Ids(sent, kind) /\ G = Ids(more, kind)
  OBVIOUS
<1>5. /\ F[0] = <<>>
      /\ \A i \in 1 .. l : F[i] =
            IF sent[i].kind = kind THEN Append(F[i - 1], sent[i].id) ELSE F[i - 1]
  BY <1>1, <1>4, IdsFacts
<1>6. /\ G[0] = <<>>
      /\ \A i \in 1 .. l : G[i] =
            IF sent[i].kind = kind THEN Append(G[i - 1], sent[i].id) ELSE G[i - 1]
  <2>0. more \in Seq(Message) /\ G = Ids(more, kind)
    BY <1>3, <1>4
  <2>1. /\ G[0] = <<>>
        /\ \A i \in 1 .. Len(more) : G[i] =
              IF more[i].kind = kind THEN Append(G[i - 1], more[i].id) ELSE G[i - 1]
    BY <2>0, IdsFacts
  <2>2. \A i \in 1 .. l : i \in 1 .. Len(more)
    BY <1>3
  <2> QED
    BY <1>3, <2>1, <2>2
<1>7. PICK S : S = {i \in 0 .. l : F[i] = G[i]}
  BY Zenon
<1>8. 0 .. l \subseteq S
  <2>1. F[0] = G[0]
    BY <1>5, <1>6, Zenon
  <2>2. 0 \in Nat /\ (0 <= l => 0 \in S)
    BY <1>7, <2>1
  <2>3. ASSUME NEW i \in 0 .. l - 1, i \in S PROVE i + 1 \in S
    <3>1. i + 1 \in 1 .. l /\ i + 1 \in 0 .. l /\ (i + 1) - 1 = i
      OBVIOUS
    <3>2. F[i] = G[i]
      BY <1>7, <2>3
    <3>3. F[i + 1] = G[i + 1]
      BY <1>5, <1>6, <3>1, <3>2
    <3> QED
      BY <1>7, <3>1, <3>3
  <2> QED
    BY <2>2, <2>3, Induction, Zenon
<1>9. F[n] = G[n]
  BY <1>1, <1>7, <1>8
<1> QED
  BY <1>2, <1>4, <1>9

(* A prefix, from its elements.                                            *)
LEMMA PrefixOf ==
    ASSUME NEW s, NEW t, Len(s) <= Len(t), SubSeq(s, 1, Len(s)) = SubSeq(t, 1, Len(s))
    PROVE  IsPrefix(s, t)
  BY DEF IsPrefix

(* Elements that agree make a prefix.                                      *)
LEMMA PrefixByElement ==
    ASSUME NEW S, NEW s \in Seq(S), NEW t \in Seq(S), Len(s) <= Len(t),
           \A i \in 1 .. Len(s) : s[i] = t[i]
    PROVE  IsPrefix(s, t)
<1>1. SubSeq(s, 1, Len(s)) = SubSeq(t, 1, Len(s))
  <2>1. Len(s) \in Nat /\ Len(t) \in Nat
    BY LenProperties
  <2>2. \A i \in 1 .. Len(s) : s[i] \in S /\ t[i] \in S
    BY ElementOfSeq
  <2>3. SubSeq(s, 1, Len(s)) = s
    BY SubSeqFull
  <2>4. PICK r : r = SubSeq(t, 1, Len(s))
    OBVIOUS
  <2>5. /\ r \in Seq(S) /\ Len(r) = Len(s)
        /\ \A i \in 1 .. Len(s) : r[i] = t[i]
    BY <2>1, <2>2, <2>4, SubSeqProperties
  <2>6. r = s
    BY <2>5, SeqEqual
  <2> QED
    BY <2>3, <2>4, <2>6, Zenon
<1> QED
  BY <1>1, PrefixOf

(* What was routed first is a prefix of what will be.                      *)
LEMMA IdsPrefix ==
    ASSUME NEW sent \in Seq(Message), NEW kind, NEW d \in 0 .. Len(sent)
    PROVE  IsPrefix(Ids(sent, kind)[d], Ids(sent, kind)[Len(sent)])
<1>1. PICK l \in Nat : l = Len(sent)
  BY LenProperties
<1>2. PICK F : F = Ids(sent, kind)
  OBVIOUS
<1>3. /\ F \in [0 .. l -> Seq(Id)]
      /\ \A i \in 1 .. l : F[i] =
            IF sent[i].kind = kind THEN Append(F[i - 1], sent[i].id) ELSE F[i - 1]
  BY <1>1, <1>2, IdsFacts
<1>4. PICK s \in Seq(Id) : s = F[d]
  BY <1>1, <1>3, Zenon
<1>5. PICK S : S = {i \in d .. l : Len(s) <= Len(F[i]) /\ \A j \in 1 .. Len(s) : s[j] = F[i][j]}
  BY Zenon
<1>6. Len(s) \in Nat
  BY LenProperties
<1>7. d \in S
  BY <1>1, <1>4, <1>5, <1>6
<1>8. ASSUME NEW i \in d .. l - 1, i \in S PROVE i + 1 \in S
  <2>1. i + 1 \in 1 .. l /\ i \in 0 .. l /\ i + 1 \in d .. l /\ (i + 1) - 1 = i
    BY <1>1
  <2>2. PICK f \in Seq(Id) : f = F[i]
    BY <1>3, <2>1
  <2>3. Len(f) \in Nat /\ Len(s) <= Len(f) /\ \A j \in 1 .. Len(s) : s[j] = f[j]
    BY <1>5, <1>8, <2>2, LenProperties
  <2>4. sent[i + 1].id \in Id
    <3>1. sent[i + 1] \in Message
      BY <1>1, <2>1, ElementOfSeq
    <3> QED
      BY <3>1 DEF Message, Id
  <2>5. PICK e \in Id : e = sent[i + 1].id
    BY <2>4
  <2>6. F[i + 1] = Append(f, e) \/ F[i + 1] = f
    BY <1>3, <2>1, <2>2, <2>5, Zenon
  <2>7. CASE F[i + 1] = f
    BY <1>5, <2>1, <2>3, <2>7
  <2>8. CASE F[i + 1] = Append(f, e)
    <3>1. PICK g : g = Append(f, e)
      BY Zenon
    <3>2. Len(g) = Len(f) + 1 /\ \A j \in 1 .. Len(f) : g[j] = f[j]
      BY <3>1, AppendProperties
    <3>3. Len(s) <= Len(g) /\ \A j \in 1 .. Len(s) : s[j] = g[j]
      BY <1>6, <2>3, <3>2
    <3> QED
      BY <1>5, <2>1, <2>8, <3>1, <3>3, Zenon
  <2> QED
    BY <2>6, <2>7, <2>8
<1>9. d .. l \subseteq S
  <2>1. d \in Nat /\ (d <= l => d \in S)
    BY <1>1, <1>7
  <2> QED
    BY <1>8, <2>1, Induction, Zenon
<1>10. PICK t \in Seq(Id) : t = F[l]
  BY <1>3
<1>11. l \in S
  BY <1>1, <1>9
<1>12. Len(s) <= Len(t) /\ \A j \in 1 .. Len(s) : s[j] = t[j]
  BY <1>5, <1>10, <1>11
<1>13. IsPrefix(s, t)
  BY <1>12, PrefixByElement
<1> QED
  BY <1>1, <1>2, <1>4, <1>10, <1>13, Zenon

-----------------------------------------------------------------------------
(* The invariant implies what the runs check.                              *)
LEMMA InvRouted == IInv => RoutedInOrder
<1> SUFFICES ASSUME IInv PROVE RoutedInOrder
  OBVIOUS
<1>1. /\ emitted \in Seq(Message) /\ Done \in 0 .. Len(emitted)
      /\ notifications = Ids(emitted, "notification")[Done]
      /\ requests = Ids(emitted, "request")[Done]
  BY DEF IInv, TypeOK, Routed
<1> QED
  BY <1>1, IdsPrefix DEF RoutedInOrder, OfKind

(* Each entry of the map is as far as the request it belongs to.           *)
LEMMA InvAnswers == IInv => AnswersMatch
<1> SUFFICES ASSUME IInv, NEW r \in Requests
             PROVE  /\ client[r] # "null"
                    /\ client[r] = "waiting" <=> responses[r] = "pending"
                    /\ client[r] = "answered" => Emitted(Response(r))
  BY DEF AnswersMatch, Response
<1>1. /\ responses[r] \in {"absent", "pending", "resolved"}
      /\ responses[r] = "absent" <=> client[r] = "idle"
      /\ responses[r] = "pending" <=> client[r] = "waiting"
      /\ responses[r] = "resolved" <=> client[r] = "answered"
      /\ responses[r] = "resolved" => Emitted(Response(r))
  BY DEF IInv, TypeOK, Entries, Emitted
<1> QED
  BY <1>1

(* The pieces in flight are one line, and so are the frames not yet        *)
(* routed.                                                                 *)
LEMMA InvInStep == IInv => InStep
<1> SUFFICES ASSUME IInv, ~failed
             PROVE  FlattenSeq(<<IF contentLength = NoLength THEN <<>>
                                 ELSE Header(emitted[Done + 1]), buffer>> \o chunks \o <<sink>>) =
                    FlattenSeq([i \in 1 .. Len(emitted) - Done |-> Frame(emitted[Done + i])])
  BY DEF InStep
<1>1. PICK sent \in Seq(Message), d \in Nat, l \in Nat :
         /\ sent = emitted /\ d = Done /\ l = Len(emitted) /\ d <= l
         /\ contentLength # NoLength => d < l
  <2>1. /\ emitted \in Seq(Message) /\ Done \in 0 .. Len(emitted)
        /\ contentLength # NoLength => Done < Len(emitted)
    BY DEF IInv, TypeOK, Routed
  <2>2. Len(emitted) \in Nat /\ Done \in Nat /\ Done <= Len(emitted)
    BY <2>1, LenProperties
  <2> QED
    BY <2>1, <2>2
<1>2. /\ buffer \in Seq(Token) /\ chunks \in Seq(Seq(Token)) /\ sink \in Seq(Token)
  BY DEF IInv, TypeOK
<1>3. PICK cut : Lined(cut)
  BY DEF IInv, Flow
<1>4. PICK n \in Nat : n = Len(chunks)
  BY <1>2, LenProperties
<1>5. /\ cut \in [1 .. n + 1 -> Nat] /\ cut[1] = Taken + Len(buffer)
      /\ Covers(sent, buffer, Taken)
      /\ \A k \in 1 .. n : /\ cut[k + 1] = cut[k] + Len(chunks[k])
                           /\ Covers(sent, chunks[k], cut[k])
      /\ Covers(sent, sink, cut[n + 1]) /\ cut[n + 1] + Len(sink) = Ends(l)
  BY <1>1, <1>3, <1>4 DEF Lined, Line
<1>6. PICK behind : behind = IF contentLength = NoLength THEN <<>> ELSE Header(emitted[Done + 1])
  OBVIOUS
<1>7. behind \in Seq(Token) /\ Covers(sent, behind, Ends(d)) /\ Taken = Ends(d) + Len(behind)
  <2>1. CASE contentLength = NoLength
    BY <1>1, <1>6, <2>1, EmptySeq, EndsFacts DEF Covers, Taken
  <2>2. CASE contentLength # NoLength
    <3>1. d + 1 \in 1 .. l /\ (d + 1) - 1 = d
      BY <1>1, <2>2
    <3>2. sent[d + 1] \in Message /\ behind = Header(sent[d + 1])
      BY <1>1, <1>6, <2>2, <3>1, ElementOfSeq
    <3>3. Covers(sent, Header(sent[d + 1]), Ends(d))
      BY <1>1, <3>1, CoversFrame
    <3> QED
      BY <1>1, <2>2, <3>2, <3>3, FrameFacts, Zenon DEF Taken
  <2> QED
    BY <2>1, <2>2
<1>8. PICK pieces : pieces = <<behind, buffer>> \o chunks \o <<sink>>
  BY Zenon
<1>9. /\ pieces \in Seq(Seq(Token)) /\ Len(pieces) = n + 3
      /\ pieces[1] = behind /\ pieces[2] = buffer /\ pieces[n + 3] = sink
      /\ \A k \in 1 .. n : pieces[k + 2] = chunks[k]
  <2>1. PICK a, b : a = <<behind, buffer>> /\ b = <<sink>>
    BY Zenon
  <2>2. /\ a \in Seq(Seq(Token)) /\ Len(a) = 2 /\ a[1] = behind /\ a[2] = buffer
        /\ b \in Seq(Seq(Token)) /\ Len(b) = 1 /\ b[1] = sink
    BY <1>2, <1>7, <2>1
  <2>3. PICK c : c = a \o chunks
    BY Zenon
  <2> DEFINE S == Seq(Token)
  <2> HIDE DEF S
  <2>4. /\ c \in Seq(S) /\ Len(c) = 2 + n /\ 2 + n \in Nat
        /\ \A i \in 1 .. 2 : c[i] = a[i]
        /\ \A i \in 1 .. n : c[2 + i] = chunks[i]
    <3>1. PICK q \in Seq(S) : q = chunks /\ a \in Seq(S)
      BY <1>2, <2>2 DEF S
    <3>2. PICK two \in Nat : two = 2
      OBVIOUS
    <3>3. two = Len(a) /\ n = Len(q)
      BY <1>4, <2>2, <3>1, <3>2
    <3>4. a \o q \in Seq(S) /\ Len(a \o q) = two + n
      BY <3>1, <3>3, Concatenated
    <3>5. \A i \in 1 .. two : (a \o q)[i] = a[i]
      BY <3>1, <3>3, Concatenated
    <3>6. \A i \in 1 .. n : (a \o q)[two + i] = q[i]
      BY <3>1, <3>3, Concatenated
    <3>7. c = a \o q
      BY <2>3, <3>1, Zenon
    <3>8. 2 + n \in Nat
      OBVIOUS
    <3> QED
      BY <3>1, <3>2, <3>4, <3>5, <3>6, <3>7, <3>8, Zenon
  <2>5. /\ pieces \in Seq(Seq(Token)) /\ Len(pieces) = (2 + n) + 1
        /\ \A i \in 1 .. 2 + n : pieces[i] = c[i]
        /\ \A i \in 1 .. 1 : pieces[(2 + n) + i] = b[i]
    <3>1. b \in Seq(S) /\ c \in Seq(S)
      BY <2>2, <2>4 DEF S
    <3>2. PICK one \in Nat, k \in Nat : one = 1 /\ k = 2 + n
      OBVIOUS
    <3>3. k = Len(c) /\ one = Len(b)
      BY <2>2, <2>4, <3>2
    <3>4. c \o b \in Seq(S) /\ Len(c \o b) = k + one
      BY <3>1, <3>3, Concatenated
    <3>5. \A i \in 1 .. k : (c \o b)[i] = c[i]
      BY <3>1, <3>3, Concatenated
    <3>6. \A i \in 1 .. one : (c \o b)[k + i] = b[i]
      BY <3>1, <3>3, Concatenated
    <3>7. pieces = c \o b
      BY <1>8, <2>1, <2>3, Zenon
    <3> QED
      BY <3>2, <3>4, <3>5, <3>6, <3>7, Zenon DEF S
  <2>6. pieces[n + 3] = sink
    <3>1. pieces[(2 + n) + 1] = b[1] /\ (2 + n) + 1 = n + 3
      BY <2>5
    <3> QED
      BY <2>2, <3>1
  <2>7. pieces[1] = behind /\ pieces[2] = buffer
    BY <2>2, <2>4, <2>5
  <2>8. ASSUME NEW k \in 1 .. n PROVE pieces[k + 2] = chunks[k]
    <3>1. k + 2 \in 1 .. 2 + n /\ 2 + k = k + 2
      OBVIOUS
    <3>2. c[2 + k] = chunks[k] /\ pieces[k + 2] = c[k + 2]
      BY <2>4, <2>5, <3>1, Zenon
    <3> QED
      BY <3>1, <3>2
  <2>9. (2 + n) + 1 = n + 3
    OBVIOUS
  <2> QED
    BY <2>5, <2>6, <2>7, <2>8, <2>9
<1>10. PICK at : at = [k \in 1 .. n + 4 |-> IF k = 1 THEN Ends(d) ELSE IF k = 2 THEN Taken
                             ELSE IF k <= n + 3 THEN cut[k - 2] ELSE Ends(l)]
  BY Zenon
<1>11. Ends(d) \in Nat /\ Ends(l) \in Nat /\ Taken \in Nat /\ Len(behind) \in Nat
  <2>1. Len(behind) \in Nat
    BY <1>7, LenProperties
  <2>2. Ends(d) \in Nat /\ Ends(l) \in Nat
    BY EndsFacts, Zenon
  <2> QED
    BY <1>7, <2>1, <2>2
<1>12. /\ at \in [1 .. n + 4 -> Nat] /\ at[1] = Ends(d) /\ at[2] = Taken
       /\ at[n + 4] = Ends(l)
       /\ \A k \in 1 .. n + 1 : at[k + 2] = cut[k]
  <2>1. ASSUME NEW k \in 1 .. n + 4 PROVE at[k] \in Nat
    BY <1>5, <1>10, <1>11
  <2>2. ASSUME NEW k \in 1 .. n + 1 PROVE at[k + 2] = cut[k]
    <3>1. k + 2 \in 1 .. n + 4 /\ k + 2 # 1 /\ k + 2 # 2 /\ k + 2 <= n + 3 /\ (k + 2) - 2 = k
      OBVIOUS
    <3> QED
      BY <1>10, <3>1
  <2> QED
    BY <1>10, <2>1, <2>2
<1>13. ASSUME NEW k \in 1 .. n + 3
       PROVE  at[k + 1] = at[k] + Len(pieces[k]) /\ Covers(sent, pieces[k], at[k])
  <2>1. CASE k = 1
    BY <1>7, <1>9, <1>12, <2>1
  <2>2. CASE k = 2
    <3>1. at[1 + 2] = cut[1] /\ k + 1 = 1 + 2
      BY <1>12, <2>2
    <3> QED
      BY <1>5, <1>9, <1>12, <2>2, <3>1, Zenon
  <2>3. CASE k \in 3 .. n + 2
    <3>1. PICK j \in 1 .. n : j = k - 2
      BY <2>3
    <3>2. k = j + 2 /\ k + 1 = (j + 1) + 2 /\ j + 1 \in 1 .. n + 1 /\ j \in 1 .. n + 1
      BY <3>1
    <3>3. at[k] = cut[j] /\ at[k + 1] = cut[j + 1] /\ pieces[k] = chunks[j]
      BY <1>9, <1>12, <3>2, Zenon
    <3> QED
      BY <1>5, <3>3
  <2>4. CASE k = n + 3
    <3>1. n + 1 \in 1 .. n + 1 /\ k = (n + 1) + 2 /\ k + 1 = n + 4
      BY <2>4
    <3>2. at[k] = cut[n + 1] /\ at[k + 1] = Ends(l) /\ pieces[k] = sink
      BY <1>9, <1>12, <2>4, <3>1
    <3> QED
      BY <1>5, <3>2
  <2> QED
    BY <2>1, <2>2, <2>3, <2>4
<1>14. Line(sent, pieces, at)
  <2>1. (n + 3) + 1 = n + 4
    OBVIOUS
  <2> QED
    BY <1>9, <1>12, <1>13, <2>1, Zenon DEF Line
<1>15. PICK s \in Seq(Token) : /\ s = FlattenSeq(pieces) /\ Covers(sent, s, Ends(d))
                              /\ Ends(d) + Len(s) = Ends(l)
  <2>1. /\ FlattenSeq(pieces) \in Seq(Token)
        /\ Covers(sent, FlattenSeq(pieces), at[1])
        /\ at[1] + Len(FlattenSeq(pieces)) = at[Len(pieces) + 1]
    BY <1>9, <1>14, Flattened
  <2>2. at[Len(pieces) + 1] = Ends(l)
    <3>1. Len(pieces) + 1 = n + 4
      BY <1>9
    <3> QED
      BY <1>12, <3>1, Zenon
  <2> QED
    BY <1>12, <2>1, <2>2
<1>16. PICK frames : frames = [i \in 1 .. l - d |-> Frame(sent[d + i])]
  BY Zenon
<1>17. ASSUME NEW i \in 1 .. l - d
       PROVE  /\ frames[i] \in Seq(Token) /\ Len(frames[i]) = BodyLength + 2
              /\ Covers(sent, frames[i], Ends(d + i - 1))
  <2>1. d + i \in 1 .. l
    BY <1>1
  <2>2. sent[d + i] \in Message /\ frames[i] = Frame(sent[d + i])
    BY <1>1, <1>16, <2>1, ElementOfSeq
  <2>3. Covers(sent, Frame(sent[d + i]), Ends((d + i) - 1))
    BY <1>1, <2>1, CoversFrame
  <2>4. (d + i) - 1 = d + i - 1
    OBVIOUS
  <2>5. frames[i] \in Seq(Token) /\ Len(frames[i]) = BodyLength + 2
    BY <2>2, FrameFacts, Zenon
  <2> QED
    BY <2>2, <2>3, <2>4, <2>5
<1>18. frames \in Seq(Seq(Token)) /\ Len(frames) = l - d
  <2>0. l - d \in Nat
    BY <1>1
  <2>1. PICK k \in Nat : k = l - d
    BY <2>0
  <2>2. frames \in [1 .. k -> Seq(Token)]
    BY <1>16, <1>17, <2>1, Zenon
  <2>3. frames \in Seq(Seq(Token)) /\ DOMAIN frames = 1 .. k
    BY <2>2, SeqDef
  <2> QED
    BY <2>1, <2>2, <2>3, LenProperties
<1>19. PICK to : to = [k \in 1 .. (l - d) + 1 |-> Ends(d + k - 1)]
  BY Zenon
<1>20. Line(sent, frames, to)
  <2>1. ASSUME NEW k \in 1 .. (l - d) + 1 PROVE to[k] = Ends(d + k - 1) /\ to[k] \in Nat
    <3>1. d + k - 1 \in Nat
      BY <1>1
    <3> QED
      BY <1>19, <3>1, EndsFacts, Zenon
  <2>2. ASSUME NEW k \in 1 .. l - d
        PROVE  to[k + 1] = to[k] + Len(frames[k]) /\ Covers(sent, frames[k], to[k])
    <3>1. /\ k \in 1 .. (l - d) + 1 /\ k + 1 \in 1 .. (l - d) + 1
          /\ d + k - 1 \in Nat /\ d + (k + 1) - 1 = (d + k - 1) + 1
      BY <1>1
    <3>2. Ends((d + k - 1) + 1) = Ends(d + k - 1) + BodyLength + 2
          /\ Ends(d + k - 1) \in Nat /\ BodyLength \in Nat
      BY <3>1, EndsFacts, Zenon
    <3>3. to[k] = Ends(d + k - 1) /\ to[k + 1] = Ends(d + (k + 1) - 1)
      BY <2>1, <3>1
    <3> QED
      BY <1>17, <3>1, <3>2, <3>3
  <2>3. to \in [1 .. (l - d) + 1 -> Nat]
    BY <1>19, <2>1, Zenon
  <2> QED
    BY <1>18, <2>2, <2>3 DEF Line
<1>21. to[1] = Ends(d) /\ to[(l - d) + 1] = Ends(l)
  <2>1. /\ 1 \in 1 .. (l - d) + 1 /\ d + 1 - 1 = d
        /\ (l - d) + 1 \in 1 .. (l - d) + 1 /\ d + ((l - d) + 1) - 1 = l
    BY <1>1
  <2> QED
    BY <1>19, <2>1
<1>22. PICK t \in Seq(Token) : /\ t = FlattenSeq(frames) /\ Covers(sent, t, Ends(d))
                              /\ Ends(d) + Len(t) = Ends(l)
  BY <1>18, <1>20, <1>21, Flattened
<1>23. Len(s) = Len(t)
  BY <1>11, <1>15, <1>22, LenProperties
<1>24. s = t
  BY <1>11, <1>15, <1>22, <1>23, SameTokens
<1> QED
  BY <1>1, <1>6, <1>8, <1>15, <1>16, <1>22, <1>24, Zenon

-----------------------------------------------------------------------------
(* The invariant holds at the start.                                       *)
LEMMA InitInv == Init => IInv
<1> SUFFICES ASSUME Init PROVE IInv
  OBVIOUS
<1>1. TypeOK
  BY EmptySeq, Zenon DEF Init, TypeOK
<1>2. /\ Len(emitted) = 0 /\ Len(chunks) = 0 /\ Len(buffer) = 0 /\ Len(sink) = 0
      /\ Len(notifications) = 0 /\ Len(requests) = 0 /\ Len(intoServer) = 0
  BY DEF Init
<1>3. {r \in Requests : responses[r] = "resolved"} = {}
  BY DEF Init
<1>4. Done = 0 /\ IsFiniteSet({r \in Requests : responses[r] = "resolved"})
  <2>1. Cardinality({}) = 0 /\ IsFiniteSet({})
    BY FS_EmptySet
  <2>2. PICK R : R = {r \in Requests : responses[r] = "resolved"}
    BY Zenon
  <2>3. Done = Len(notifications) + Len(requests) + Cardinality(R)
    BY <2>2, Zenon DEF Done
  <2>4. R = {}
    BY <1>3, <2>2, Zenon
  <2>5. Cardinality(R) = 0 /\ IsFiniteSet(R)
    BY <2>1, <2>4, Zenon
  <2>6. IsFiniteSet({r \in Requests : responses[r] = "resolved"})
    BY <2>2, <2>5, Zenon
  <2> QED
    BY <1>2, <2>3, <2>5, <2>6
<1>5. Flow
  <2>1. Taken = 0
    BY <1>4, EndsFacts DEF Init, Taken
  <2>2. PICK cut : cut = [k \in 1 .. 1 |-> 0]
    BY Zenon
  <2>3. Ends(Len(emitted)) = 0
    BY <1>2, EndsFacts
  <2>4. Lined(cut)
    BY <1>2, <2>1, <2>2, <2>3 DEF Lined, Line, Covers
  <2> QED
    BY <2>4 DEF Flow
<1>6. OneEach /\ Short
  BY <1>2, EndsFacts DEF OneEach, Short, Init
<1>7. InOnePlace
  BY <1>2 DEF Init, InOnePlace, Emitted
<1>8. Entries
  BY <1>2, <1>4 DEF Init, Entries
<1>9. Routed
  <2>1. emitted \in Seq(Message) /\ notifications = <<>> /\ requests = <<>>
    BY <1>1 DEF Init, TypeOK
  <2>2. Ids(emitted, "notification")[0] = <<>> /\ Ids(emitted, "request")[0] = <<>>
    BY <2>1, IdsFacts
  <2>3. notifications = Ids(emitted, "notification")[Done]
    BY <1>4, <2>1, <2>2, Zenon
  <2>4. requests = Ids(emitted, "request")[Done]
    BY <1>4, <2>1, <2>2, Zenon
  <2>5. Done \in 0 .. Len(emitted) /\ contentLength = NoLength
    BY <1>2, <1>4 DEF Init
  <2> QED
    BY <2>3, <2>4, <2>5 DEF Routed
<1>10. FailsOnlyOnBatches
  BY DEF Init, FailsOnlyOnBatches
<1> QED
  BY <1>1, <1>5, <1>6, <1>7, <1>8, <1>9, <1>10 DEF IInv

-----------------------------------------------------------------------------
(* What a step leaves alone, the parts that speak only of it keep.         *)
LEMMA FlowStays ==
    ASSUME Flow,
           UNCHANGED <<emitted, buffer, chunks, sink, contentLength, notifications, requests,
                       responses, failed>>
    PROVE  Flow'
<1>1. Done' = Done /\ Taken' = Taken
  BY DEF Done, Taken
<1>2. ASSUME NEW cut, Lined(cut) PROVE Lined(cut)'
  BY <1>1, <1>2 DEF Lined, Line, Covers
<1> QED
  BY <1>2 DEF Flow

(* Likewise the inboxes.                                                   *)
LEMMA RoutedStays ==
    ASSUME Routed, UNCHANGED <<emitted, contentLength, notifications, requests, responses>>
    PROVE  Routed'
<1>1. Done' = Done
  BY DEF Done
<1> QED
  BY <1>1 DEF Routed

(* A stutter keeps all of it.                                              *)
LEMMA IInvStays == IInv /\ UNCHANGED vars => IInv'
<1> SUFFICES ASSUME IInv, UNCHANGED vars PROVE IInv'
  OBVIOUS
<1>1. Done' = Done
  BY DEF Done, vars
<1>2. Flow' /\ Routed'
  BY FlowStays, RoutedStays DEF IInv, vars
<1>3. TypeOK' /\ OneEach' /\ Short' /\ FailsOnlyOnBatches'
  BY DEF IInv, TypeOK, OneEach, Short, FailsOnlyOnBatches, vars
<1>4. InOnePlace' /\ Entries'
  BY <1>1 DEF IInv, InOnePlace, Entries, Emitted, vars
<1> QED
  BY <1>2, <1>3, <1>4 DEF IInv

(* So does what moves no request back to where it could be made again.     *)
LEMMA OnePlaceKept ==
    ASSUME IInv, UNCHANGED <<intoServer, handling, emitted>>,
           \A r \in Requests : client'[r] = "idle" => client[r] = "idle"
    PROVE  InOnePlace'
  BY DEF IInv, InOnePlace, Emitted, Response

(* A request: the id was nowhere, and is now in the queue to the server.   *)
LEMMA RequestStep ==
    ASSUME IInv, NEW r \in Requests, Request(r)
    PROVE  IInv'
<1>1. /\ client \in [Requests -> {"idle", "waiting", "answered", "null"}]
      /\ responses \in [Requests -> {"absent", "pending", "resolved"}]
      /\ client[r] = "idle" /\ responses[r] = "absent" /\ intoServer \in Seq(Requests)
  BY DEF IInv, TypeOK, Entries, Request
<1>2. /\ client' = [client EXCEPT ![r] = "waiting"]
      /\ responses' = [responses EXCEPT ![r] = "pending"]
      /\ intoServer' = Append(intoServer, r)
      /\ UNCHANGED <<serverVars, chunks, demuxVars>>
  BY <1>1 DEF Request, Get
<1>3. \A q \in Requests : responses'[q] = "resolved" <=> responses[q] = "resolved"
  BY <1>1, <1>2
<1>4. /\ {q \in Requests : responses'[q] = "resolved"} = {q \in Requests : responses[q] = "resolved"}
      /\ Done' = Done
  <2>1. {q \in Requests : responses'[q] = "resolved"} = {q \in Requests : responses[q] = "resolved"}
    BY <1>3
  <2> QED
    BY <1>2, <2>1, Zenon DEF Done, demuxVars
<1>5. TypeOK'
  BY <1>1, <1>2, AppendProperties DEF IInv, TypeOK, serverVars, demuxVars
<1>6. Flow' /\ Routed' /\ OneEach' /\ Short' /\ FailsOnlyOnBatches'
  <2>1. Taken' = Taken
    BY <1>2, <1>4 DEF Taken, demuxVars
  <2>2. ASSUME NEW cut, Lined(cut) PROVE Lined(cut)'
    BY <1>2, <2>1, <2>2 DEF Lined, Line, Covers, serverVars, demuxVars
  <2>3. Flow'
    BY <1>2, <2>2 DEF IInv, Flow, demuxVars
  <2>4. Routed'
    BY <1>2, <1>4 DEF IInv, Routed, serverVars, demuxVars
  <2> QED
    BY <1>2, <2>3, <2>4 DEF IInv, OneEach, Short, FailsOnlyOnBatches, serverVars, demuxVars
<1>7. InOnePlace'
  <2>1. PICK m \in Nat : m = Len(intoServer)
    BY <1>1, LenProperties
  <2>2. /\ Len(intoServer') = m + 1 /\ intoServer'[m + 1] = r
        /\ \A i \in 1 .. m : intoServer'[i] = intoServer[i]
    BY <1>1, <1>2, <2>1, AppendProperties
  <2>3. /\ ~Emitted(Response(r)) /\ r \notin handling
        /\ \A i \in 1 .. m : intoServer[i] # r
    BY <1>1, <2>1 DEF IInv, InOnePlace
  <2>4. handling' = handling /\ emitted' = emitted /\ \A e : Emitted(e)' <=> Emitted(e)
    BY <1>2 DEF serverVars, Emitted
  <2>5. ASSUME NEW q \in Requests, client'[q] = "idle"
        PROVE  /\ ~Emitted(Response(q))' /\ q \notin handling'
               /\ \A i \in 1 .. m + 1 : intoServer'[i] # q
    <3>1. q # r /\ client[q] = "idle"
      BY <1>1, <1>2, <2>5
    <3>2. ~Emitted(Response(q)) /\ q \notin handling /\ \A i \in 1 .. m : intoServer[i] # q
      BY <2>1, <3>1 DEF IInv, InOnePlace
    <3>3. Emitted(Response(q))' <=> Emitted(Response(q))
      BY <1>2 DEF serverVars, Emitted, Response
    <3> QED
      BY <2>2, <2>4, <3>1, <3>2, <3>3
  <2>6. ASSUME NEW i \in 1 .. m + 1
        PROVE  /\ ~Emitted(Response(intoServer'[i])) /\ intoServer'[i] \notin handling
               /\ \A j \in 1 .. m + 1 : intoServer'[i] = intoServer'[j] => i = j
    <3>1. CASE i = m + 1
      <4>1. \A j \in 1 .. m + 1 : j # m + 1 => j \in 1 .. m /\ intoServer'[j] # r
        BY <2>2, <2>3
      <4> QED
        BY <2>2, <2>3, <3>1, <4>1
    <3>2. CASE i \in 1 .. m
      <4>1. /\ ~Emitted(Response(intoServer[i])) /\ intoServer[i] \notin handling
            /\ \A j \in 1 .. m : intoServer[i] = intoServer[j] => i = j
        BY <2>1, <3>2 DEF IInv, InOnePlace
      <4>2. \A j \in 1 .. m + 1 : j = m + 1 \/ j \in 1 .. m
        OBVIOUS
      <4> QED
        BY <2>2, <2>3, <3>2, <4>1, <4>2
    <3> QED
      BY <3>1, <3>2
  <2>7. \A e : (\E i \in 1 .. Len(emitted') : emitted'[i] = e) <=> Emitted(e)
    BY <2>4 DEF Emitted
  <2> QED
    BY <1>2, <2>2, <2>4, <2>5, <2>6, <2>7 DEF IInv, InOnePlace, Emitted, Response
<1>8. Entries'
  <2>1. emitted' = emitted
    BY <1>2 DEF serverVars
  <2>2. ASSUME NEW q \in Requests
        PROVE  /\ responses'[q] = "absent" <=> client'[q] = "idle"
               /\ responses'[q] = "pending" <=> client'[q] = "waiting"
               /\ responses'[q] = "resolved" <=> client'[q] = "answered"
    BY <1>1, <1>2 DEF IInv, Entries
  <2>3. ASSUME NEW q \in Requests
        PROVE  responses'[q] = "resolved" <=>
                  \E i \in 1 .. Len(emitted') : i <= Done' /\ emitted'[i] = Response(q)
    <3>1. responses[q] = "resolved" <=>
                  \E i \in 1 .. Len(emitted) : i <= Done /\ emitted[i] = Response(q)
      BY DEF IInv, Entries
    <3> QED
      BY <1>3, <1>4, <2>1, <3>1, Zenon
  <2>4. IsFiniteSet({q \in Requests : responses'[q] = "resolved"})
    <3>1. IsFiniteSet({q \in Requests : responses[q] = "resolved"})
      BY DEF IInv, Entries
    <3> QED
      BY <1>4, <3>1, Zenon
  <2> QED
    BY <2>2, <2>3, <2>4 DEF Entries, Response
<1> QED
  BY <1>5, <1>6, <1>7, <1>8 DEF IInv

(* The server reads: the id moves from the queue to those it handles.      *)
LEMMA ServerReadsStep ==
    ASSUME IInv, ServerReads
    PROVE  IInv'
<1>1. /\ intoServer \in Seq(Requests) /\ intoServer # <<>> /\ handling \subseteq Requests
      /\ emitted \in Seq(Message)
  BY DEF IInv, TypeOK, ServerReads
<1>2. PICK n \in Nat, h \in Requests, rest \in Seq(Requests) :
         /\ Len(intoServer) = n + 1 /\ h = intoServer[1] /\ h = Head(intoServer)
         /\ rest = Tail(intoServer) /\ Len(rest) = n
         /\ \A i \in 1 .. n : rest[i] = intoServer[i + 1]
  <2>1. Len(intoServer) \in Nat /\ Len(intoServer) > 0
    BY <1>1, EmptySeq, LenProperties
  <2>2. /\ Head(intoServer) = intoServer[1] /\ Head(intoServer) \in Requests
        /\ Tail(intoServer) \in Seq(Requests) /\ Len(Tail(intoServer)) = Len(intoServer) - 1
        /\ \A i \in 1 .. Len(Tail(intoServer)) : Tail(intoServer)[i] = intoServer[i + 1]
    BY <1>1, <2>1, HeadTailProperties
  <2>3. PICK h \in Requests, rest \in Seq(Requests) :
           h = Head(intoServer) /\ rest = Tail(intoServer)
    BY <2>2, Zenon
  <2>4. Len(intoServer) - 1 \in Nat
    BY <2>1
  <2>5. PICK n \in Nat : n = Len(intoServer) - 1
    BY <2>4
  <2>6. Len(intoServer) = n + 1 /\ Len(rest) = n
    BY <2>1, <2>2, <2>3, <2>5
  <2>7. \A i \in 1 .. n : rest[i] = intoServer[i + 1]
    BY <2>2, <2>3, <2>6
  <2> QED
    BY <2>2, <2>3, <2>6, <2>7, Zenon
<1>3. /\ handling' = handling \cup {h} /\ intoServer' = rest
      /\ UNCHANGED <<client, emitted, sink, batched, chunks, demuxVars, responses>>
  BY <1>2 DEF ServerReads
<1>4. Done' = Done
  BY <1>3 DEF Done, demuxVars
<1>5. TypeOK'
  BY <1>1, <1>2, <1>3 DEF IInv, TypeOK, demuxVars
<1>6. Flow' /\ Routed' /\ OneEach' /\ Short' /\ FailsOnlyOnBatches'
  BY <1>3, FlowStays, RoutedStays
     DEF IInv, OneEach, Short, FailsOnlyOnBatches, demuxVars
<1>7. InOnePlace'
  <2>1. /\ \A r \in Requests : client[r] = "idle" =>
             ~Emitted(Response(r)) /\ r \notin handling /\ \A i \in 1 .. n + 1 : intoServer[i] # r
        /\ \A i \in 1 .. n + 1 :
             /\ ~Emitted(Response(intoServer[i])) /\ intoServer[i] \notin handling
             /\ \A j \in 1 .. n + 1 : intoServer[i] = intoServer[j] => i = j
        /\ \A r \in handling : ~Emitted(Response(r))
    BY <1>2 DEF IInv, InOnePlace
  <2>2. \A e : Emitted(e)' <=> Emitted(e)
    BY <1>3 DEF Emitted
  <2>3. 1 \in 1 .. n + 1 /\ \A i \in 1 .. n : i + 1 \in 1 .. n + 1 /\ i + 1 # 1
    OBVIOUS
  <2>4. ASSUME NEW r \in Requests, client[r] = "idle"
        PROVE  /\ ~Emitted(Response(r)) /\ r \notin handling'
               /\ \A i \in 1 .. n : rest[i] # r
    BY <1>2, <1>3, <2>1, <2>3, <2>4
  <2>5. ASSUME NEW i \in 1 .. n
        PROVE  /\ ~Emitted(Response(rest[i])) /\ rest[i] \notin handling'
               /\ \A j \in 1 .. n : rest[i] = rest[j] => i = j
    <3>1. rest[i] = intoServer[i + 1] /\ i + 1 \in 1 .. n + 1 /\ i + 1 # 1
      BY <1>2, <2>3
    <3>2. ~Emitted(Response(rest[i])) /\ rest[i] \notin handling
      BY <2>1, <3>1
    <3>3. rest[i] # h
      BY <1>2, <2>1, <2>3, <3>1
    <3>4. ASSUME NEW j \in 1 .. n, rest[i] = rest[j] PROVE i = j
      <4>1. rest[j] = intoServer[j + 1] /\ j + 1 \in 1 .. n + 1
        BY <1>2, <2>3
      <4>2. i + 1 = j + 1
        BY <2>1, <3>1, <3>4, <4>1, Zenon
      <4> QED
        BY <4>2
    <3> QED
      BY <1>3, <3>2, <3>3, <3>4
  <2>6. \A r \in handling' : ~Emitted(Response(r))
    BY <1>2, <1>3, <2>1, <2>3
  <2>7. \A e : (\E i \in 1 .. Len(emitted') : emitted'[i] = e) <=> Emitted(e)
    BY <1>3 DEF Emitted
  <2> QED
    BY <1>2, <1>3, <2>4, <2>5, <2>6, <2>7 DEF IInv, InOnePlace, Emitted, Response
<1>8. Entries'
  BY <1>3, <1>4 DEF IInv, Entries, Response
<1> QED
  BY <1>5, <1>6, <1>7, <1>8 DEF IInv

(* A message the server adds is behind all that is in flight.              *)
LEMMA EmitStep ==
    ASSUME IInv, NEW m \in Message, ~Emitted(m), Emit(m),
           UNCHANGED <<client, batched, chunks, demuxVars, responses>>
    PROVE  /\ emitted' \in Seq(Message) /\ sink' \in Seq(Token)
           /\ Flow' /\ OneEach' /\ Short' /\ Entries' /\ Routed' /\ FailsOnlyOnBatches'
           /\ \A e : Emitted(e)' <=> Emitted(e) \/ e = m
           /\ (\A i, j \in 1 .. Len(emitted) : emitted[i] = emitted[j] => i = j)'
<1>1. /\ emitted \in Seq(Message) /\ sink \in Seq(Token) /\ chunks \in Seq(Seq(Token))
      /\ buffer \in Seq(Token)
  BY DEF IInv, TypeOK
<1>2. PICK l \in Nat, more \in Seq(Message) :
         /\ l = Len(emitted) /\ more = emitted' /\ more = Append(emitted, m) /\ Len(more) = l + 1
         /\ more[l + 1] = m /\ \A i \in 1 .. l : more[i] = emitted[i]
  <2>1. emitted' = Append(emitted, m)
    BY DEF Emit
  <2>2. PICK l \in Nat : l = Len(emitted)
    BY <1>1, LenProperties
  <2>3. PICK more : more = Append(emitted, m)
    BY Zenon
  <2>4. /\ more \in Seq(Message) /\ Len(more) = l + 1 /\ more[l + 1] = m
        /\ \A i \in 1 .. l : more[i] = emitted[i]
    BY <1>1, <2>2, <2>3, AppendProperties
  <2> QED
    BY <2>1, <2>2, <2>3, <2>4, Zenon
<1>3. sink' = sink \o Frame(m) /\ UNCHANGED <<buffer, contentLength, failed, notifications, requests>>
  BY DEF Emit, demuxVars
<1>4. /\ Frame(m) \in Seq(Token) /\ Len(Frame(m)) = BodyLength + 2 /\ BodyLength \in Nat
      /\ Covers(more, Frame(m), Ends(l)) /\ Ends(l) \in Nat /\ Ends(l + 1) = Ends(l) + BodyLength + 2
  <2>1. l + 1 \in 1 .. Len(more) /\ (l + 1) - 1 = l
    BY <1>2
  <2>2. Covers(more, Frame(more[l + 1]), Ends((l + 1) - 1))
    BY <2>1, CoversFrame
  <2> QED
    BY <1>2, <2>1, <2>2, FrameFacts, EndsFacts, Zenon
<1>5. Done' = Done /\ Taken' = Taken /\ Done \in 0 .. l
  BY <1>2, <1>3 DEF Done, Taken, IInv, Routed
<1>6. ASSUME NEW s, NEW p, Covers(emitted, s, p) PROVE Covers(more, s, p)
  BY <1>1, <1>2, <1>6, CoversStays
<1>7. Flow'
  <2>1. SUFFICES ASSUME ~failed PROVE \E cut : Lined(cut)'
    BY <1>3 DEF Flow
  <2>2. PICK cut : Lined(cut)
    BY <2>1 DEF IInv, Flow
  <2>3. PICK n \in Nat : n = Len(chunks)
    BY <1>1, LenProperties
  <2>4. /\ cut \in [1 .. n + 1 -> Nat] /\ cut[1] = Taken + Len(buffer)
        /\ Covers(emitted, buffer, Taken)
        /\ \A k \in 1 .. n : /\ cut[k + 1] = cut[k] + Len(chunks[k])
                             /\ Covers(emitted, chunks[k], cut[k])
        /\ Covers(emitted, sink, cut[n + 1]) /\ cut[n + 1] + Len(sink) = Ends(l)
        /\ cut[n + 1] \in Nat
    <3>1. l = Len(emitted)
      BY <1>2
    <3>2. /\ cut \in [1 .. n + 1 -> Nat] /\ cut[1] = Taken + Len(buffer)
          /\ Covers(emitted, buffer, Taken)
          /\ \A k \in 1 .. n : /\ cut[k + 1] = cut[k] + Len(chunks[k])
                               /\ Covers(emitted, chunks[k], cut[k])
          /\ Covers(emitted, sink, cut[n + 1]) /\ cut[n + 1] + Len(sink) = Ends(l)
      BY <2>2, <2>3, <3>1 DEF Lined, Line
    <3>3. cut[n + 1] \in Nat
      BY <3>2
    <3> QED
      BY <3>2, <3>3
  <2>5. /\ Covers(more, buffer, Taken) /\ Covers(more, sink, cut[n + 1])
        /\ \A k \in 1 .. n : Covers(more, chunks[k], cut[k])
    BY <1>6, <2>4
  <2>6. Covers(more, sink', cut[n + 1])
    <3>1. Covers(more, Frame(m), cut[n + 1] + Len(sink))
      BY <1>4, <2>4
    <3> QED
      BY <1>1, <1>3, <1>4, <2>4, <2>5, <3>1, CoversConcat, Zenon
  <2>7. cut[n + 1] + Len(sink') = Ends(l + 1)
    <3>1. Len(sink') = Len(sink) + Len(Frame(m)) /\ Len(sink) \in Nat
      BY <1>1, <1>3, <1>4, ConcatProperties, LenProperties, Zenon
    <3>2. PICK c \in Nat, k \in Nat, x \in Nat : c = cut[n + 1] /\ k = Len(sink) /\ x = Ends(l) /\ c + k = x
      BY <2>4, <3>1
    <3>3. Len(sink') = k + (BodyLength + 2)
      BY <1>4, <3>1, <3>2
    <3>4. c + (k + (BodyLength + 2)) = (c + k) + BodyLength + 2
      BY <1>4
    <3> QED
      BY <1>4, <3>2, <3>3, <3>4, Zenon
  <2>8. Lined(cut)'
    BY <1>2, <1>3, <1>5, <2>3, <2>4, <2>5, <2>6, <2>7 DEF Lined, Line
  <2> QED
    BY <2>8
<1>8. OneEach' /\ Short' /\ FailsOnlyOnBatches'
  BY <1>3 DEF IInv, OneEach, Short, FailsOnlyOnBatches
<1>9. Entries'
  <2>1. ASSUME NEW r \in Requests
        PROVE  (\E i \in 1 .. l + 1 : i <= Done /\ more[i] = Response(r)) <=>
               (\E i \in 1 .. l : i <= Done /\ emitted[i] = Response(r))
    BY <1>2, <1>5
  <2>2. responses' = responses /\ client' = client
    OBVIOUS
  <2> QED
    BY <1>2, <1>5, <2>1, <2>2 DEF IInv, Entries, Response
<1>10. Routed'
  <2>1. \A kind : Ids(more, kind)[Done] = Ids(emitted, kind)[Done]
    BY <1>1, <1>2, <1>5, IdsGrow
  <2> QED
    BY <1>2, <1>3, <1>5, <2>1 DEF IInv, Routed
<1>11. ASSUME NEW e PROVE Emitted(e)' <=> Emitted(e) \/ e = m
  <2>1. l + 1 \in 1 .. l + 1 /\ \A i \in 1 .. l + 1 : i = l + 1 \/ i \in 1 .. l
    OBVIOUS
  <2>2. \A i \in 1 .. l : i \in 1 .. l + 1
    OBVIOUS
  <2> QED
    BY <1>2, <2>1, <2>2 DEF Emitted
<1>12. (\A i, j \in 1 .. Len(emitted) : emitted[i] = emitted[j] => i = j)'
  <2>1. \A i \in 1 .. l + 1 : i = l + 1 \/ (i \in 1 .. l /\ emitted[i] # m)
    BY <1>2 DEF Emitted
  <2>2. \A i, j \in 1 .. l : emitted[i] = emitted[j] => i = j
    BY <1>2 DEF IInv, InOnePlace
  <2> QED
    BY <1>2, <2>1, <2>2
<1> QED
  BY <1>1, <1>2, <1>3, <1>4, <1>7, <1>8, <1>9, <1>10, <1>11, <1>12, ConcatProperties

(* An answer is to a request that is handled, and has no other.            *)
LEMMA ServerAnswersStep ==
    ASSUME IInv, NEW r \in Requests, ServerAnswers(r)
    PROVE  IInv'
<1>1. Response(r) \in Message /\ \A q : Response(q) = Response(r) => q = r
  BY DEF Response, Message
<1>2. /\ r \in handling /\ handling' = handling \ {r} /\ Emit(Response(r))
      /\ UNCHANGED <<client, intoServer, batched, chunks, demuxVars, responses>>
  BY DEF ServerAnswers, Response
<1>3. ~Emitted(Response(r))
  BY <1>2 DEF IInv, InOnePlace
<1>4. /\ emitted' \in Seq(Message) /\ sink' \in Seq(Token)
      /\ Flow' /\ OneEach' /\ Short' /\ Entries' /\ Routed' /\ FailsOnlyOnBatches'
      /\ \A e : Emitted(e)' <=> Emitted(e) \/ e = Response(r)
      /\ (\A i, j \in 1 .. Len(emitted) : emitted[i] = emitted[j] => i = j)'
  BY <1>1, <1>2, <1>3, EmitStep
<1>5. TypeOK'
  BY <1>2, <1>4 DEF IInv, TypeOK, demuxVars
<1>6. InOnePlace'
  <2>1. ASSUME NEW q \in Requests, q # r
        PROVE  Emitted(Response(q))' <=> Emitted(Response(q))
    <3>1. \A e : (\E i \in 1 .. Len(emitted') : emitted'[i] = e) <=> Emitted(e) \/ e = Response(r)
      BY <1>4, Zenon DEF Emitted
    <3> QED
      BY <1>1, <2>1, <3>1 DEF Emitted, Response
  <2>2. ASSUME NEW q \in Requests, client'[q] = "idle"
        PROVE  /\ q # r /\ ~Emitted(Response(q)) /\ q \notin handling'
               /\ \A i \in 1 .. Len(intoServer') : intoServer'[i] # q
    BY <1>2, <2>2 DEF IInv, InOnePlace
  <2>3. ASSUME NEW i \in 1 .. Len(intoServer')
        PROVE  /\ intoServer'[i] \in Requests /\ intoServer'[i] # r
               /\ ~Emitted(Response(intoServer'[i])) /\ intoServer'[i] \notin handling'
               /\ \A j \in 1 .. Len(intoServer') : intoServer'[i] = intoServer'[j] => i = j
    <3>1. intoServer \in Seq(Requests)
      BY DEF IInv, TypeOK
    <3>2. intoServer[i] \in Requests
      BY <1>2, <3>1, ElementOfSeq
    <3> QED
      BY <1>2, <3>2 DEF IInv, InOnePlace
  <2>4. ASSUME NEW q \in handling'
        PROVE  q \in Requests /\ q # r /\ ~Emitted(Response(q))
    BY <1>2 DEF IInv, InOnePlace, TypeOK
  <2>5. \A e : (\E i \in 1 .. Len(emitted') : emitted'[i] = e) <=> Emitted(e) \/ e = Response(r)
    BY <1>4, Zenon DEF Emitted
  <2>6. (\A i, j \in 1 .. Len(emitted) : emitted[i] = emitted[j] => i = j)'
    BY <1>4
  <2>7. \A q : q # r => Response(q) # Response(r)
    BY <1>1
  <2>8. \A q \in Requests : client'[q] = "idle" =>
           /\ ~(\E i \in 1 .. Len(emitted') : emitted'[i] = Response(q))
           /\ q \notin handling' /\ \A i \in 1 .. Len(intoServer') : intoServer'[i] # q
    BY <2>2, <2>5, <2>7
  <2>9. \A i \in 1 .. Len(intoServer') :
           /\ ~(\E j \in 1 .. Len(emitted') : emitted'[j] = Response(intoServer'[i]))
           /\ intoServer'[i] \notin handling'
           /\ \A j \in 1 .. Len(intoServer') : intoServer'[i] = intoServer'[j] => i = j
    BY <2>3, <2>5, <2>7
  <2>10. \A q \in handling' : ~(\E i \in 1 .. Len(emitted') : emitted'[i] = Response(q))
    BY <2>4, <2>5, <2>7
  <2> QED
    BY <2>6, <2>8, <2>9, <2>10 DEF InOnePlace, Emitted, Response
<1> QED
  BY <1>4, <1>5, <1>6 DEF IInv

(* What the server sends of its own is new, and answers no request.        *)
LEMMA ServerSendsStep ==
    ASSUME IInv, NEW m \in Message, ServerSends(m)
    PROVE  IInv'
<1>1. \A q : Response(q) # m
  BY DEF Response, ServerSends
<1>2. /\ ~Emitted(m) /\ Emit(m)
      /\ UNCHANGED <<client, intoServer, handling, batched, chunks, demuxVars, responses>>
  BY DEF ServerSends
<1>3. /\ emitted' \in Seq(Message) /\ sink' \in Seq(Token)
      /\ Flow' /\ OneEach' /\ Short' /\ Entries' /\ Routed' /\ FailsOnlyOnBatches'
      /\ \A e : Emitted(e)' <=> Emitted(e) \/ e = m
      /\ (\A i, j \in 1 .. Len(emitted) : emitted[i] = emitted[j] => i = j)'
  BY <1>2, EmitStep
<1>4. TypeOK'
  BY <1>2, <1>3 DEF IInv, TypeOK, demuxVars
<1>5. InOnePlace'
  <2>1. \A q : (\E i \in 1 .. Len(emitted') : emitted'[i] = Response(q)) <=> Emitted(Response(q))
    BY <1>1, <1>3, Zenon DEF Emitted
  <2>2. (\A i, j \in 1 .. Len(emitted) : emitted[i] = emitted[j] => i = j)'
    BY <1>3
  <2> QED
    BY <1>2, <2>1, <2>2 DEF IInv, InOnePlace, Emitted, Response
<1> QED
  BY <1>3, <1>4, <1>5 DEF IInv

(* A set of at most one element has no two.                                *)
LEMMA AtMostOne ==
    ASSUME NEW S, IsFiniteSet(S), Cardinality(S) <= 1, NEW x \in S, NEW y \in S
    PROVE  x = y
<1>1. SUFFICES ASSUME x # y PROVE FALSE
  OBVIOUS
<1>2. {x, y} \subseteq S
  OBVIOUS
<1>3. IsFiniteSet({x, y}) /\ Cardinality({x, y}) <= Cardinality(S)
  BY <1>2, FS_Subset
<1>4. Cardinality({x}) = 1 /\ IsFiniteSet({x})
  BY FS_Singleton, Zenon
<1>5. Cardinality({x} \cup {y}) = Cardinality({x}) + 1
  BY <1>1, <1>4, FS_AddElement, Zenon
<1>6. {x} \cup {y} = {x, y}
  OBVIOUS
<1>7. Cardinality(S) \in Nat
  BY FS_CardinalityType
<1> QED
  BY <1>3, <1>4, <1>5, <1>6, <1>7

(* The messages a chunk has tokens of are finitely many.                   *)
LEMMA TouchedFinite ==
    ASSUME NEW s \in Seq(Token)
    PROVE  IsFiniteSet(Touched(s))
<1>1. Len(s) \in Nat
  BY LenProperties
<1>2. IsFiniteSet(1 .. Len(s))
  BY <1>1, FS_Interval
<1>3. PICK f : f = [i \in 1 .. Len(s) |-> s[i].of]
  BY Zenon
<1>4. f \in Surjection(1 .. Len(s), Touched(s))
  BY <1>3 DEF Surjection, Touched
<1> QED
  BY <1>2, <1>4, FS_Surjection

(* The sink cuts off the first tokens it holds.                            *)
LEMMA SinkWritesStep ==
    ASSUME IInv, SinkWrites
    PROVE  IInv'
<1>1. /\ sink \in Seq(Token) /\ chunks \in Seq(Seq(Token)) /\ batched \in BOOLEAN
      /\ emitted \in Seq(Message) /\ buffer \in Seq(Token)
  BY DEF IInv, TypeOK
<1>2. PICK n \in 1 .. Len(sink) :
         /\ chunks' = Append(chunks, SubSeq(sink, 1, n))
         /\ sink' = SubSeq(sink, n + 1, Len(sink))
         /\ batched' = (batched \/ Cardinality(Touched(SubSeq(sink, 1, n))) > 1)
  BY Zenon DEF SinkWrites
<1>3. UNCHANGED <<client, intoServer, handling, emitted, demuxVars, responses>>
  BY DEF SinkWrites
<1>4. PICK h \in Seq(Token), t \in Seq(Token) :
         /\ h = SubSeq(sink, 1, n) /\ t = SubSeq(sink, n + 1, Len(sink))
         /\ Len(h) = n /\ Len(t) = Len(sink) - n
         /\ \A p \in Nat : Covers(emitted, sink, p) =>
               Covers(emitted, h, p) /\ Covers(emitted, t, p + n)
  <2>1. n \in 0 .. Len(sink)
    OBVIOUS
  <2>2. /\ SubSeq(sink, 1, n) \in Seq(Token) /\ Len(SubSeq(sink, 1, n)) = n
        /\ SubSeq(sink, n + 1, Len(sink)) \in Seq(Token)
        /\ Len(SubSeq(sink, n + 1, Len(sink))) = Len(sink) - n
    <3>1. PICK nobody : nobody = <<>>
      OBVIOUS
    <3>2. Len(sink) \in Nat /\ \A i \in 1 .. Len(sink) : sink[i] \in Token
      BY <1>1, LenProperties, ElementOfSeq
    <3>3. PICK r : r = SubSeq(sink, n + 1, Len(sink))
      BY Zenon
    <3>4. /\ r \in Seq(Token)
          /\ Len(r) = IF n + 1 <= Len(sink) THEN Len(sink) - (n + 1) + 1 ELSE 0
      BY <3>2, <3>3, SubSeqProperties
    <3>5. Len(r) = Len(sink) - n
      BY <3>2, <3>4
    <3>6. SubSeq(sink, 1, n) \in Seq(Token) /\ Len(SubSeq(sink, 1, n)) = n
      BY <3>2, SubSeqProperties
    <3> QED
      BY <3>3, <3>4, <3>5, <3>6
  <2>3. ASSUME NEW p \in Nat, Covers(emitted, sink, p)
        PROVE  /\ Covers(emitted, SubSeq(sink, 1, n), p)
               /\ Covers(emitted, SubSeq(sink, n + 1, Len(sink)), p + n)
    BY <1>1, <2>1, <2>3, CoversParts, Zenon
  <2>4. PICK h, t : h = SubSeq(sink, 1, n) /\ t = SubSeq(sink, n + 1, Len(sink))
    BY Zenon
  <2> QED
    BY <2>2, <2>3, <2>4, Zenon
<1>5. PICK l \in Nat, more \in Seq(Seq(Token)) :
         /\ l = Len(chunks) /\ more = chunks' /\ Len(more) = l + 1 /\ more[l + 1] = h
         /\ \A k \in 1 .. l : more[k] = chunks[k]
  <2>1. PICK l \in Nat : l = Len(chunks)
    BY <1>1, LenProperties
  <2>2. PICK more : more = Append(chunks, h)
    BY Zenon
  <2>3. /\ more \in Seq(Seq(Token)) /\ Len(more) = l + 1 /\ more[l + 1] = h
        /\ \A k \in 1 .. l : more[k] = chunks[k]
    BY <1>1, <2>1, <2>2, AppendProperties
  <2> QED
    BY <1>2, <1>4, <2>1, <2>2, <2>3, Zenon
<1>6. Done' = Done /\ Taken' = Taken
  BY <1>3 DEF Done, Taken, demuxVars
<1>7. TypeOK'
  <2>1. chunks' \in Seq(Seq(Token)) /\ sink' \in Seq(Token) /\ batched' \in BOOLEAN
    BY <1>1, <1>2, <1>4, <1>5, Zenon
  <2> QED
    BY <1>3, <2>1 DEF IInv, TypeOK, demuxVars
<1>8. Flow'
  <2>1. SUFFICES ASSUME ~failed PROVE \E cut : Lined(cut)'
    BY <1>3 DEF Flow, demuxVars
  <2>2. PICK cut : Lined(cut)
    BY <2>1 DEF IInv, Flow
  <2>3. /\ cut \in [1 .. l + 1 -> Nat] /\ cut[1] = Taken + Len(buffer)
        /\ Covers(emitted, buffer, Taken)
        /\ \A k \in 1 .. l : /\ cut[k + 1] = cut[k] + Len(chunks[k])
                             /\ Covers(emitted, chunks[k], cut[k])
        /\ Covers(emitted, sink, cut[l + 1]) /\ cut[l + 1] + Len(sink) = Ends(Len(emitted))
        /\ cut[l + 1] \in Nat
    <3>1. l = Len(chunks)
      BY <1>5
    <3>2. /\ cut \in [1 .. l + 1 -> Nat] /\ cut[1] = Taken + Len(buffer)
          /\ Covers(emitted, buffer, Taken)
          /\ \A k \in 1 .. l : /\ cut[k + 1] = cut[k] + Len(chunks[k])
                               /\ Covers(emitted, chunks[k], cut[k])
          /\ Covers(emitted, sink, cut[l + 1]) /\ cut[l + 1] + Len(sink) = Ends(Len(emitted))
      BY <2>2, <3>1 DEF Lined, Line
    <3>3. cut[l + 1] \in Nat
      BY <3>2
    <3> QED
      BY <3>2, <3>3, Zenon
  <2>4. PICK to : to = [k \in 1 .. l + 2 |-> IF k <= l + 1 THEN cut[k] ELSE cut[l + 1] + n]
    BY Zenon
  <2>5. /\ to \in [1 .. l + 2 -> Nat] /\ to[l + 2] = cut[l + 1] + n
        /\ \A k \in 1 .. l + 1 : to[k] = cut[k]
    <3>1. \A k \in 1 .. l + 2 : k <= l + 1 => cut[k] \in Nat
      BY <2>3
    <3>2. cut[l + 1] + n \in Nat
      BY <2>3
    <3> QED
      BY <2>4, <3>1, <3>2
  <2>6. Covers(emitted, h, cut[l + 1]) /\ Covers(emitted, t, cut[l + 1] + n)
    BY <1>4, <2>3, Zenon
  <2>7. ASSUME NEW k \in 1 .. l + 1
        PROVE  to[k + 1] = to[k] + Len(more[k]) /\ Covers(emitted, more[k], to[k])
    <3>1. CASE k = l + 1
      <4>1. k + 1 = l + 2 /\ l + 1 \in 1 .. l + 1
        BY <3>1
      <4>2. to[l + 1] = cut[l + 1] /\ to[l + 2] = cut[l + 1] + n
        BY <2>5, <4>1
      <4>3. more[l + 1] = h /\ Len(h) = n
        BY <1>4, <1>5
      <4> QED
        BY <2>6, <3>1, <4>1, <4>2, <4>3
    <3>2. CASE k \in 1 .. l
      <4>1. k + 1 \in 1 .. l + 1 /\ k \in 1 .. l + 1
        BY <3>2
      <4> QED
        BY <1>5, <2>3, <2>5, <3>2, <4>1, Zenon
    <3> QED
      BY <3>1, <3>2
  <2>8. to[l + 2] + Len(t) = Ends(Len(emitted))
    <3>1. PICK c \in Nat, s \in Nat, e \in {Ends(Len(emitted))} :
             c = cut[l + 1] /\ s = Len(sink) /\ e = Ends(Len(emitted))
      BY <1>1, <2>3, LenProperties, Zenon
    <3>2. c + s = e /\ to[l + 2] = c + n /\ Len(t) = s - n /\ n \in Nat
      BY <1>4, <2>3, <2>5, <3>1
    <3>3. (c + n) + (s - n) = c + s
      BY <3>2
    <3> QED
      BY <3>1, <3>2, <3>3
  <2>9. Line(emitted, more, to)
    <3>1. (l + 1) + 1 = l + 2
      OBVIOUS
    <3> QED
      BY <1>5, <2>5, <2>7, <3>1, Zenon DEF Line
  <2>10. emitted' = emitted /\ buffer' = buffer /\ chunks' = more /\ sink' = t
    BY <1>2, <1>3, <1>4, <1>5 DEF demuxVars
  <2>11. /\ to[1] = Taken' + Len(buffer') /\ to[Len(chunks') + 1] = to[l + 2]
    <3>1. 1 \in 1 .. l + 1 /\ Len(chunks') + 1 = l + 2
      BY <1>5
    <3> QED
      BY <1>6, <2>3, <2>5, <2>10, <3>1, Zenon
  <2>12. Lined(to)'
    BY <1>6, <2>3, <2>5, <2>6, <2>8, <2>9, <2>10, <2>11, Zenon DEF Lined, Line
  <2> QED
    BY <2>12
<1>9. OneEach'
  <2>1. \A k \in 1 .. l : chunks[k] # <<>>
    BY <1>5 DEF IInv, OneEach
  <2>2. h # <<>>
    <3>1. Len(h) # 0
      BY <1>4
    <3> QED
      BY <3>1, EmptySeq
  <2>3. ASSUME ~batched', NEW i \in 1 .. Len(h), NEW j \in 1 .. Len(h) PROVE h[i].of = h[j].of
    <3>1. ~(Cardinality(Touched(h)) > 1) /\ IsFiniteSet(Touched(h))
      BY <1>2, <1>4, <2>3, TouchedFinite, Zenon
    <3>2. Cardinality(Touched(h)) <= 1
      BY <3>1, FS_CardinalityType
    <3>3. h[i].of \in Touched(h) /\ h[j].of \in Touched(h)
      BY DEF Touched
    <3> QED
      BY <3>1, <3>2, <3>3, AtMostOne
  <2>4. ~batched' => \A k \in 1 .. l : \A i, j \in 1 .. Len(chunks[k]) :
                        chunks[k][i].of = chunks[k][j].of
    BY <1>2, <1>5, Zenon DEF IInv, OneEach
  <2>5. \A k \in 1 .. l + 1 : k = l + 1 \/ k \in 1 .. l
    OBVIOUS
  <2>6. \A k \in 1 .. l + 1 : more[k] # <<>>
    BY <1>5, <2>1, <2>2, <2>5, Zenon
  <2>7. ASSUME ~batched', NEW k \in 1 .. l + 1
        PROVE  \A i, j \in 1 .. Len(more[k]) : more[k][i].of = more[k][j].of
    <3>1. CASE k = l + 1
      <4>1. more[k] = h
        BY <1>5, <3>1
      <4> QED
        BY <2>3, <2>7, <4>1
    <3>2. CASE k \in 1 .. l
      <4>1. more[k] = chunks[k]
        BY <1>5, <3>2
      <4> QED
        BY <2>4, <2>7, <3>2, <4>1
    <3> QED
      BY <2>5, <3>1, <3>2, Zenon
  <2> QED
    BY <1>5, <2>6, <2>7 DEF OneEach
<1>10. Short' /\ Routed' /\ FailsOnlyOnBatches'
  <2>1. Short'
    BY <1>3 DEF IInv, Short, demuxVars
  <2>2. Routed'
    BY <1>3, <1>6 DEF IInv, Routed, demuxVars
  <2>3. FailsOnlyOnBatches'
    BY <1>2, <1>3, Zenon DEF IInv, FailsOnlyOnBatches, demuxVars
  <2> QED
    BY <2>1, <2>2, <2>3
<1>11. InOnePlace' /\ Entries'
  <2>1. InOnePlace'
    BY <1>3, OnePlaceKept
  <2>2. Entries'
    BY <1>3, <1>6 DEF IInv, Entries, Response
  <2> QED
    BY <2>1, <2>2
<1> QED
  BY <1>7, <1>8, <1>9, <1>10, <1>11 DEF IInv

-----------------------------------------------------------------------------
(* What one turn of the loop starts from: the bytes it looks at are those  *)
(* behind what it has taken, the other chunks those behind them.           *)
Behind(position, cut) ==
    /\ Line(emitted, Tail(chunks), cut) /\ cut[1] = position
    /\ Covers(emitted, sink, cut[Len(Tail(chunks)) + 1])
    /\ cut[Len(Tail(chunks)) + 1] + Len(sink) = Ends(Len(emitted))

(* The chunk the loop takes, and those it leaves.                          *)
LEMMA TailOfChunks ==
    ASSUME IInv, chunks # <<>>
    PROVE  /\ Head(chunks) \in Seq(Token) /\ Head(chunks) = chunks[1] /\ Head(chunks) # <<>>
           /\ Tail(chunks) \in Seq(Seq(Token)) /\ Len(chunks) = Len(Tail(chunks)) + 1
           /\ Len(Tail(chunks)) \in Nat
           /\ \A k \in 1 .. Len(Tail(chunks)) : Tail(chunks)[k] = chunks[k + 1]
<1>1. chunks \in Seq(Seq(Token))
  BY DEF IInv, TypeOK
<1>2. Len(chunks) \in Nat /\ Len(chunks) > 0
  BY <1>1, EmptySeq, LenProperties
<1>3. /\ Head(chunks) \in Seq(Token) /\ Head(chunks) = chunks[1]
      /\ Tail(chunks) \in Seq(Seq(Token)) /\ Len(Tail(chunks)) = Len(chunks) - 1
      /\ \A k \in 1 .. Len(Tail(chunks)) : Tail(chunks)[k] = chunks[k + 1]
  BY <1>1, <1>2, HeadTailProperties
<1>4. chunks[1] # <<>>
  BY <1>2 DEF IInv, OneEach
<1> QED
  BY <1>2, <1>3, <1>4

(* The buffer with the chunk behind it is what follows what was taken.     *)
LEMMA LoopStart ==
    ASSUME IInv, ~failed, chunks # <<>>
    PROVE  /\ buffer \o Head(chunks) \in Seq(Token)
           /\ Len(buffer \o Head(chunks)) = Len(buffer) + Len(Head(chunks))
           /\ Covers(emitted, buffer \o Head(chunks), Taken) /\ Taken \in Nat
           /\ \E cut : Behind(Taken + Len(buffer \o Head(chunks)), cut)
<1>1. buffer \in Seq(Token) /\ emitted \in Seq(Message) /\ Done \in Nat
  BY DEF IInv, TypeOK, Routed
<1>2. PICK h \in Seq(Token), rest \in Seq(Seq(Token)), n \in Nat :
         /\ h = Head(chunks) /\ h = chunks[1] /\ rest = Tail(chunks) /\ n = Len(rest)
         /\ Len(chunks) = n + 1 /\ \A k \in 1 .. n : rest[k] = chunks[k + 1]
  BY TailOfChunks
<1>3. PICK cut : Lined(cut)
  BY DEF IInv, Flow
<1>4. /\ cut \in [1 .. (n + 1) + 1 -> Nat] /\ cut[1] = Taken + Len(buffer)
      /\ Covers(emitted, buffer, Taken)
      /\ \A k \in 1 .. n + 1 : /\ cut[k + 1] = cut[k] + Len(chunks[k])
                               /\ Covers(emitted, chunks[k], cut[k])
      /\ Covers(emitted, sink, cut[(n + 1) + 1])
      /\ cut[(n + 1) + 1] + Len(sink) = Ends(Len(emitted))
  <2>1. Len(chunks) = n + 1
    BY <1>2
  <2> QED
    BY <1>3, <2>1, Zenon DEF Lined, Line
<1>5. Taken \in Nat
  <2>1. Ends(Done) \in Nat
    BY <1>1, EndsFacts, Zenon
  <2> QED
    BY <2>1 DEF Taken
<1>6. PICK bytes : bytes = buffer \o Head(chunks)
  BY Zenon
<1>7. /\ bytes \in Seq(Token) /\ Len(bytes) = Len(buffer) + Len(h)
      /\ Len(buffer) \in Nat /\ Len(h) \in Nat
  BY <1>1, <1>2, <1>6, ConcatProperties, LenProperties
<1>8. Covers(emitted, bytes, Taken) /\ cut[2] = Taken + Len(bytes)
  <2>1. 1 \in 1 .. n + 1 /\ 1 + 1 = 2
    OBVIOUS
  <2>2. cut[2] = cut[1] + Len(h) /\ Covers(emitted, h, Taken + Len(buffer))
    BY <1>2, <1>4, <2>1
  <2>3. Covers(emitted, buffer \o h, Taken)
    BY <1>1, <1>4, <1>5, <2>2, CoversConcat
  <2>4. cut[2] = Taken + Len(bytes)
    BY <1>4, <1>5, <1>7, <2>2
  <2> QED
    BY <1>2, <1>6, <2>3, <2>4
<1>9. PICK to : to = [k \in 1 .. n + 1 |-> cut[k + 1]]
  BY Zenon
<1>10. to \in [1 .. n + 1 -> Nat] /\ \A k \in 1 .. n + 1 : to[k] = cut[k + 1]
  <2>1. \A k \in 1 .. n + 1 : cut[k + 1] \in Nat
    BY <1>4
  <2> QED
    BY <1>9, <2>1
<1>11. ASSUME NEW k \in 1 .. n
       PROVE  to[k + 1] = to[k] + Len(rest[k]) /\ Covers(emitted, rest[k], to[k])
  <2>1. k \in 1 .. n + 1 /\ k + 1 \in 1 .. n + 1
    OBVIOUS
  <2>2. to[k] = cut[k + 1] /\ to[k + 1] = cut[(k + 1) + 1] /\ rest[k] = chunks[k + 1]
    BY <1>2, <1>10, <2>1, Zenon
  <2>3. /\ cut[(k + 1) + 1] = cut[k + 1] + Len(chunks[k + 1])
        /\ Covers(emitted, chunks[k + 1], cut[k + 1])
    BY <1>4, <2>1, Zenon
  <2> QED
    BY <2>2, <2>3
<1>12. to[1] = cut[2] /\ to[n + 1] = cut[(n + 1) + 1]
  <2>1. 1 \in 1 .. n + 1 /\ n + 1 \in 1 .. n + 1 /\ 1 + 1 = 2
    OBVIOUS
  <2> QED
    BY <1>10, <2>1
<1>13. Line(emitted, rest, to)
  <2>1. n = Len(rest)
    BY <1>2
  <2> QED
    BY <1>10, <1>11, <2>1 DEF Line
<1>14. Behind(Taken + Len(bytes), to)
  <2>1. rest = Tail(chunks) /\ n = Len(Tail(chunks))
    BY <1>2
  <2> QED
    BY <1>4, <1>8, <1>12, <1>13, <2>1 DEF Behind
<1> QED
  BY <1>2, <1>5, <1>6, <1>7, <1>8, <1>14

(* What one turn leaves alone, or keeps whichever way it goes.             *)
LEMMA LoopKeeps ==
    ASSUME IInv, chunks # <<>>, chunks' = Tail(chunks), UNCHANGED <<intoServer, serverVars>>
    PROVE  /\ OneEach' /\ chunks' \in Seq(Seq(Token))
           /\ intoServer' = intoServer /\ handling' = handling /\ emitted' = emitted
           /\ sink' = sink /\ batched' = batched
           /\ \A cut, position : Behind(position, cut) /\ Covers(emitted, buffer', Taken')
                                   /\ position = Taken' + Len(buffer') => Flow'
<1>1. PICK rest \in Seq(Seq(Token)), n \in Nat :
         /\ rest = Tail(chunks) /\ n = Len(rest) /\ Len(chunks) = n + 1
         /\ \A k \in 1 .. n : rest[k] = chunks[k + 1]
  BY TailOfChunks
<1>2. /\ chunks' = rest /\ intoServer' = intoServer /\ handling' = handling
      /\ emitted' = emitted /\ sink' = sink /\ batched' = batched
  BY <1>1 DEF serverVars
<1>3. OneEach'
  <2>1. \A k \in 1 .. n : k + 1 \in 1 .. n + 1
    OBVIOUS
  <2>2. \A k \in 1 .. n : rest[k] # <<>>
    BY <1>1, <2>1 DEF IInv, OneEach
  <2>3. ASSUME ~batched, NEW k \in 1 .. n
        PROVE  \A i, j \in 1 .. Len(rest[k]) : rest[k][i].of = rest[k][j].of
    <3>1. rest[k] = chunks[k + 1] /\ k + 1 \in 1 .. Len(chunks)
      BY <1>1, <2>1
    <3> QED
      BY <2>3, <3>1 DEF IInv, OneEach
  <2> QED
    BY <1>1, <1>2, <2>2, <2>3 DEF OneEach
<1>4. ASSUME NEW cut, NEW position, Behind(position, cut),
             Covers(emitted, buffer', Taken'), position = Taken' + Len(buffer')
      PROVE  Flow'
  <2>1. Lined(cut)'
    BY <1>1, <1>2, <1>4 DEF Lined, Behind
  <2> QED
    BY <2>1 DEF Flow
<1> QED
  BY <1>1, <1>2, <1>3, <1>4

(* The next message of the stream is routed to where it belongs: the inbox *)
(* of its kind, or the request that waits for it.                          *)
LEMMA RouteStep ==
    ASSUME IInv, NEW m \in Message, Done + 1 \in 1 .. Len(emitted), m = emitted[Done + 1],
           Route(m), emitted' = emitted, contentLength' = NoLength
    PROVE  /\ Done' = Done + 1 /\ Entries' /\ Routed'
           /\ client' \in [Requests -> {"idle", "waiting", "answered", "null"}]
           /\ responses' \in [Requests -> {"absent", "pending", "resolved"}]
           /\ notifications' \in Seq(Notes) /\ requests' \in Seq(Calls)
           /\ \A r \in Requests : client'[r] = "idle" => client[r] = "idle"
<1>1. /\ client \in [Requests -> {"idle", "waiting", "answered", "null"}]
      /\ responses \in [Requests -> {"absent", "pending", "resolved"}]
      /\ notifications \in Seq(Notes) /\ requests \in Seq(Calls) /\ emitted \in Seq(Message)
  BY DEF IInv, TypeOK
<1>2. PICK d \in Nat, l \in Nat :
         /\ d = Done /\ l = Len(emitted) /\ d + 1 \in 1 .. l /\ m = emitted[d + 1]
         /\ notifications = Ids(emitted, "notification")[d]
         /\ requests = Ids(emitted, "request")[d]
  BY <1>1, LenProperties DEF IInv, Routed
<1>3. PICK R : R = {r \in Requests : responses[r] = "resolved"}
  BY Zenon
<1>4. PICK a \in Nat, b \in Nat, c \in Nat :
         /\ a = Len(notifications) /\ b = Len(requests) /\ c = Cardinality(R)
         /\ d = a + b + c /\ IsFiniteSet(R)
  <2>1. IsFiniteSet(R)
    BY <1>3, Zenon DEF IInv, Entries
  <2>2. Cardinality(R) \in Nat
    BY <2>1, FS_CardinalityType
  <2>3. Done = Len(notifications) + Len(requests) + Cardinality(R)
    BY <1>3, Zenon DEF Done
  <2>4. Len(notifications) \in Nat /\ Len(requests) \in Nat
    BY <1>1, LenProperties
  <2> QED
    BY <1>2, <2>1, <2>2, <2>3, <2>4, Zenon
<1>5. \A kind : Ids(emitted, kind)[d + 1] =
          IF m.kind = kind THEN Append(Ids(emitted, kind)[d], m.id) ELSE Ids(emitted, kind)[d]
  <2>1. (d + 1) - 1 = d
    OBVIOUS
  <2>2. \A kind : \A i \in 1 .. Len(emitted) : Ids(emitted, kind)[i] =
             IF emitted[i].kind = kind THEN Append(Ids(emitted, kind)[i - 1], emitted[i].id)
                                       ELSE Ids(emitted, kind)[i - 1]
    BY <1>1, IdsFacts
  <2> QED
    BY <1>2, <2>1, <2>2
<1>6. \A r \in Requests :
          (\E i \in 1 .. l : i <= d + 1 /\ emitted[i] = Response(r)) <=>
              responses[r] = "resolved" \/ m = Response(r)
  <2>1. ASSUME NEW r \in Requests
        PROVE  responses[r] = "resolved" <=> \E i \in 1 .. l : i <= d /\ emitted[i] = Response(r)
    BY <1>2 DEF IInv, Entries
  <2>2. \A i \in 1 .. l : i <= d + 1 <=> i <= d \/ i = d + 1
    OBVIOUS
  <2> QED
    BY <1>2, <2>1, <2>2
<1>7. \A r \in Requests :
          /\ responses[r] = "absent" <=> client[r] = "idle"
          /\ responses[r] = "pending" <=> client[r] = "waiting"
          /\ responses[r] = "resolved" <=> client[r] = "answered"
  BY DEF IInv, Entries
<1>8. CASE m.kind = "response"
  <2>1. PICK r \in Requests : m.id = r /\ m = Response(r)
    BY <1>8 DEF Message, Response
  <2>2. Put(r) /\ UNCHANGED <<notifications, requests>>
    BY <1>8, <2>1 DEF Route
  <2>3. responses[r] = "pending"
    <3>1. responses[r] # "absent"
      <4>1. Emitted(Response(r))
        BY <1>2, <2>1, Zenon DEF Emitted
      <4> QED
        BY <1>7, <4>1 DEF IInv, InOnePlace
    <3>2. responses[r] # "resolved"
      <4>1. ASSUME NEW i \in 1 .. l, i <= d, emitted[i] = Response(r) PROVE FALSE
        <5>1. emitted[i] = emitted[d + 1] /\ i # d + 1
          BY <1>2, <2>1, <4>1
        <5> QED
          BY <1>2, <5>1 DEF IInv, InOnePlace
      <4> QED
        BY <1>2, <4>1 DEF IInv, Entries
    <3> QED
      BY <1>1, <3>1, <3>2
  <2>4. /\ responses' = [responses EXCEPT ![r] = "resolved"]
        /\ client' = [client EXCEPT ![r] = "answered"]
    BY <1>1, <2>2, <2>3 DEF Put
  <2>5. /\ \A q \in Requests : responses'[q] = "resolved" <=> responses[q] = "resolved" \/ q = r
        /\ responses[r] # "resolved"
    BY <1>1, <2>3, <2>4
  <2>6. PICK S : S = {q \in Requests : responses'[q] = "resolved"}
    BY Zenon
  <2>7. S = R \cup {r} /\ r \notin R
    BY <1>3, <2>5, <2>6
  <2>8. IsFiniteSet(S) /\ Cardinality(S) = c + 1
    BY <1>4, <2>7, FS_AddElement, Zenon
  <2>9. Done' = d + 1
    <3>1. Done' = Len(notifications') + Len(requests') + Cardinality(S)
      BY <2>6, Zenon DEF Done
    <3>2. Len(notifications') = a /\ Len(requests') = b
      BY <1>4, <2>2
    <3>3. Done' = a + b + (c + 1)
      BY <2>8, <3>1, <3>2
    <3> QED
      BY <1>4, <3>3
  <2>10. IsFiniteSet({q \in Requests : responses'[q] = "resolved"})
    BY <2>6, <2>8, Zenon
  <2>11. Entries'
    <3>1. ASSUME NEW q \in Requests
          PROVE  /\ responses'[q] = "absent" <=> client'[q] = "idle"
                 /\ responses'[q] = "pending" <=> client'[q] = "waiting"
                 /\ responses'[q] = "resolved" <=> client'[q] = "answered"
      BY <1>1, <1>7, <2>4
    <3>2. ASSUME NEW q \in Requests
          PROVE  responses'[q] = "resolved" <=>
                    \E i \in 1 .. l : i <= d + 1 /\ emitted[i] = Response(q)
      <4>1. m = Response(q) <=> q = r
        BY <2>1 DEF Response
      <4> QED
        BY <1>6, <2>5, <4>1
    <3>3. Len(emitted') = l /\ emitted' = emitted
      BY <1>2
    <3> QED
      BY <2>9, <2>10, <3>1, <3>2, <3>3 DEF Entries, Response
  <2>12. Routed'
    <3>1. /\ Ids(emitted, "notification")[d + 1] = Ids(emitted, "notification")[d]
          /\ Ids(emitted, "request")[d + 1] = Ids(emitted, "request")[d]
      BY <1>5, <1>8
    <3>2. Done' \in 0 .. Len(emitted') /\ contentLength' = NoLength
      BY <1>2, <2>9
    <3>3. notifications' = Ids(emitted', "notification")[Done']
      BY <1>2, <2>2, <2>9, <3>1, Zenon
    <3>4. requests' = Ids(emitted', "request")[Done']
      BY <1>2, <2>2, <2>9, <3>1, Zenon
    <3> QED
      BY <3>2, <3>3, <3>4 DEF Routed
  <2>13. /\ client' \in [Requests -> {"idle", "waiting", "answered", "null"}]
         /\ responses' \in [Requests -> {"absent", "pending", "resolved"}]
         /\ \A q \in Requests : client'[q] = "idle" => client[q] = "idle"
    BY <1>1, <2>4
  <2> QED
    BY <1>1, <1>2, <2>2, <2>9, <2>11, <2>12, <2>13
<1>9. ASSUME m.kind # "response", UNCHANGED <<client, responses>>, Done' = d + 1 PROVE Entries'
  <2>1. ASSUME NEW q \in Requests
        PROVE  responses'[q] = "resolved" <=>
                  \E i \in 1 .. l : i <= d + 1 /\ emitted[i] = Response(q)
    <3>1. m # Response(q)
      BY <1>9 DEF Response
    <3> QED
      BY <1>6, <1>9, <3>1
  <2>2. Len(emitted') = l /\ emitted' = emitted /\ responses' = responses /\ client' = client
    BY <1>2, <1>9
  <2>3. IsFiniteSet({q \in Requests : responses'[q] = "resolved"})
    BY <1>3, <1>4, <2>2, Zenon
  <2>4. \A q \in Requests :
          /\ responses'[q] = "absent" <=> client'[q] = "idle"
          /\ responses'[q] = "pending" <=> client'[q] = "waiting"
          /\ responses'[q] = "resolved" <=> client'[q] = "answered"
    BY <1>7, <2>2
  <2> QED
    BY <1>9, <2>1, <2>2, <2>3, <2>4 DEF Entries, Response
<1>10. CASE m.kind = "notification"
  <2>1. PICK e \in Notes : m.id = e
    BY <1>10 DEF Message
  <2>2. /\ notifications' = Append(notifications, e)
        /\ UNCHANGED <<client, responses, requests>>
    BY <1>10, <2>1 DEF Route
  <2>3. notifications' \in Seq(Notes) /\ Len(notifications') = a + 1
    BY <1>1, <1>4, <2>2, AppendProperties
  <2>4. Done' = d + 1
    <3>1. Done' = Len(notifications') + Len(requests') + Cardinality(R)
      BY <1>3, <2>2, Zenon DEF Done
    <3>2. Done' = (a + 1) + b + c
      BY <1>4, <2>2, <2>3, <3>1
    <3> QED
      BY <1>4, <3>2
  <2>5. Entries'
    BY <1>9, <1>10, <2>2, <2>4
  <2>6. Routed'
    <3>1. /\ Ids(emitted, "notification")[d + 1] = Append(Ids(emitted, "notification")[d], e)
          /\ Ids(emitted, "request")[d + 1] = Ids(emitted, "request")[d]
      BY <1>5, <1>10, <2>1, Zenon
    <3>2. Done' \in 0 .. Len(emitted') /\ contentLength' = NoLength
      BY <1>2, <2>4
    <3>3. notifications' = Ids(emitted', "notification")[Done']
      BY <1>2, <2>2, <2>4, <3>1, Zenon
    <3>4. requests' = Ids(emitted', "request")[Done']
      BY <1>2, <2>2, <2>4, <3>1, Zenon
    <3> QED
      BY <3>2, <3>3, <3>4 DEF Routed
  <2> QED
    BY <1>1, <1>2, <2>2, <2>3, <2>4, <2>5, <2>6
<1>11. CASE m.kind = "request"
  <2>1. PICK e \in Calls : m.id = e
    BY <1>11 DEF Message
  <2>2. /\ requests' = Append(requests, e)
        /\ UNCHANGED <<client, responses, notifications>>
    BY <1>11, <2>1 DEF Route
  <2>3. requests' \in Seq(Calls) /\ Len(requests') = b + 1
    BY <1>1, <1>4, <2>2, AppendProperties
  <2>4. Done' = d + 1
    <3>1. Done' = Len(notifications') + Len(requests') + Cardinality(R)
      BY <1>3, <2>2, Zenon DEF Done
    <3>2. Done' = a + (b + 1) + c
      BY <1>4, <2>2, <2>3, <3>1
    <3> QED
      BY <1>4, <3>2
  <2>5. Entries'
    BY <1>9, <1>11, <2>2, <2>4
  <2>6. Routed'
    <3>1. /\ Ids(emitted, "request")[d + 1] = Append(Ids(emitted, "request")[d], e)
          /\ Ids(emitted, "notification")[d + 1] = Ids(emitted, "notification")[d]
      BY <1>5, <1>11, <2>1, Zenon
    <3>2. Done' \in 0 .. Len(emitted') /\ contentLength' = NoLength
      BY <1>2, <2>4
    <3>3. notifications' = Ids(emitted', "notification")[Done']
      BY <1>2, <2>2, <2>4, <3>1, Zenon
    <3>4. requests' = Ids(emitted', "request")[Done']
      BY <1>2, <2>2, <2>4, <3>1, Zenon
    <3> QED
      BY <3>2, <3>3, <3>4 DEF Routed
  <2> QED
    BY <1>1, <1>2, <2>2, <2>3, <2>4, <2>5, <2>6
<1> QED
  BY <1>8, <1>10, <1>11 DEF Message

(* The first bytes behind position Ends(Done) + 2 are of the next message. *)
LEMMA NextBody ==
    ASSUME NEW sent \in Seq(Message), NEW d \in Nat, NEW text \in Seq(Token),
           Covers(sent, text, Ends(d) + 2), Len(text) >= BodyLength
    PROVE  /\ d + 1 \in 1 .. Len(sent)
           /\ \A k \in 1 .. BodyLength : text[k] = [of |-> sent[d + 1], at |-> k + 2]
<1>1. PICK x \in Nat, n \in Nat, l \in Nat :
         /\ BodyLength = n /\ n > 0 /\ x = Ends(d) /\ Ends(d + 1) = x + n + 2
         /\ l = Len(text) /\ l >= n
  <2>1. /\ BodyLength \in Nat /\ BodyLength > 0 /\ Ends(d) \in Nat
        /\ Ends(d + 1) = Ends(d) + BodyLength + 2
    BY EndsFacts
  <2>2. Len(text) \in Nat
    BY LenProperties
  <2> QED
    BY <2>1, <2>2, Zenon
<1>l. n <= l
  BY <1>1
<1>2. ASSUME NEW k \in 1 .. BodyLength
      PROVE  d + 1 \in 1 .. Len(sent) /\ text[k] = [of |-> sent[d + 1], at |-> k + 2]
  <2>1. k \in 1 .. n
    BY <1>1
  <2>2. PICK p \in Nat : p = (x + 2) + k
    BY <2>1
  <2>3. k \in 1 .. l /\ x < p /\ p <= x + n + 2 /\ p - x = k + 2
    BY <1>l, <2>1, <2>2
  <2>4. k \in 1 .. Len(text) /\ Ends(d) < p /\ p <= Ends(d + 1) /\ p - Ends(d) = k + 2
    BY <1>1, <2>3
  <2>5. text[k] \in Token /\ TokenAt(sent, text[k], p)
    BY <1>1, <2>2, <2>4, ElementOfSeq, Zenon DEF Covers
  <2> QED
    BY <2>4, <2>5, TokenWithin
<1>3. 1 \in 1 .. BodyLength
  BY <1>1
<1> QED
  BY <1>2, <1>3, Zenon

(* A turn that routes nothing: what it looked at stays in the buffer, with *)
(* the header taken off it if there was one.                               *)
LEMMA KeepStep ==
    ASSUME IInv, ~failed, chunks # <<>>, chunks' = Tail(chunks),
           UNCHANGED <<intoServer, serverVars>>,
           UNCHANGED <<client, failed, responses, notifications, requests>>,
           NEW text \in Seq(Token), buffer' = text,
           contentLength' \in {BodyLength, NoLength},
           contentLength' # NoLength => Done < Len(emitted),
           Covers(emitted, text, Ends(Done) + IF contentLength' = NoLength THEN 0 ELSE 2),
           NEW cut, Behind((Ends(Done) + IF contentLength' = NoLength THEN 0 ELSE 2) + Len(text), cut),
           Len(text) < IF contentLength' = NoLength THEN 2 ELSE BodyLength
    PROVE  IInv'
<1>1. /\ OneEach' /\ chunks' \in Seq(Seq(Token))
      /\ intoServer' = intoServer /\ handling' = handling /\ emitted' = emitted
      /\ sink' = sink /\ batched' = batched
  BY LoopKeeps
<1>2. Done' = Done
  BY DEF Done
<1>3. Taken' = Ends(Done) + IF contentLength' = NoLength THEN 0 ELSE 2
  BY <1>2 DEF Taken
<1>4. Flow'
  <2>1. Covers(emitted, buffer', Taken') /\ Behind(Taken' + Len(buffer'), cut)
    BY <1>3
  <2> QED
    BY <2>1, LoopKeeps
<1>5. TypeOK'
  BY <1>1 DEF IInv, TypeOK
<1>6. Short' /\ FailsOnlyOnBatches'
  BY <1>1 DEF IInv, Short, FailsOnlyOnBatches
<1>7. InOnePlace'
  BY <1>1, OnePlaceKept
<1>8. Entries'
  BY <1>1, <1>2 DEF IInv, Entries, Response
<1>9. Routed'
  BY <1>1, <1>2 DEF IInv, Routed
<1> QED
  BY <1>1, <1>4, <1>5, <1>6, <1>7, <1>8, <1>9 DEF IInv

(* A turn that decodes: what it looked at is one message, or the chunk it  *)
(* took had tokens of two.                                                 *)
LEMMA TakeStep ==
    ASSUME IInv, ~failed, chunks # <<>>, chunks' = Tail(chunks),
           UNCHANGED <<intoServer, serverVars>>,
           NEW text \in Seq(Token), Len(text) >= BodyLength, Take(text, BodyLength),
           Covers(emitted, text, Ends(Done) + 2),
           NEW cut, Behind((Ends(Done) + 2) + Len(text), cut),
           ~batched => \A i, j \in BodyLength .. Len(text) : text[i].of = text[j].of
    PROVE  IInv'
<1>1. /\ OneEach' /\ chunks' \in Seq(Seq(Token))
      /\ intoServer' = intoServer /\ handling' = handling /\ emitted' = emitted
      /\ sink' = sink /\ batched' = batched
  BY LoopKeeps
<1>2. /\ emitted \in Seq(Message) /\ Done \in Nat
      /\ BodyLength \in Nat /\ BodyLength > 0 /\ Len(text) \in Nat
  BY LenProperties, EndsFacts DEF IInv, TypeOK, Routed
<1>3. PICK d \in Nat : d = Done
  BY <1>2
<1>4. /\ d + 1 \in 1 .. Len(emitted)
      /\ \A k \in 1 .. BodyLength : text[k] = [of |-> emitted[d + 1], at |-> k + 2]
  BY <1>2, <1>3, NextBody
<1>5. PICK m \in Message : m = emitted[d + 1]
  BY <1>2, <1>4, ElementOfSeq
<1>6. Parsed(text) = m
  <2>1. PICK k \in 1 .. BodyLength : k = 1
    BY <1>2
  <2>2. text[k] = [of |-> emitted[d + 1], at |-> k + 2]
    BY <1>4
  <2>3. text[k].of = m
    BY <1>5, <2>2
  <2> QED
    BY <2>1, <2>3 DEF Parsed
<1>e. PICK e \in Nat, x \in Nat : e = d + 1 /\ x = Ends(d) /\ Ends(e) = x + BodyLength + 2
                                  /\ Ends(e) \in Nat
  <2>1. Ends(d) \in Nat /\ d + 1 \in Nat /\ Ends(d + 1) = Ends(d) + BodyLength + 2
    <3>1. d + 1 \in Nat
      OBVIOUS
    <3>2. Ends(d) \in Nat /\ Ends(d + 1) = Ends(d) + BodyLength + 2
      BY EndsFacts, Zenon
    <3> QED
      BY <3>1, <3>2
  <2>2. Ends(d + 1) \in Nat
    BY <2>1, EndsFacts
  <2> QED
    BY <2>1, <2>2
<1>7. buffer' = SubSeq(text, BodyLength + 1, Len(text)) /\ contentLength' = NoLength
  BY DEF Take, Rest
<1>8. buffer' \in Seq(Token) /\ Len(buffer') = Len(text) - BodyLength
  <2>1. BodyLength \in 0 .. Len(text)
    BY <1>2
  <2>2. PICK p \in Nat : p = x + 2
    OBVIOUS
  <2>3. Covers(emitted, text, p)
    BY <1>3, <1>e, <2>2
  <2> QED
    BY <1>7, <2>1, <2>3, CoversParts
<1>9. CASE Parses(text) /\ Route(Parsed(text)) /\ UNCHANGED failed
  <2>1. Len(text) = BodyLength
    BY <1>6, <1>9, FrameFacts, Zenon DEF Parses
  <2>2. buffer' = <<>> /\ Len(buffer') = 0
    <3>1. Len(buffer') = 0
      BY <1>2, <1>8, <2>1
    <3> QED
      BY <1>8, <3>1, EmptySeq
  <2>3. /\ Done' = Done + 1 /\ Entries' /\ Routed'
        /\ client' \in [Requests -> {"idle", "waiting", "answered", "null"}]
        /\ responses' \in [Requests -> {"absent", "pending", "resolved"}]
        /\ notifications' \in Seq(Notes) /\ requests' \in Seq(Calls)
        /\ \A r \in Requests : client'[r] = "idle" => client[r] = "idle"
    BY <1>1, <1>3, <1>4, <1>5, <1>6, <1>7, <1>9, RouteStep
  <2>4. Flow'
    <3>1. Taken' = Ends(d + 1)
      <4>1. Taken' = Ends(Done') + 0
        BY <1>7 DEF Taken
      <4>2. Ends(e) + 0 = Ends(e)
        BY <1>e
      <4> QED
        BY <1>3, <1>e, <2>3, <4>1, <4>2
    <3>2. Covers(emitted, buffer', Taken')
      BY <2>2 DEF Covers
    <3>3. (Ends(d) + 2) + BodyLength = Ends(d + 1) /\ Ends(d + 1) + 0 = Ends(d + 1)
      <4>1. (x + 2) + BodyLength = x + BodyLength + 2
        BY BodyLengthAssumption
      <4>2. Ends(e) + 0 = Ends(e)
        BY <1>e
      <4> QED
        BY <1>e, <4>1, <4>2
    <3>4. Behind(Taken' + Len(buffer'), cut)
      BY <1>3, <2>1, <2>2, <3>1, <3>3
    <3> QED
      BY <3>2, <3>4, LoopKeeps
  <2>5. TypeOK'
    BY <1>1, <1>7, <1>8, <1>9, <2>3 DEF IInv, TypeOK
  <2>6. Short' /\ FailsOnlyOnBatches'
    <3>1. Short'
      <4>1. Len(buffer') = 0
        BY <2>2
      <4>2. Len(buffer') < 2
        BY <4>1
      <4>3. contentLength' = NoLength
        BY <1>7
      <4> QED
        BY <4>2, <4>3 DEF Short
    <3>2. FailsOnlyOnBatches'
      BY <1>1, <1>9 DEF IInv, FailsOnlyOnBatches
    <3> QED
      BY <3>1, <3>2
  <2>7. InOnePlace'
    BY <1>1, <2>3, OnePlaceKept
  <2> QED
    BY <1>1, <2>3, <2>4, <2>5, <2>6, <2>7 DEF IInv
<1>10. CASE /\ ~Parses(text) /\ failed' = TRUE
            /\ UNCHANGED <<client, responses, notifications, requests>>
  <2>1. batched
    <3>1. SUFFICES ASSUME ~batched PROVE FALSE
      OBVIOUS
    <3>2. CASE Len(text) = BodyLength
      <4>1. /\ Body(m) \in Seq(Token) /\ Len(Body(m)) = BodyLength
            /\ \A k \in 1 .. BodyLength : Body(m)[k] = [of |-> m, at |-> k + 2]
        BY FrameFacts, Zenon
      <4>2. PICK b \in Seq(Token) : b = Body(m)
        BY <4>1
      <4>3. Len(b) = Len(text) /\ \A k \in 1 .. Len(text) : text[k] = b[k]
        BY <1>4, <1>5, <3>2, <4>1, <4>2
      <4>4. text = b
        BY <4>3, SeqEqual
      <4> QED
        BY <1>6, <1>10, <4>2, <4>4 DEF Parses
    <3>3. CASE Len(text) > BodyLength
      <4>1. PICK k \in Nat : k = BodyLength + 1
        BY <1>2
      <4>2. k \in 1 .. Len(text) /\ k \in BodyLength .. Len(text) /\ BodyLength \in BodyLength .. Len(text)
        BY <1>2, <3>3, <4>1
      <4>3. text[k].of = text[BodyLength].of
        BY <3>1, <4>2
      <4>4. text[BodyLength].of = emitted[d + 1]
        <5>1. PICK o \in 1 .. BodyLength : o = BodyLength
          BY <1>2
        <5>2. text[o] = [of |-> emitted[d + 1], at |-> o + 2]
          BY <1>4
        <5>3. text[o].of = emitted[d + 1]
          BY <5>2
        <5> QED
          BY <5>1, <5>3
      <4>5. PICK p \in Nat : p = (Ends(d) + 2) + k
        <5>1. Ends(d) \in Nat
          BY EndsFacts, Zenon
        <5> QED
          BY <5>1
      <4>6. text[k] \in Token /\ TokenAt(emitted, text[k], p)
        BY <1>3, <4>2, <4>5, ElementOfSeq DEF Covers
      <4>8. Ends(e) < p /\ p <= Ends(e + 1)
        <5>1. Ends(e + 1) = Ends(e) + BodyLength + 2
          BY EndsFacts
        <5>2. PICK y \in Nat : y = Ends(e)
          BY <1>e
        <5>3. y = x + BodyLength + 2 /\ p = (x + 2) + (BodyLength + 1)
          BY <1>e, <4>1, <4>5, <5>2
        <5>4. y < p /\ p <= y + BodyLength + 2
          BY <1>2, <5>3
        <5> QED
          BY <5>1, <5>2, <5>4
      <4>9. e + 1 \in 1 .. Len(emitted) /\ text[k].of = emitted[e + 1]
        BY <1>2, <4>6, <4>8, TokenWithin
      <4>10. emitted[e] = emitted[e + 1] /\ e \in 1 .. Len(emitted) /\ e # e + 1
        BY <1>4, <4>3, <4>4, <1>e, <4>9
      <4> QED
        BY <4>9, <4>10 DEF IInv, InOnePlace
    <3> QED
      BY <1>2, <3>2, <3>3
  <2>2. Done' = Done
    BY <1>10 DEF Done
  <2>3. Flow' /\ Short' /\ FailsOnlyOnBatches'
    BY <1>1, <1>10, <2>1 DEF Flow, Short, FailsOnlyOnBatches
  <2>4. TypeOK'
    BY <1>1, <1>7, <1>8, <1>10 DEF IInv, TypeOK
  <2>5. InOnePlace'
    BY <1>1, <1>10, OnePlaceKept
  <2>6. Entries'
    BY <1>1, <1>10, <2>2 DEF IInv, Entries, Response
  <2>7. Routed'
    BY <1>1, <1>7, <1>10, <2>2 DEF IInv, Routed
  <2> QED
    BY <1>1, <2>3, <2>4, <2>5, <2>6, <2>7 DEF IInv
<1> QED
  BY <1>9, <1>10, Zenon DEF Take

(* The bytes a turn takes from its chunk are of one message, unless chunks *)
(* of two were written.                                                    *)
LEMMA FromChunk ==
    ASSUME IInv, chunks # <<>>, ~batched, NEW a \in Nat, Len(buffer) < a
    PROVE  \A i, j \in a .. Len(buffer) + Len(Head(chunks)) :
               (buffer \o Head(chunks))[i].of = (buffer \o Head(chunks))[j].of
<1>1. PICK h \in Seq(Token) : h = Head(chunks) /\ h = chunks[1]
  BY TailOfChunks
<1>2. \A i, j \in 1 .. Len(h) : h[i].of = h[j].of
  <2>1. 1 \in 1 .. Len(chunks)
    BY TailOfChunks
  <2> QED
    BY <1>1, <2>1 DEF IInv, OneEach
<1>3. PICK b \in Nat, l \in Nat : b = Len(buffer) /\ l = Len(h) /\ buffer \in Seq(Token)
  BY LenProperties DEF IInv, TypeOK
<1>4. \A i \in 1 .. l : (buffer \o h)[b + i] = h[i]
  BY <1>1, <1>3, Concatenated
<1>5. ASSUME NEW i \in a .. b + l, NEW j \in a .. b + l
      PROVE  (buffer \o h)[i].of = (buffer \o h)[j].of
  <2>1. PICK u \in 1 .. l, v \in 1 .. l : i = b + u /\ j = b + v
    <3>1. i - b \in 1 .. l /\ j - b \in 1 .. l /\ i = b + (i - b) /\ j = b + (j - b)
      BY <1>3
    <3> QED
      BY <3>1
  <2>2. (buffer \o h)[i] = h[u] /\ (buffer \o h)[j] = h[v]
    BY <1>4, <2>1, Zenon
  <2>3. h[u].of = h[v].of
    BY <1>2, <1>3
  <2> QED
    BY <2>2, <2>3
<1> QED
  BY <1>1, <1>3, <1>5

(* One turn of the loop.                                                   *)
LEMMA DemuxStep ==
    ASSUME IInv, Demux
    PROVE  IInv'
<1>1. /\ ~failed /\ chunks # <<>> /\ chunks' = Tail(chunks)
      /\ UNCHANGED <<intoServer, serverVars>>
  BY DEF Demux
<1>2. /\ emitted \in Seq(Message) /\ Done \in Nat /\ buffer \in Seq(Token)
      /\ contentLength \in {BodyLength, NoLength} /\ BodyLength # NoLength
      /\ contentLength # NoLength => Done < Len(emitted)
      /\ Len(buffer) < IF contentLength = NoLength THEN 2 ELSE BodyLength
  <2>1. BodyLength # NoLength
    BY BodyLengthAssumption, NoLengthAssumption
  <2> QED
    BY <1>1, <2>1 DEF IInv, TypeOK, Routed, Short
<1>3. PICK bytes \in Seq(Token), b \in Nat, h \in Nat :
         /\ bytes = buffer \o Head(chunks) /\ Len(bytes) = b + h
         /\ b = Len(buffer) /\ h = Len(Head(chunks))
         /\ Covers(emitted, bytes, Taken) /\ Taken \in Nat
         /\ \E cut : Behind(Taken + Len(bytes), cut)
  <2>1. /\ buffer \o Head(chunks) \in Seq(Token)
        /\ Len(buffer \o Head(chunks)) = Len(buffer) + Len(Head(chunks))
        /\ Covers(emitted, buffer \o Head(chunks), Taken) /\ Taken \in Nat
        /\ \E cut : Behind(Taken + Len(buffer \o Head(chunks)), cut)
    BY <1>1, LoopStart
  <2>2. Len(buffer) \in Nat /\ Len(Head(chunks)) \in Nat
    BY <1>1, <1>2, TailOfChunks, LenProperties
  <2> QED
    BY <2>1, <2>2, Zenon
<1>4. PICK cut : Behind(Taken + Len(bytes), cut)
  BY <1>3
<1>5. ASSUME ~batched, NEW a \in Nat, b < a
      PROVE  \A i, j \in a .. Len(bytes) : bytes[i].of = bytes[j].of
  <2>1. Len(buffer) < a /\ bytes = buffer \o Head(chunks)
        /\ Len(bytes) = Len(buffer) + Len(Head(chunks))
    BY <1>3, <1>5
  <2>2. \A i, j \in a .. Len(buffer) + Len(Head(chunks)) :
             (buffer \o Head(chunks))[i].of = (buffer \o Head(chunks))[j].of
    BY <1>1, <1>5, <2>1, FromChunk, Zenon
  <2> QED
    BY <2>1, <2>2, Zenon
<1>6. BodyLength \in Nat /\ BodyLength > 0 /\ Ends(Done) \in Nat /\ Len(bytes) \in Nat
  <2>1. BodyLength \in Nat /\ BodyLength > 0 /\ Ends(Done) \in Nat
    BY <1>2, EndsFacts, Zenon
  <2>2. Len(bytes) \in Nat
    BY LenProperties
  <2> QED
    BY <2>1, <2>2
<1>7. CASE contentLength # NoLength /\ Decode(bytes, contentLength)
  <2>1. contentLength = BodyLength /\ Taken = Ends(Done) + 2
    BY <1>2, <1>7 DEF Taken
  <2>2. CASE Len(bytes) < BodyLength /\ Keep(bytes, BodyLength)
    <3>1. /\ buffer' = bytes /\ contentLength' = BodyLength
          /\ UNCHANGED <<client, failed, responses, notifications, requests>>
      BY <2>2 DEF Keep
    <3>2. /\ contentLength' \in {BodyLength, NoLength}
          /\ contentLength' # NoLength => Done < Len(emitted)
          /\ Covers(emitted, bytes, Ends(Done) + IF contentLength' = NoLength THEN 0 ELSE 2)
          /\ Behind((Ends(Done) + IF contentLength' = NoLength THEN 0 ELSE 2) + Len(bytes), cut)
          /\ Len(bytes) < IF contentLength' = NoLength THEN 2 ELSE BodyLength
      BY <1>2, <1>3, <1>4, <1>7, <2>1, <2>2, <3>1
    <3> QED
      BY <1>1, <3>1, <3>2, KeepStep
  <2>3. CASE Len(bytes) >= BodyLength /\ Take(bytes, BodyLength)
    <3>1. Covers(emitted, bytes, Ends(Done) + 2) /\ Behind((Ends(Done) + 2) + Len(bytes), cut)
      BY <1>3, <1>4, <2>1
    <3>2. ~batched => \A i, j \in BodyLength .. Len(bytes) : bytes[i].of = bytes[j].of
      <4>1. b < BodyLength
        BY <1>2, <1>3, <1>7
      <4> QED
        BY <1>5, <1>6, <4>1
    <3> QED
      BY <1>1, <2>3, <3>1, <3>2, TakeStep
  <2> QED
    BY <1>7, <2>1, <2>2, <2>3 DEF Decode
<1>8. ASSUME contentLength = NoLength, Len(bytes) >= 2
      PROVE  /\ Done + 1 \in 1 .. Len(emitted)
             /\ \A k \in 1 .. 2 : bytes[k] = [of |-> emitted[Done + 1], at |-> k]
  <2>1. PICK d \in Nat, x \in Nat : /\ d = Done /\ x = Ends(d) /\ Taken = x
                                    /\ Ends(d + 1) = x + BodyLength + 2
    <3>1. Taken = Ends(Done)
      BY <1>6, <1>8 DEF Taken
    <3>2. Ends(Done + 1) = Ends(Done) + BodyLength + 2
      BY <1>2, EndsFacts
    <3> QED
      BY <1>2, <1>6, <3>1, <3>2
  <2>2. ASSUME NEW k \in 1 .. 2
        PROVE  d + 1 \in 1 .. Len(emitted) /\ bytes[k] = [of |-> emitted[d + 1], at |-> k]
    <3>1. PICK p \in Nat : p = x + k
      OBVIOUS
    <3>2. x < p /\ p <= x + BodyLength + 2 /\ p - x = k /\ k \in 1 .. Len(bytes)
      BY <1>6, <1>8, <3>1
    <3>3. bytes[k] \in Token /\ TokenAt(emitted, bytes[k], p)
      BY <1>3, <2>1, <3>1, <3>2, ElementOfSeq, Zenon DEF Covers
    <3> QED
      BY <1>2, <2>1, <3>2, <3>3, TokenWithin
  <2>3. 1 \in 1 .. 2
    OBVIOUS
  <2> QED
    BY <2>1, <2>2, <2>3
<1>9. CASE /\ contentLength = NoLength /\ HasHeader(bytes)
           /\ Decode(SubSeq(bytes, 3, Len(bytes)), BodyLength)
  <2>1. Len(bytes) >= 2
    <3>1. bytes[1].of \in Message
      <4>1. 1 \in 1 .. Len(bytes)
        <5>1. Head(chunks) \in Seq(Token) /\ Head(chunks) # <<>>
          BY <1>1, TailOfChunks
        <5>2. h # 0
          BY <1>3, <5>1, EmptySeq
        <5> QED
          BY <1>3, <5>2
      <4>2. bytes[1] \in Token
        BY <4>1, ElementOfSeq
      <4> QED
        BY <4>2 DEF Token
    <3>2. Len(Header(bytes[1].of)) = 2
      BY <3>1, FrameFacts, Zenon
    <3>3. Len(Header(bytes[1].of)) <= Len(bytes)
      BY <1>9 DEF HasHeader, IsPrefix
    <3> QED
      BY <3>2, <3>3
  <2>2. Done + 1 \in 1 .. Len(emitted) /\ Taken = Ends(Done)
    BY <1>6, <1>8, <1>9, <2>1 DEF Taken
  <2>3. PICK text \in Seq(Token), l \in Nat :
           /\ text = SubSeq(bytes, 3, Len(bytes)) /\ l = Len(text) /\ Len(bytes) = l + 2
           /\ Covers(emitted, text, Ends(Done) + 2)
           /\ \A i \in 1 .. l : text[i] = bytes[i + 2]
    <3>1. 2 \in 0 .. Len(bytes) /\ 2 + 1 = 3
      BY <1>6, <2>1
    <3>2. PICK n \in 0 .. Len(bytes) : n = 2
      BY <3>1
    <3>3. PICK text : text = SubSeq(bytes, n + 1, Len(bytes))
      BY Zenon
    <3>4. text \in Seq(Token) /\ Len(text) = Len(bytes) - n /\ Covers(emitted, text, Taken + n)
      <4>1. PICK p \in Nat : p = Taken
        BY <1>3
      <4>2. Covers(emitted, bytes, p)
        BY <1>3, <4>1
      <4>3. SubSeq(bytes, n + 1, Len(bytes)) \in Seq(Token)
        BY <4>2, CoversParts
      <4>4. Len(SubSeq(bytes, n + 1, Len(bytes))) = Len(bytes) - n
        BY <4>2, CoversParts
      <4>5. Covers(emitted, SubSeq(bytes, n + 1, Len(bytes)), p + n)
        BY <4>2, CoversParts, Zenon
      <4> QED
        BY <3>3, <4>1, <4>3, <4>4, <4>5
    <3>5. ASSUME NEW i \in 1 .. Len(bytes) - n PROVE text[i] = bytes[i + n]
      <4>1. \A k \in n + 1 .. Len(bytes) : bytes[k] \in Token
        BY <1>6, <3>2, ElementOfSeq
      <4>2. \A k \in 1 .. Len(bytes) - (n + 1) + 1 : text[k] = bytes[(n + 1) + k - 1]
        <5>1. n + 1 \in Int /\ Len(bytes) \in Int
          BY <1>6, <3>2
        <5> QED
          BY <3>3, <4>1, <5>1, SubSeqProperties
      <4>3. i \in 1 .. Len(bytes) - (n + 1) + 1 /\ (n + 1) + i - 1 = i + n
        BY <1>6, <3>2
      <4> QED
        BY <4>2, <4>3
    <3>6. PICK l \in Nat : l = Len(text) /\ Len(bytes) = l + 2 /\ l = Len(bytes) - n
      <4>1. Len(bytes) - 2 \in Nat
        BY <1>6, <2>1
      <4> QED
        BY <1>6, <3>2, <3>4, <4>1
    <3>7. text = SubSeq(bytes, 3, Len(bytes))
      BY <3>1, <3>2, <3>3
    <3>8. Covers(emitted, text, Ends(Done) + 2)
      BY <2>2, <3>2, <3>4
    <3>9. \A i \in 1 .. l : text[i] = bytes[i + 2]
      BY <3>2, <3>5, <3>6
    <3> QED
      BY <3>4, <3>6, <3>7, <3>8, <3>9, Zenon
  <2>4. Behind((Ends(Done) + 2) + Len(text), cut)
    <3>1. Taken + Len(bytes) = (Ends(Done) + 2) + Len(text)
      BY <1>6, <2>2, <2>3
    <3> QED
      BY <1>4, <3>1
  <2>5. CASE Len(text) < BodyLength /\ Keep(text, BodyLength)
    <3>1. /\ buffer' = text /\ contentLength' = BodyLength
          /\ UNCHANGED <<client, failed, responses, notifications, requests>>
      BY <2>5 DEF Keep
    <3>2. Done < Len(emitted)
      BY <1>2, <2>2
    <3>3. /\ contentLength' \in {BodyLength, NoLength}
          /\ contentLength' # NoLength => Done < Len(emitted)
          /\ Covers(emitted, text, Ends(Done) + IF contentLength' = NoLength THEN 0 ELSE 2)
          /\ Behind((Ends(Done) + IF contentLength' = NoLength THEN 0 ELSE 2) + Len(text), cut)
          /\ Len(text) < IF contentLength' = NoLength THEN 2 ELSE BodyLength
      BY <1>2, <2>3, <2>4, <2>5, <3>1, <3>2
    <3> QED
      BY <1>1, <3>1, <3>3, KeepStep
  <2>6. CASE Len(text) >= BodyLength /\ Take(text, BodyLength)
    <3>1. ASSUME ~batched, NEW i \in BodyLength .. Len(text), NEW j \in BodyLength .. Len(text)
          PROVE  text[i].of = text[j].of
      <4>1. PICK a \in Nat : a = BodyLength + 2
        BY <1>6
      <4>2. b < a
        BY <1>2, <1>3, <1>6, <1>9, <4>1
      <4>3. i + 2 \in a .. Len(bytes) /\ j + 2 \in a .. Len(bytes) /\ i \in 1 .. l /\ j \in 1 .. l
        BY <1>6, <2>3, <4>1
      <4>4. bytes[i + 2].of = bytes[j + 2].of
        BY <1>5, <3>1, <4>2, <4>3, Zenon
      <4> QED
        BY <2>3, <4>3, <4>4
    <3>2. ~batched => \A i, j \in BodyLength .. Len(text) : text[i].of = text[j].of
      BY <3>1
    <3> QED
      BY <1>1, <2>3, <2>4, <2>6, <3>2, TakeStep, Zenon
  <2>7. \/ Len(text) < BodyLength /\ Keep(text, BodyLength)
        \/ Len(text) >= BodyLength /\ Take(text, BodyLength)
    BY <1>9, <2>3 DEF Decode
  <2> QED
    BY <2>5, <2>6, <2>7
<1>10. CASE /\ contentLength = NoLength /\ ~HasHeader(bytes) /\ buffer' = bytes
            /\ UNCHANGED <<client, contentLength, failed, responses, notifications, requests>>
  <2>1. Len(bytes) < 2
    <3>1. SUFFICES ASSUME Len(bytes) >= 2 PROVE FALSE
      BY <1>6
    <3>2. PICK m \in Message : m = emitted[Done + 1]
      BY <1>2, <1>8, <1>10, <3>1, ElementOfSeq
    <3>3. \A k \in 1 .. 2 : bytes[k] = [of |-> m, at |-> k]
      BY <1>8, <1>10, <3>1, <3>2
    <3>4. bytes[1].of = m
      <4>1. PICK k \in 1 .. 2 : k = 1
        OBVIOUS
      <4>2. bytes[k].of = m
        BY <3>3
      <4> QED
        BY <4>1, <4>2
    <3>5. PICK head \in Seq(Token) : /\ head = Header(m) /\ Len(head) = 2
                                    /\ \A k \in 1 .. 2 : head[k] = bytes[k]
      BY <3>3, FrameFacts
    <3>6. IsPrefix(head, bytes)
      BY <3>1, <3>5, PrefixByElement
    <3> QED
      BY <1>10, <3>4, <3>5, <3>6 DEF HasHeader
  <2>2. /\ contentLength' = NoLength /\ contentLength' \in {BodyLength, NoLength}
        /\ contentLength' # NoLength => Done < Len(emitted)
        /\ Len(bytes) < IF contentLength' = NoLength THEN 2 ELSE BodyLength
    BY <1>2, <1>10, <2>1
  <2>3. Taken = Ends(Done) + IF contentLength' = NoLength THEN 0 ELSE 2
    BY <1>10 DEF Taken
  <2>4. /\ Covers(emitted, bytes, Ends(Done) + IF contentLength' = NoLength THEN 0 ELSE 2)
        /\ Behind((Ends(Done) + IF contentLength' = NoLength THEN 0 ELSE 2) + Len(bytes), cut)
    BY <1>3, <1>4, <2>3
  <2> QED
    BY <1>1, <1>10, <2>2, <2>4, KeepStep
<1> QED
  BY <1>3, <1>7, <1>9, <1>10 DEF Demux

-----------------------------------------------------------------------------
(* Nothing stays behind.  A request that was made is in one of the places  *)
(* of InOnePlace: written and not read, handled, or answered.              *)
OnItsWay ==
    \A r \in Requests : client[r] # "idle" =>
        r \in handling \/ Contains(intoServer, r) \/ Emitted(Response(r))

(* What is added to a sequence is in it, with all that was.                *)
LEMMA AppendContains ==
    ASSUME NEW S, NEW s \in Seq(S), NEW m \in S, NEW e, Contains(s, e) \/ e = m
    PROVE  Contains(Append(s, m), e)
<1>1. PICK n \in Nat, t \in Seq(S) :
         /\ n = Len(s) /\ t = Append(s, m) /\ Len(t) = n + 1 /\ t[n + 1] = m
         /\ \A i \in 1 .. n : t[i] = s[i]
  <2>1. PICK t : t = Append(s, m)
    BY Zenon
  <2>2. t \in Seq(S)
    BY <2>1, AppendProperties
  <2>3. Len(t) = Len(s) + 1
    BY <2>1, AppendProperties
  <2>4. t[Len(s) + 1] = m
    BY <2>1, AppendProperties
  <2>5. \A i \in 1 .. Len(s) : t[i] = s[i]
    BY <2>1, AppendProperties
  <2>6. PICK n \in Nat : n = Len(s)
    BY LenProperties
  <2> QED
    BY <2>1, <2>2, <2>3, <2>4, <2>5, <2>6, Zenon
<1>2. CASE Contains(s, e)
  <2>1. PICK i \in 1 .. n : s[i] = e
    BY <1>1, <1>2 DEF Contains
  <2>2. i \in 1 .. n + 1
    BY <2>1
  <2> QED
    BY <1>1, <2>1, <2>2 DEF Contains
<1>3. CASE e = m
  <2>1. n + 1 \in 1 .. n + 1
    BY <1>1
  <2> QED
    BY <1>1, <1>3, <2>1 DEF Contains
<1> QED
  BY <1>2, <1>3

(* What is taken from a sequence is its first element only.                *)
LEMMA TailContains ==
    ASSUME NEW S, NEW s \in Seq(S), s # <<>>, NEW e, Contains(s, e)
    PROVE  e = Head(s) \/ Contains(Tail(s), e)
<1>1. PICK n \in Nat, t \in Seq(S) :
         /\ Len(s) = n + 1 /\ t = Tail(s) /\ Len(t) = n /\ Head(s) = s[1]
         /\ \A i \in 1 .. n : t[i] = s[i + 1]
  <2>1. Len(s) \in Nat /\ Len(s) # 0
    BY EmptySeq, LenProperties
  <2>2. Len(s) - 1 \in Nat /\ Len(s) = (Len(s) - 1) + 1
    BY <2>1
  <2>3. /\ Head(s) = s[1] /\ Tail(s) \in Seq(S) /\ Len(Tail(s)) = Len(s) - 1
        /\ \A i \in 1 .. Len(Tail(s)) : Tail(s)[i] = s[i + 1]
    BY HeadTailProperties
  <2> QED
    BY <2>2, <2>3
<1>2. PICK i \in 1 .. n + 1 : s[i] = e
  BY <1>1 DEF Contains
<1>3. CASE i = 1
  BY <1>1, <1>2, <1>3
<1>4. CASE i # 1
  <2>1. i - 1 \in 1 .. n /\ (i - 1) + 1 = i
    BY <1>2, <1>4
  <2>2. t[i - 1] = e
    BY <1>1, <1>2, <2>1
  <2> QED
    BY <1>1, <2>1, <2>2 DEF Contains
<1> QED
  BY <1>3, <1>4

(* The loop gives an answer only to a request that was made.               *)
LEMMA DemuxAnswersMade ==
    ASSUME IInv, Demux, NEW q \in Requests, client'[q] # "idle"
    PROVE  client[q] # "idle"
<1>1. client' = client \/ \E m : Put(m)
  BY DEF Demux, Decode, Keep, Take, Route
<1>2. CASE client' = client
  BY <1>2
<1>3. CASE \E m : Put(m)
  <2>1. PICK m : client' = [client EXCEPT ![m] =
                              IF responses[m] = "pending" THEN "answered" ELSE @]
    BY <1>3 DEF Put
  <2>2. CASE m = q
    <3>1. responses[q] = "pending" => client[q] = "waiting"
      BY DEF IInv, Entries
    <3>2. responses[q] # "pending" => client'[q] = client[q]
      BY <2>1, <2>2 DEF IInv, TypeOK
    <3> QED
      BY <3>1, <3>2
  <2>3. CASE m # q
    BY <2>1, <2>3 DEF IInv, TypeOK
  <2> QED
    BY <2>2, <2>3
<1> QED
  BY <1>1, <1>2, <1>3

(* No step takes a request that was made out of all of its places.         *)
LEMMA OnItsWayStep == IInv /\ OnItsWay /\ [Next]_vars => OnItsWay'
<1> SUFFICES ASSUME IInv, OnItsWay, [Next]_vars, NEW q \in Requests, client'[q] # "idle"
             PROVE  \/ q \in handling' \/ Contains(intoServer', q)
                    \/ Contains(emitted', Response(q))
  BY DEF OnItsWay, Emitted, Contains, Response
<1>1. /\ intoServer \in Seq(Requests) /\ emitted \in Seq(Message)
      /\ client \in [Requests -> {"idle", "waiting", "answered", "null"}]
  BY DEF IInv, TypeOK
<1>2. client[q] # "idle" => \/ q \in handling \/ Contains(intoServer, q)
                            \/ Contains(emitted, Response(q))
  BY DEF OnItsWay, Emitted, Contains
<1>3. ASSUME NEW r \in Requests, Request(r)
      PROVE  Contains(intoServer', q) \/ q \in handling' \/ Contains(emitted', Response(q))
  <2>1. /\ intoServer' = Append(intoServer, r) /\ UNCHANGED <<handling, emitted>>
        /\ r # q => client'[q] = client[q]
    BY <1>1, <1>3 DEF Request, Get, serverVars
  <2>2. CASE r = q
    BY <1>1, <2>1, <2>2, AppendContains
  <2>3. CASE r # q
    BY <1>1, <1>2, <2>1, <2>3, AppendContains
  <2> QED
    BY <2>2, <2>3
<1>4. ASSUME ServerReads
      PROVE  Contains(intoServer', q) \/ q \in handling' \/ Contains(emitted', Response(q))
  <2>1. /\ intoServer # <<>> /\ intoServer' = Tail(intoServer)
        /\ handling' = handling \cup {Head(intoServer)} /\ UNCHANGED <<client, emitted>>
    BY <1>4 DEF ServerReads
  <2> QED
    BY <1>1, <1>2, <2>1, TailContains
<1>5. ASSUME NEW m \in Message, Emit(m), UNCHANGED <<client, intoServer>>,
             handling' = handling
               \/ \E r \in Requests : handling' = handling \ {r} /\ m = Response(r)
      PROVE  Contains(intoServer', q) \/ q \in handling' \/ Contains(emitted', Response(q))
  <2>1. emitted' = Append(emitted, m)
    BY <1>5 DEF Emit
  <2>2. CASE Contains(emitted, Response(q)) \/ m = Response(q)
    BY <1>1, <2>1, <2>2, AppendContains
  <2>3. CASE ~(Contains(emitted, Response(q)) \/ m = Response(q))
    BY <1>2, <1>5, <2>3
  <2> QED
    BY <2>2, <2>3
<1>6. ASSUME NEW r \in Requests, ServerAnswers(r)
      PROVE  Contains(intoServer', q) \/ q \in handling' \/ Contains(emitted', Response(q))
  <2>1. /\ Emit(Response(r)) /\ UNCHANGED <<client, intoServer>>
        /\ handling' = handling \ {r}
    BY <1>6 DEF ServerAnswers, Response
  <2>2. Response(r) \in Message
    BY DEF Response, Message
  <2> QED
    BY <1>5, <2>1, <2>2
<1>7. ASSUME NEW m \in Message, ServerSends(m)
      PROVE  Contains(intoServer', q) \/ q \in handling' \/ Contains(emitted', Response(q))
  BY <1>5, <1>7 DEF ServerSends
<1>8. CASE SinkWrites
  BY <1>2, <1>8 DEF SinkWrites
<1>9. CASE Demux
  <2>1. UNCHANGED <<intoServer, handling, emitted>>
    BY <1>9 DEF Demux, serverVars
  <2> QED
    BY <1>2, <1>9, <2>1, DemuxAnswersMade
<1>10. CASE UNCHANGED vars
  BY <1>2, <1>10 DEF vars
<1> QED
  BY <1>3, <1>4, <1>6, <1>7, <1>8, <1>9, <1>10 DEF Next

(* Where the loop is when all that was written has been read: what it      *)
(* keeps is Short of a message, and messages are all that is left.         *)
LEMMA ReadToTheEnd ==
    ASSUME IInv, ~failed, sink = <<>>, chunks = <<>>
    PROVE  Done = Len(emitted) /\ contentLength = NoLength /\ buffer = <<>>
<1>1. PICK d \in Nat, l \in Nat, b \in Nat, n \in Nat :
         /\ d = Done /\ l = Len(emitted) /\ d <= l /\ b = Len(buffer) /\ n = BodyLength /\ n > 0
         /\ contentLength # NoLength => d < l
         /\ b < IF contentLength = NoLength THEN 2 ELSE n
  <2>1. /\ emitted \in Seq(Message) /\ buffer \in Seq(Token)
        /\ Done \in 0 .. Len(emitted)
        /\ contentLength # NoLength => Done < Len(emitted)
        /\ Len(buffer) < IF contentLength = NoLength THEN 2 ELSE BodyLength
    BY DEF IInv, TypeOK, Routed, Short
  <2>2. Len(emitted) \in Nat /\ Len(buffer) \in Nat /\ BodyLength \in Nat /\ BodyLength > 0
    BY <2>1, LenProperties, EndsFacts
  <2>3. Done \in Nat /\ Done <= Len(emitted)
    BY <2>1, <2>2
  <2> QED
    BY <2>1, <2>2, <2>3
<1>2. PICK x \in Nat, y \in Nat : /\ x = Ends(d) /\ y = Ends(l)
                                  /\ d = l => x = y
                                  /\ d < l => x + n + 2 <= y
  <2>1. /\ Ends(d) \in Nat /\ Ends(l) \in Nat
        /\ Ends(d + 1) = Ends(d) + n + 2
        /\ d < l => Ends(d + 1) <= Ends(l)
    BY <1>1, EndsFacts
  <2> QED
    BY <2>1
<1>3. y = x + (IF contentLength = NoLength THEN 0 ELSE 2) + b
  <2>1. PICK cut : Lined(cut)
    BY DEF IInv, Flow
  <2>2. Len(chunks) = 0 /\ Len(sink) = 0
    BY EmptySeq
  <2>3. cut[1] = Taken + b /\ cut[0 + 1] + 0 = y /\ cut \in [1 .. 0 + 1 -> Nat]
    BY <1>1, <1>2, <2>1, <2>2 DEF Lined, Line
  <2>4. 0 + 1 = 1 /\ 1 \in 1 .. 1
    OBVIOUS
  <2>5. Taken = x + (IF contentLength = NoLength THEN 0 ELSE 2)
    BY <1>1, <1>2 DEF Taken
  <2> QED
    BY <2>3, <2>4, <2>5
<1>4. contentLength = NoLength
  BY <1>1, <1>2, <1>3
<1>5. d = l /\ b = 0
  BY <1>1, <1>2, <1>3, <1>4
<1>6. buffer = <<>>
  BY <1>1, <1>5, EmptySeq DEF IInv, TypeOK
<1> QED
  BY <1>1, <1>4, <1>5, <1>6

(* A request whose answer was routed does not wait for it.                 *)
LEMMA InvNothingBehind == IInv /\ OnItsWay => NothingStaysBehind
<1> SUFFICES ASSUME IInv, OnItsWay, ~failed, sink = <<>>, chunks = <<>>
             PROVE  /\ buffer = <<>> /\ contentLength = NoLength
                    /\ notifications = OfKind("notification")
                    /\ requests = OfKind("request")
                    /\ \A r \in Requests : client[r] = "waiting" =>
                          r \in handling \/ Contains(intoServer, r)
  BY DEF NothingStaysBehind
<1>1. Done = Len(emitted) /\ contentLength = NoLength /\ buffer = <<>>
  BY ReadToTheEnd
<1>2. notifications = OfKind("notification") /\ requests = OfKind("request")
  BY <1>1 DEF IInv, Routed, OfKind
<1>3. ASSUME NEW r \in Requests, client[r] = "waiting"
      PROVE  r \in handling \/ Contains(intoServer, r)
  <2>1. responses[r] = "pending"
    BY <1>3 DEF IInv, Entries
  <2>2. ~\E i \in 1 .. Len(emitted) : i <= Done /\ emitted[i] = Response(r)
    BY <2>1 DEF IInv, Entries
  <2>3. emitted \in Seq(Message) /\ Len(emitted) \in Nat
    BY LenProperties DEF IInv, TypeOK
  <2>4. ~Emitted(Response(r))
    BY <1>1, <2>2, <2>3 DEF Emitted
  <2> QED
    BY <1>3, <2>4 DEF OnItsWay
<1> QED
  BY <1>1, <1>2, <1>3

-----------------------------------------------------------------------------
(* The parts of the invariant hold in every state, for any messages, any   *)
(* length of a message and any cut of the stream.                          *)
THEOREM InvAlways == Spec => []IInv
<1>1. Init => IInv
  BY InitInv
<1>2. IInv /\ [Next]_vars => IInv'
  <2> SUFFICES ASSUME IInv, [Next]_vars PROVE IInv'
    OBVIOUS
  <2>1. CASE \E r \in Requests : Request(r)
    BY <2>1, RequestStep
  <2>2. CASE \E r \in Requests : ServerAnswers(r)
    BY <2>2, ServerAnswersStep
  <2>3. CASE ServerReads
    BY <2>3, ServerReadsStep
  <2>4. CASE \E m \in Message : ServerSends(m)
    BY <2>4, ServerSendsStep
  <2>5. CASE SinkWrites
    BY <2>5, SinkWritesStep
  <2>6. CASE Demux
    BY <2>6, DemuxStep
  <2>7. CASE UNCHANGED vars
    BY <2>7, IInvStays
  <2> QED
    BY <2>1, <2>2, <2>3, <2>4, <2>5, <2>6, <2>7 DEF Next
<1> QED
  BY <1>1, <1>2, PTL DEF Spec

(* Every variable stays in its type.                                       *)
THEOREM TypeCorrect == Spec => []TypeOK
<1>1. IInv => TypeOK
  BY DEF IInv
<1> QED
  BY <1>1, InvAlways, PTL

(* Each inbox holds the messages of its kind in the order the server sent  *)
(* them (put() of demuxer.ts), however the stream was cut into chunks.     *)
THEOREM RoutedInOrderCorrect == Spec => []RoutedInOrder
  BY InvRouted, InvAlways, PTL

(* No request is given null, and one that is answered has its own answer   *)
(* (get() and set() of map.ts).                                            *)
THEOREM AnswersMatchCorrect == Spec => []AnswersMatch
  BY InvAnswers, InvAlways, PTL

(* The loop of start() stays at a frame boundary until it is thrown out:   *)
(* what it has not parsed is whole messages, byte for byte.                *)
THEOREM InStepCorrect == Spec => []InStep
  BY InvInStep, InvAlways, PTL

(* The loop is thrown out of only after a chunk with two messages' bytes.  *)
THEOREM FailsOnlyOnBatchesCorrect == Spec => []FailsOnlyOnBatches
<1>1. IInv => FailsOnlyOnBatches
  BY DEF IInv
<1> QED
  BY <1>1, InvAlways, PTL

(* The safety half of EveryRequestAnswered: once what the server wrote has *)
(* been read, the loop of start() keeps no message that waits for the next *)
(* chunk, every inbox is complete, and a request of client.ts still waits  *)
(* only if the server has not answered it.                                 *)
THEOREM NothingStaysBehindCorrect == Spec => []NothingStaysBehind
<1>1. Init => OnItsWay
  BY DEF Init, OnItsWay
<1>2. IInv /\ OnItsWay /\ [Next]_vars => OnItsWay'
  BY OnItsWayStep
<1>3. IInv /\ OnItsWay => NothingStaysBehind
  BY InvNothingBehind
<1> QED
  BY <1>1, <1>2, <1>3, InvAlways, PTL DEF Spec
=============================================================================
