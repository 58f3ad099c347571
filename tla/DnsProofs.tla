----------------------------- MODULE DnsProofs -----------------------------
(***************************************************************************)
(* Proofs about Dns for every length of the buffers and every query, so    *)
(* for name_buf and resp as they are in the code.                          *)
(***************************************************************************)
EXTENDS Dns, SequenceTheorems, TLAPS

\* A query is a sequence of bytes that fits the buffer.
LEMMA QueryFacts ==
  ASSUME TypeOK
  PROVE  /\ query \in Seq(0 .. 255) /\ Len(query) \in Nat
         /\ \A i \in 1 .. Len(query) : query[i] \in 0 .. 255
<1>1. query \in Seq(0 .. 255)
  BY DnsAssumption, EmptySeq DEF TypeOK
<1>2. Len(query) \in Nat
  BY <1>1, LenProperties
<1> QED
  BY <1>1, <1>2, ElementOfSeq

-----------------------------------------------------------------------------
(* The types, and the limits of the buffers.  A label moves the position   *)
(* only when it ends inside the query, and fills name_buf at most; the     *)
(* loop over the labels starts from the beginning of a query.              *)

Fits ==
  /\ name_len <= NameMax
  /\ pc = "recv" => qpos = 1 /\ name_len = 0

\* Continue leaves the state of Init.
LEMMA ContinueTyped == Continue => (TypeOK /\ Fits)'
<1> SUFFICES ASSUME Continue PROVE (TypeOK /\ Fits)'
  OBVIOUS
<1>1. Len(<<>>) = 0
  BY EmptySeq
<1> QED
  BY <1>1, DnsAssumption DEF Continue, TypeOK, Fits

\* The part of a query that is echoed.
LEMMA ReplyFacts ==
  ASSUME TypeOK, NEW end \in 0 .. Len(query), NEW answers \in {0, 1}
  PROVE  LET r == Reply(query, end, answers)
         IN /\ r.question \in Seq(0 .. 255) /\ Len(r.question) = end
            /\ r.answers = answers
<1>1. query \in Seq(0 .. 255) /\ Len(query) \in Nat
  BY QueryFacts
<1>2. end \in Nat /\ \A i \in 1 .. end : query[i] \in 0 .. 255
  BY <1>1, QueryFacts
<1>3. SubSeq(query, 1, end) \in Seq(0 .. 255) /\ Len(SubSeq(query, 1, end)) = end
  BY <1>2, SubSeqProperties
<1> QED
  BY <1>3 DEF Reply

LEMMA TypeInit == Init => TypeOK /\ Fits
<1>1. Len(<<>>) = 0
  BY EmptySeq
<1> QED
  BY <1>1, DnsAssumption DEF Init, TypeOK, Fits

\* A dot and a label, as much of it as there is room for.
LEMMA FilledFacts ==
  ASSUME NEW n \in 0 .. NameMax, NEW label_len \in Nat
  PROVE  Dotted(n) \in 0 .. NameMax /\ Copied(Dotted(n), label_len) \in 0 .. NameMax
<1>1. NameMax \in Nat
  BY DnsAssumption
<1>2. Dotted(n) \in 0 .. NameMax
  BY <1>1 DEF Dotted
<1> DEFINE m == Dotted(n)
<1> HIDE DEF m
<1>3. Copied(m, label_len) \in 0 .. NameMax
  BY <1>1, <1>2 DEF Copied, m
<1> QED
  BY <1>2, <1>3 DEF m

LEMMA LabelTyped == TypeOK /\ Fits /\ Label => (TypeOK /\ Fits)'
<1> SUFFICES ASSUME TypeOK, Fits, Label PROVE (TypeOK /\ Fits)'
  OBVIOUS
<1>1. Len(query) \in Nat /\ query[qpos] \in 0 .. 255 /\ qpos \in 1 .. Len(query)
  BY QueryFacts DEF Label, TypeOK
<1>2. PICK label_len \in Nat : label_len = query[qpos]
  <2>1. \A byte \in 0 .. 255 : byte \in Nat
    OBVIOUS
  <2> QED
    BY <1>1, <2>1, Zenon
<1>3. name_len \in 0 .. NameMax
  BY DnsAssumption DEF TypeOK, Fits
<1>4. /\ Dotted(name_len) \in 0 .. NameMax
      /\ Copied(Dotted(name_len), label_len) \in 0 .. NameMax
  BY <1>3, FilledFacts
<1>5. \/ qpos' = qpos + 1 /\ name_len' \in {name_len, Dotted(name_len)}
      \/ /\ qpos + label_len <= Len(query) /\ qpos' = qpos + 1 + label_len
         /\ name_len' = Copied(Dotted(name_len), label_len)
  BY <1>2, Zenon DEF Label
<1>6. UNCHANGED <<query, reply>> /\ pc = "label" /\ pc' \in {"label", "question"}
  BY DEF Label
<1>7. name_len' \in 0 .. NameMax
  BY <1>3, <1>4, <1>5
<1>8. qpos' \in 1 .. Len(query) + 1
  BY <1>1, <1>5
<1> QED
  BY <1>6, <1>7, <1>8, DnsAssumption DEF TypeOK, Fits

LEMMA AnswerTyped == TypeOK /\ Fits /\ Answer => (TypeOK /\ Fits)'
<1> SUFFICES ASSUME TypeOK, Fits, Answer PROVE (TypeOK /\ Fits)'
  OBVIOUS
<1> DEFINE answers == IF respond_with_a(Type(query, qpos)) THEN 1 ELSE 0
           r == Reply(query, qpos + 3, answers)
<1>1. qpos + 3 \in 0 .. Len(query) /\ answers \in {0, 1}
  BY QueryFacts DEF Answer, TypeOK
<1>2. r.question \in Seq(0 .. 255) /\ r.answers \in {0, 1}
  <2> HIDE DEF answers
  <2> QED
    BY <1>1, ReplyFacts
<1>3. \/ Continue
      \/ pc' = "send" /\ reply' = r /\ UNCHANGED <<query, qpos, name_len>>
  BY DEF Answer
<1> HIDE DEF answers, r
<1> QED
  BY <1>2, <1>3, ContinueTyped DEF TypeOK, Fits

LEMMA TypeStep == TypeOK /\ Fits /\ [Next]_vars => (TypeOK /\ Fits)'
<1> SUFFICES ASSUME TypeOK, Fits, [Next]_vars PROVE (TypeOK /\ Fits)'
  OBVIOUS
<1>1. CASE Receive
  <2>1. CASE Continue
    BY <2>1, ContinueTyped DEF Fits
  <2>2. CASE \E body \in Bodies : query' = body /\ pc' = "label"
             /\ UNCHANGED <<qpos, name_len, reply>>
    <3>1. PICK body \in Bodies : query' = body /\ pc' = "label"
             /\ UNCHANGED <<qpos, name_len, reply>>
      BY <2>2
    <3>2. pc = "recv" /\ qpos = 1 /\ reply = None
      BY <1>1 DEF Receive, TypeOK, Fits
    <3>3. Len(body) \in Nat
      BY <3>1, DnsAssumption, LenProperties
    <3> QED
      BY <3>1, <3>2, <3>3 DEF TypeOK, Fits
  <2> QED
    BY <1>1, <2>1, <2>2 DEF Receive
<1>2. CASE LastLabel
  BY <1>2 DEF LastLabel, TypeOK, Fits
<1>3. CASE RecvError \/ Ignore \/ Send
  BY <1>3, ContinueTyped DEF RecvError, Ignore, Send, Fits
<1>4. CASE UNCHANGED vars
  BY <1>4 DEF vars, TypeOK, Fits
<1> QED
  BY <1>1, <1>2, <1>3, <1>4, LabelTyped, AnswerTyped DEF Next, Serve

\* The types, for every query: in particular the position stays inside the query
\* or one behind it, whatever lengths the query claims its labels to have.
THEOREM TypeCorrect == Spec => []TypeOK
BY TypeInit, TypeStep, PTL DEF Spec

-----------------------------------------------------------------------------
(* The reply is sent only if it fits.                                      *)

Sized == pc = "send" => Size(reply) <= BufMax /\ Len(reply.question) <= Len(query)

LEMMA SizedStep == TypeOK /\ Sized /\ [Next]_vars => Sized'
<1> SUFFICES ASSUME TypeOK, Sized, [Next]_vars PROVE Sized'
  OBVIOUS
<1>1. CASE Answer
  <2> DEFINE answers == IF respond_with_a(Type(query, qpos)) THEN 1 ELSE 0
             r == Reply(query, qpos + 3, answers)
  <2>1. qpos + 3 \in 0 .. Len(query) /\ answers \in {0, 1}
    BY <1>1, QueryFacts DEF Answer, TypeOK
  <2>2. /\ Len(r.question) = qpos + 3 /\ r.answers \in {0, 1}
    <3> HIDE DEF answers
    <3> QED
      BY <2>1, ReplyFacts
  <2>3. \/ Continue
        \/ /\ ~(Size(r) > BufMax)
           /\ pc' = "send" /\ reply' = r /\ UNCHANGED <<query, qpos, name_len>>
    BY <1>1 DEF Answer
  <2> HIDE DEF answers, r
  <2>4. Size(r) \in Nat
    BY <2>1, <2>2 DEF Size, HeaderLen, AnswerLen
  <2>5. ~(Size(r) > BufMax) => Size(r) <= BufMax
    BY <2>4, DnsAssumption
  <2>6. CASE Continue
    BY <2>6 DEF Continue, Sized
  <2>7. CASE ~Continue
    <3>1. pc' = "send" /\ reply' = r /\ query' = query /\ Size(r) <= BufMax
      BY <2>3, <2>5, <2>7
    <3>2. Size(reply)' = Size(r)
      BY <3>1 DEF Size
    <3>3. Len(r.question) <= Len(query)
      BY <2>1, <2>2
    <3> QED
      BY <3>1, <3>2, <3>3 DEF Sized
  <2> QED
    BY <2>6, <2>7
<1>2. CASE UNCHANGED vars
  BY <1>2 DEF vars, Sized, Size
<1>3. CASE Receive \/ RecvError \/ LastLabel \/ Label \/ Ignore \/ Send
  <2>1. pc' # "send"
    BY <1>3 DEF Receive, RecvError, LastLabel, Label, Ignore, Send, Continue
  <2> QED
    BY <2>1 DEF Sized
<1> QED
  BY <1>1, <1>2, <1>3 DEF Next, Serve

\* No index of the three buffers panics, for every query and all lengths of the
\* buffers: the name, the labels and the reply stay inside of them.
THEOREM NoIndexPanics == Spec => []InBounds
<1>1. Init => TypeOK /\ Fits /\ Sized
  BY TypeInit DEF Init, Sized
<1>2. TypeOK /\ Fits /\ Sized /\ [Next]_vars => (TypeOK /\ Fits /\ Sized)'
  BY TypeStep, SizedStep
<1>3. TypeOK /\ Fits /\ Sized => InBounds
  BY QueryFacts DEF TypeOK, Fits, Sized, InBounds
<1> QED
  BY <1>1, <1>2, <1>3, PTL DEF Spec

-----------------------------------------------------------------------------
(* The loop over the labels finds the end of the name.                     *)

\* The lengths of the name that ends at e are at the positions of S.
Labels(q, e, S) ==
  /\ q[e] = 0
  /\ {1, e} \subseteq S
  /\ \A i \in S \ {e} : q[i] > 0 /\ i + q[i] + 1 \in S

OnName ==
  \A e \in 1 .. Len(query) - 4 : \A S \in SUBSET (1 .. e) :
    Labels(query, e, S) =>
      /\ pc = "label" => qpos \in S
      /\ pc = "question" => qpos = e + 1

LEMMA OnNameLabel == TypeOK /\ OnName /\ Label => OnName'
<1> SUFFICES ASSUME TypeOK, OnName, Label PROVE OnName'
  OBVIOUS
<1>0. query' = query
  BY DEF Label
<1> SUFFICES ASSUME NEW e \in 1 .. Len(query') - 4, NEW S \in SUBSET (1 .. e),
                    Labels(query', e, S)
             PROVE  /\ pc' = "label" => qpos' \in S
                    /\ pc' = "question" => qpos' = e + 1
  BY Zenon DEF OnName, Labels
<1>1. pc = "label" /\ qpos \in S /\ Labels(query, e, S) /\ e \in 1 .. Len(query) - 4
  BY <1>0 DEF Label, OnName
<1>2. Len(query) \in Nat /\ query[qpos] \in 0 .. 255 /\ qpos \in 1 .. Len(query)
  BY QueryFacts DEF Label, TypeOK
<1>3. PICK label_len \in Nat : label_len = query[qpos]
  <2>1. \A byte \in 0 .. 255 : byte \in Nat
    OBVIOUS
  <2> QED
    BY <1>2, <2>1, Zenon
<1>4. \/ label_len = 0 /\ pc' = "question" /\ qpos' = qpos + 1
      \/ label_len > 0 /\ qpos + label_len > Len(query)
      \/ /\ label_len > 0 /\ qpos + label_len <= Len(query)
         /\ pc' = pc /\ qpos' = qpos + 1 + label_len
  BY <1>3, Zenon DEF Label
<1>5. CASE qpos = e
  <2>1. label_len = 0
    BY <1>1, <1>3, <1>5 DEF Labels
  <2> QED
    BY <1>4, <1>5, <2>1
<1>6. CASE qpos # e
  <2>1. query[qpos] > 0 /\ qpos + query[qpos] + 1 \in S
    BY <1>1, <1>6 DEF Labels
  <2>2. label_len > 0 /\ qpos + label_len + 1 \in 1 .. e /\ qpos + label_len + 1 \in S
    BY <1>3, <2>1
  <2>3. qpos' = qpos + label_len + 1 /\ pc' = "label"
    BY <1>1, <1>2, <1>4, <2>2
  <2> QED
    BY <2>2, <2>3
<1> QED
  BY <1>5, <1>6

LEMMA OnNameStep == TypeOK /\ Fits /\ OnName /\ [Next]_vars => OnName'
<1> SUFFICES ASSUME TypeOK, Fits, OnName, [Next]_vars PROVE OnName'
  OBVIOUS
<1>1. CASE Receive
  <2>1. pc = "recv" /\ qpos = 1
    BY <1>1 DEF Receive, Fits
  <2>2. pc' = "recv" \/ (pc' = "label" /\ qpos' = 1)
    BY <1>1, <2>1 DEF Receive, Continue
  <2> QED
    BY <2>2 DEF OnName, Labels
<1>2. CASE LastLabel
  <2>1. pc = "label" /\ qpos > Len(query) /\ query' = query
    BY <1>2 DEF LastLabel
  <2>2. ASSUME NEW e \in 1 .. Len(query) - 4, NEW S \in SUBSET (1 .. e),
               Labels(query, e, S)
        PROVE  FALSE
    <3>1. qpos \in 1 .. e
      BY <2>1, <2>2 DEF OnName
    <3> QED
      BY <2>1, <3>1, QueryFacts DEF TypeOK
  <2> QED
    BY <2>1, <2>2 DEF OnName, Labels
<1>3. CASE RecvError \/ Ignore \/ Answer \/ Send
  <2>1. pc' \in {"recv", "send"}
    BY <1>3 DEF RecvError, Ignore, Answer, Send, Continue
  <2> QED
    BY <2>1 DEF OnName
<1>4. CASE UNCHANGED vars
  BY <1>4 DEF vars, OnName, Labels
<1> QED
  BY <1>1, <1>2, <1>3, <1>4, OnNameLabel DEF Next, Serve

LEMMA AnswerStep ==
  ASSUME TypeOK, OnName, Next, pc = "question",
         NEW e \in 1 .. Len(query) - 4, NameEndsAt(query, e),
         Size(Expected(query, e)) <= BufMax
  PROVE  reply' = Expected(query, e)
<1>1. PICK S \in SUBSET (1 .. e) : Labels(query, e, S)
  BY DEF NameEndsAt, Labels
<1>2. qpos = e + 1 /\ Len(query) \in Nat
  BY <1>1, QueryFacts DEF OnName
<1>3. qpos + 3 = e + 4 /\ e + 4 <= Len(query) /\ ~(qpos + 3 > Len(query))
  BY <1>2
<1>4. Answer
  BY <1>3 DEF Next, Serve, Receive, RecvError, LastLabel, Label, Ignore, Send
<1>5. Reply(query, qpos + 3, IF respond_with_a(Type(query, qpos)) THEN 1 ELSE 0)
        = Expected(query, e)
  BY <1>2, <1>3 DEF Expected
<1> DEFINE r == Expected(query, e)
<1>6. ~(Size(r) > BufMax)
  <2> DEFINE answers == IF respond_with_a(Type(query, e + 1)) THEN 1 ELSE 0
  <2>1. e + 4 \in 0 .. Len(query) /\ answers \in {0, 1}
    BY <1>2
  <2>2. Len(r.question) = e + 4 /\ r.answers \in {0, 1}
    <3> HIDE DEF answers
    <3>1. r = Reply(query, e + 4, answers)
      BY DEF Expected, answers
    <3> QED
      BY <2>1, <3>1, ReplyFacts
  <2>3. Size(r) \in Nat
    <3> HIDE DEF r, answers
    <3> QED
      BY <2>1, <2>2 DEF Size, HeaderLen, AnswerLen
  <2> HIDE DEF r
  <2> QED
    BY <2>3, DnsAssumption DEF r
<1>7. \/ Size(r) > BufMax
      \/ reply' = r
  <2> DEFINE sent == Reply(query, qpos + 3,
                           IF respond_with_a(Type(query, qpos)) THEN 1 ELSE 0)
  <2>1. Size(sent) > BufMax \/ reply' = sent
    BY <1>4 DEF Answer
  <2>2. sent = r
    BY <1>5
  <2> HIDE DEF sent, r
  <2> QED
    BY <2>1, <2>2
<1> QED
  BY <1>6, <1>7

\* Every question is answered, with itself and, for an A or ANY record, the one
\* address: for every query whose reply fits the buffer.
THEOREM QuestionsAnswered == Spec => Answers
<1> DEFINE Step ==
      pc = "question" =>
        \A e \in 1 .. Len(query) - 4 :
          NameEndsAt(query, e) /\ Size(Expected(query, e)) <= BufMax
            => reply' = Expected(query, e)
<1>1. Init => TypeOK /\ Fits /\ OnName
  BY TypeInit DEF Init, OnName
<1>2. TypeOK /\ Fits /\ OnName /\ [Next]_vars => (TypeOK /\ Fits /\ OnName)'
  BY TypeStep, OnNameStep
<1>3. TypeOK /\ OnName /\ [Next]_vars => [Step]_vars
  BY AnswerStep
<1>4. Step <=>
        (pc = "question" =>
           \A e \in 1 .. Len(query) - 4 :
             NameEndsAt(query, e) /\ Size(Expected(query, e)) <= BufMax
               => reply' = Expected(query, e))
  BY Zenon
<1> HIDE DEF Step
<1> QED
  BY <1>1, <1>2, <1>3, <1>4, PTL DEF Spec, Answers

-----------------------------------------------------------------------------
(* The turns that are left.  That run_dns comes back to its socket needs    *)
(* fairness; that it has a bounded way to go is a safety property.          *)

TurnsLeft ==
  CASE pc = "recv"     -> 0
    [] pc = "send"     -> 1
    [] pc = "question" -> 2
    [] pc = "label"    -> Len(query) + 4 - qpos

Shrinks == TurnsLeft \in Nat /\ TurnsLeft' \in Nat /\ TurnsLeft' < TurnsLeft

LEMMA ServeShrinks == TypeOK /\ Serve => Shrinks
<1> SUFFICES ASSUME TypeOK, Serve PROVE Shrinks
  OBVIOUS
<1>1. Len(query) \in Nat /\ query \in Seq(0 .. 255) /\ qpos \in 1 .. Len(query) + 1
  BY QueryFacts DEF TypeOK
<1>2. CASE LastLabel
  BY <1>1, <1>2 DEF LastLabel, Shrinks, TurnsLeft
<1>3. CASE Label
  <2>1. pc = "label" /\ query' = query /\ qpos <= Len(query)
    BY <1>3 DEF Label
  <2>2. TurnsLeft = Len(query) + 4 - qpos /\ TurnsLeft \in Nat
    BY <1>1, <2>1 DEF TurnsLeft
  <2>3. PICK label_len \in Nat : label_len = query[qpos]
    <3>1. query[qpos] \in 0 .. 255
      BY <1>1, <2>1, QueryFacts
    <3>2. \A byte \in 0 .. 255 : byte \in Nat
      OBVIOUS
    <3> QED
      BY <3>1, <3>2, Zenon
  <2>4. \/ pc' = "question"
        \/ /\ pc' = "label" /\ qpos' = qpos + 1 + label_len
           /\ qpos + label_len <= Len(query)
    BY <1>3, <2>1, <2>3, Zenon DEF Label
  <2>5. CASE pc' = "question"
    BY <1>1, <2>1, <2>2, <2>5 DEF Shrinks, TurnsLeft
  <2>6. CASE /\ pc' = "label" /\ qpos' = qpos + 1 + label_len
             /\ qpos + label_len <= Len(query)
    <3>1. TurnsLeft' = Len(query) + 4 - qpos'
      BY <2>1, <2>6 DEF TurnsLeft
    <3>2. qpos' \in Nat /\ qpos' > qpos /\ qpos' <= Len(query) + 1
      BY <1>1, <2>3, <2>6
    <3>3. \A n, q, r \in Nat :
            r > q /\ r <= n + 1 => n + 4 - r \in Nat /\ n + 4 - r < n + 4 - q
      OBVIOUS
    <3>4. TurnsLeft' \in Nat /\ TurnsLeft' < TurnsLeft
      <4>1. qpos \in Nat
        BY <1>1
      <4> QED
        BY <1>1, <2>2, <3>1, <3>2, <3>3, <4>1, Zenon
    <3> QED
      BY <2>2, <3>4, Zenon DEF Shrinks
  <2> QED
    BY <2>4, <2>5, <2>6
<1>4. CASE Ignore \/ Answer \/ Send
  <2>1. pc \in {"question", "send"} /\ pc' \in {"recv", "send"}
        /\ (pc = "send" => pc' = "recv")
    BY <1>4 DEF Ignore, Answer, Send, Continue
  <2> QED
    BY <2>1 DEF Shrinks, TurnsLeft
<1> QED
  BY <1>2, <1>3, <1>4 DEF Serve

\* The loop over the labels ends: each turn that run_dns takes for a query, of
\* any length and with any lengths in it, leaves fewer turns than before, and
\* n + 3 are left when a query of n bytes comes (dns.rs:47-63).
THEOREM LabelLoopEnds ==
  Spec => [][/\ Serve => Shrinks
             /\ Receive => TurnsLeft' \in {0, Len(query') + 3}]_vars
<1> DEFINE Turn == /\ Serve => Shrinks
                   /\ Receive => TurnsLeft' \in {0, Len(query') + 3}
<1>1. TypeOK /\ Fits /\ Receive => TurnsLeft' \in {0, Len(query') + 3}
  <2> SUFFICES ASSUME TypeOK, Fits, Receive PROVE TurnsLeft' \in {0, Len(query') + 3}
    OBVIOUS
  <2>1. CASE Continue
    BY <2>1 DEF Continue, TurnsLeft
  <2>2. CASE ~Continue
    <3>1. PICK body \in Bodies : pc' = "label" /\ query' = body /\ qpos' = 1
      BY <2>2 DEF Receive, Fits
    <3>2. Len(query') \in Nat
      BY <3>1, DnsAssumption
    <3> QED
      BY <3>1, <3>2 DEF TurnsLeft
  <2> QED
    BY <2>1, <2>2
<1>2. TypeOK /\ Fits => Turn
  BY <1>1, ServeShrinks
<1>3. Turn <=> /\ Serve => Shrinks
               /\ Receive => TurnsLeft' \in {0, Len(query') + 3}
  BY Zenon
<1>4. Init => TypeOK /\ Fits
  BY TypeInit
<1>5. TypeOK /\ Fits /\ [Next]_vars => (TypeOK /\ Fits)'
  BY TypeStep
<1> HIDE DEF Turn
<1> QED
  BY <1>2, <1>3, <1>4, <1>5, PTL DEF Spec
=============================================================================
