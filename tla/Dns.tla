--------------------------------- MODULE Dns ---------------------------------
(***************************************************************************)
(* run_dns (esp-services/src/dns.rs): the captive portal answers the       *)
(* first question of every query for an IPv4 address with the gateway's,   *)
(* and every other with no answer.  A query is what follows its 12 bytes   *)
(* of header, and which of the tests on the header it meets; positions     *)
(* count from 1 behind the header.  One step is one turn of the loop over  *)
(* the labels, or what is between two awaits.                              *)
(***************************************************************************)
EXTENDS Integers, Sequences

CONSTANTS
  Bodies,    \* the contents of queries behind the header: sequences of bytes
  NameMax,   \* the length of name_buf: 128
  BufMax,    \* the length of buf and of resp: 512
  TypeA, TypeAny,  \* the types answered with an address: 1 and 255
  None       \* no query, no reply

HeaderLen == 12
AnswerLen == 16

ASSUME DnsAssumption ==
  /\ Bodies \subseteq Seq(0 .. 255)
  /\ \A b \in Bodies : HeaderLen + Len(b) <= BufMax
  /\ NameMax \in Nat
  /\ BufMax \in Nat
  /\ TypeA \in Nat /\ TypeAny \in Nat

VARIABLES
  pc,        \* where run_dns is
  query,     \* the bytes behind the header
  qpos,      \* the position in the query
  name_len,  \* how much of name_buf is filled
  reply      \* what resp holds: the question echoed and the number of answers

vars == <<pc, query, qpos, name_len, reply>>

\* What a datagram's header can be to the tests on it.
Headers == {"short", "response", "no question", "question"}

Init ==
  /\ pc = "recv"
  /\ query = <<>>
  /\ qpos = 1
  /\ name_len = 0
  /\ reply = None

\* continue: the query is dropped, or has been answered.
Continue ==
  /\ pc' = "recv"
  /\ query' = <<>>
  /\ qpos' = 1
  /\ name_len' = 0
  /\ reply' = None

Receive ==
  /\ pc = "recv"
  /\ \E header \in Headers, body \in Bodies :
       IF header = "question"
       THEN pc' = "label" /\ query' = body /\ UNCHANGED <<qpos, name_len, reply>>
       ELSE Continue

RecvError ==
  /\ pc = "recv"
  /\ Continue

-----------------------------------------------------------------------------
(* The loop over the labels of the name.                                   *)

\* Faulty variant: the dot is put behind the end of name_buf.
Dotted_Anyway(n) == IF n > 0 THEN n + 1 ELSE n

Dotted(n) == IF n > 0 /\ n < NameMax THEN n + 1 ELSE n

Copied(n, label_len) == IF n + label_len < NameMax THEN n + label_len ELSE NameMax

LastLabel ==
  /\ pc = "label"
  /\ qpos > Len(query)
  /\ pc' = "question"
  /\ UNCHANGED <<query, qpos, name_len, reply>>

\* Faulty variant: the position moves on although the query ends before.
Label_PastEnd ==
  /\ pc = "label" /\ qpos <= Len(query)
  /\ LET label_len == query[qpos]
     IN IF label_len = 0
        THEN /\ pc' = "question"
             /\ qpos' = qpos + 1
             /\ UNCHANGED name_len
        ELSE /\ UNCHANGED pc
             /\ qpos' = qpos + 1 + label_len
             /\ name_len' = Copied(Dotted(name_len), label_len)
  /\ UNCHANGED <<query, reply>>

\* Faulty variant: the length byte is not counted when the label is skipped.
Label_OneShort ==
  /\ pc = "label" /\ qpos <= Len(query)
  /\ LET label_len == query[qpos]
         dotted == Dotted(name_len)
     IN \/ /\ label_len = 0
           /\ pc' = "question"
           /\ qpos' = qpos + 1
           /\ UNCHANGED name_len
        \/ /\ label_len > 0 /\ qpos + label_len > Len(query)
           /\ pc' = "question"
           /\ qpos' = qpos + 1
           /\ name_len' = dotted
        \/ /\ label_len > 0 /\ qpos + label_len <= Len(query)
           /\ qpos' = qpos + label_len
           /\ name_len' = Copied(dotted, label_len)
           /\ UNCHANGED pc
  /\ UNCHANGED <<query, reply>>

\* Faulty variant: a label that runs past the query is looked at again.
Label_Again ==
  /\ pc = "label" /\ qpos <= Len(query)
  /\ LET label_len == query[qpos]
     IN \/ /\ label_len = 0
           /\ pc' = "question"
           /\ qpos' = qpos + 1
           /\ UNCHANGED name_len
        \/ /\ label_len > 0 /\ qpos + label_len > Len(query)
           /\ UNCHANGED <<pc, qpos, name_len>>
        \/ /\ label_len > 0 /\ qpos + label_len <= Len(query)
           /\ qpos' = qpos + 1 + label_len
           /\ name_len' = Copied(Dotted(name_len), label_len)
           /\ UNCHANGED pc
  /\ UNCHANGED <<query, reply>>

Label ==
  /\ pc = "label" /\ qpos <= Len(query)
  /\ LET label_len == query[qpos]
         dotted == Dotted(name_len)
     IN \/ /\ label_len = 0
           /\ pc' = "question"
           /\ qpos' = qpos + 1
           /\ UNCHANGED name_len
        \/ /\ label_len > 0 /\ qpos + label_len > Len(query)
           /\ pc' = "question"
           /\ qpos' = qpos + 1
           /\ name_len' = dotted
        \/ /\ label_len > 0 /\ qpos + label_len <= Len(query)
           /\ qpos' = qpos + 1 + label_len
           /\ name_len' = Copied(dotted, label_len)
           /\ UNCHANGED pc
  /\ UNCHANGED <<query, reply>>

-----------------------------------------------------------------------------
(* The reply.                                                              *)

Type(q, at) == 256 * q[at] + q[at + 1]
respond_with_a(qtype) == qtype \in {TypeA, TypeAny}
Reply(q, end, answers) == [question |-> SubSeq(q, 1, end), answers |-> answers]
Size(r) == HeaderLen + Len(r.question) + r.answers * AnswerLen

Ignore ==
  /\ pc = "question" /\ qpos + 3 > Len(query)
  /\ Continue

Answer ==
  /\ pc = "question" /\ qpos + 3 <= Len(query)
  /\ LET r == Reply(query, qpos + 3,
                    IF respond_with_a(Type(query, qpos)) THEN 1 ELSE 0)
     IN IF Size(r) > BufMax
        THEN Continue
        ELSE pc' = "send" /\ reply' = r /\ UNCHANGED <<query, qpos, name_len>>

\* send_to().await: an error is only logged.
Send ==
  /\ pc = "send"
  /\ Continue

Serve == LastLabel \/ Label \/ Ignore \/ Answer \/ Send

Next == Receive \/ RecvError \/ Serve

(* Once a query has come, nothing but the network stack's room to send     *)
(* holds run_dns up; queries need not come.                                *)
Spec == Init /\ [][Next]_vars /\ WF_vars(Serve)

-----------------------------------------------------------------------------
(* The types.                                                              *)
TypeOK ==
  /\ pc \in {"recv", "label", "question", "send"}
  /\ query \in Bodies \cup {<<>>}
  /\ qpos \in 1 .. Len(query) + 1
  /\ name_len \in Nat
  /\ pc = "send" => reply.question \in Seq(0 .. 255) /\ reply.answers \in {0, 1}
  /\ pc # "send" => reply = None

(* No index of the three buffers panics, whatever the query holds: the     *)
(* name that is copied fits name_buf (copy_end - name_len would be         *)
(* negative), a label is read inside the query, and the reply fits resp.   *)
InBounds ==
  /\ name_len <= NameMax
  /\ qpos <= Len(query) + 1
  /\ pc = "send" => Size(reply) <= BufMax /\ Len(reply.question) <= Len(query)

\* A name of labels, each behind its length, ends at the zero byte at e: the
\* lengths are at the positions of S.
NameEndsAt(q, e) ==
  /\ q[e] = 0
  /\ \E S \in SUBSET (1 .. e) :
       /\ {1, e} \subseteq S
       /\ \A i \in S \ {e} : q[i] > 0 /\ i + q[i] + 1 \in S

\* What is to be sent for a query that starts with a question.
Expected(q, e) ==
  Reply(q, e + 4, IF respond_with_a(Type(q, e + 1)) THEN 1 ELSE 0)

(* "answers every A-record query with gw_ip. For AAAA (IPv6) queries,      *)
(* returns NOERROR with no answers" (dns.rs:7): a query with a question is *)
(* never dropped and its reply echoes that question, neither more nor      *)
(* less, if the reply fits.                                                *)
Answers ==
  [][pc = "question" =>
       \A e \in 1 .. Len(query) - 4 :
         NameEndsAt(query, e) /\ Size(Expected(query, e)) <= BufMax
           => reply' = Expected(query, e)]_vars

(* No query keeps run_dns from the next one.                               *)
Serves == []<>(pc = "recv")

(* Only questions are answered.                                            *)
OnlyQuestionsAnswered ==
  pc = "send" => \E e \in 1 .. Len(query) - 4 : NameEndsAt(query, e)
==============================================================================
