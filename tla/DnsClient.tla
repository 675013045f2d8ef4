----------------------------- MODULE DnsClient -----------------------------
(* DNS/dns.c and DNS/main.c: one question, one answer, byte by byte where  *)
(* the parser goes byte by byte. The header is a record; positions count   *)
(* from the byte after it. The memory behind a datagram holds old bytes.   *)
EXTENDS Integers, Sequences, SequencesExt, FiniteSets

CONSTANTS Domains,     \* names asked for: the lengths of their labels
          NameBuf,     \* the size of the buffer a name is encoded in
          Messages,    \* what a server may answer
          Cuts,        \* how many bytes may be missing at the end of a datagram
          Junk         \* what the memory behind it may hold
\* The form of a name and of a record, in a message that a server writes.
Byte == 0..255
Word == 0..65535
Names == [labels : Seq(1..63), pointer : BOOLEAN]
RecordForms == [name : Names, type : Word, class : Word, data : Seq(Byte)]
ASSUME DnsAssumption ==
  /\ Domains \subseteq Seq(Nat) /\ NameBuf \in Nat \ {0}
  /\ Messages \subseteq [ours : BOOLEAN, rcode : 0..15, questions : Seq(Names), answers : Seq(RecordForms)]
  /\ Cuts \subseteq Nat /\ Junk \subseteq Byte

VARIABLES pc,          \* ask | wait | header | questions | answers | done
          qname, msg,  \* the encoded name; the message that came
          body, junk,  \* its bytes, and what follows them
          pos, left,   \* where the parser is, and how often its loop has to run
          printed, result
vars == <<pc, qname, msg, body, junk, pos, left, printed, result>>
----------------------------------------------------------------------------
(* The form of a message, as the servers write it. *)

Two(n) == <<n \div 256, n % 256>>
Letter == 120
Label(n) == <<n>> \o [i \in 1..n |-> Letter]
\* A name ends with a zero or with a pointer to an earlier name.
Name(n) == FlattenSeq([i \in DOMAIN n.labels |-> Label(n.labels[i])])
             \o IF n.pointer THEN <<192, 12>> ELSE <<0>>
Ttl == <<0, 0, 0, 60>>
Record(r) == Name(r.name) \o Two(r.type) \o Two(r.class) \o Ttl \o Two(Len(r.data)) \o r.data
Body(m) == FlattenSeq([i \in DOMAIN m.questions |-> Name(m.questions[i]) \o Two(1) \o Two(1)])
             \o FlattenSeq([i \in DOMAIN m.answers |-> Record(m.answers[i])])
IsAddress(r) == r.type = 1 /\ r.class = 1 /\ Len(r.data) = 4
Addresses(answers) ==
  FlattenSeq([i \in DOMAIN answers |-> IF IsAddress(answers[i]) THEN <<answers[i].data>> ELSE <<>>])
----------------------------------------------------------------------------
(* dns.c *)

\* Wrong: no room is left for the last zero.
RoomForLabel(room, len) == room > len
Room(room, len) == room > len + 1

\* The encoded name, or nothing if it does not fit.
encode_domain_name(labels) ==
  LET enc[i \in 0..Len(labels)] ==
        IF i = 0 THEN <<>>
        ELSE IF enc[i-1] = <<-1>> \/ ~Room(NameBuf - Len(enc[i-1]), labels[i]) THEN <<-1>>
        ELSE enc[i-1] \o Label(labels[i])
  IN IF enc[Len(labels)] = <<-1>> THEN <<>> ELSE enc[Len(labels)] \o <<0>>

\* Wrong: a pointer is taken for one byte.
SkipsByte(p) == p + 1
PastPointer(p) == p + 2
skip_dns_name(p0) ==
  LET skip[p \in Nat] == IF p >= Len(body) THEN -1
                         ELSE LET c == body[p + 1] IN
                              IF c = 0 THEN p + 1
                              ELSE IF c >= 192 THEN PastPointer(p)
                              ELSE skip[p + c + 1]
  IN skip[p0]

At(p) == IF p < Len(body) THEN body[p + 1] ELSE junk
U16(p) == At(p) * 256 + At(p + 1)
----------------------------------------------------------------------------
Init ==
  /\ pc = "ask" /\ qname = <<>> /\ msg = <<>> /\ body = <<>> /\ junk = 0
  /\ pos = 0 /\ left = 0 /\ printed = <<>> /\ result = "none"

End(r) == pc' = "done" /\ result' = r

\* main(): encode, build, send; a name that does not fit, or a failing sendto(), ends it.
Ask ==
  /\ pc = "ask"
  /\ \E d \in Domains :
       /\ qname' = encode_domain_name(d)
       /\ \/ End("failed")
          \/ qname' # <<>> /\ pc' = "wait" /\ UNCHANGED result
  /\ UNCHANGED <<msg, body, junk, pos, left, printed>>

\* receive_dns_response(): what does not fit in the buffer is lost.
Receive ==
  /\ pc = "wait"
  /\ \E m \in Messages, cut \in Cuts, j \in Junk :
       /\ cut <= Len(Body(m))
       /\ msg' = m /\ junk' = j /\ body' = SubSeq(Body(m), 1, Len(Body(m)) - cut)
  /\ pc' = "header"
  /\ UNCHANGED <<qname, pos, left, printed, result>>

TimeOut == pc = "wait" /\ End("failed") /\ UNCHANGED <<qname, msg, body, junk, pos, left, printed>>

\* main() does not look at -1: the parser then reads what is in the memory.
ReceiveFails == pc = "wait" /\ (End("failed") \/ End("ok"))
                /\ UNCHANGED <<qname, msg, body, junk, pos, left, printed>>

\* parse_dns_reponse(): the header.
ParseHeader ==
  /\ pc = "header"
  /\ IF msg.rcode = 3 THEN End("ok") /\ UNCHANGED left
     ELSE IF ~msg.ours THEN End("failed") /\ UNCHANGED left
     ELSE pc' = "questions" /\ left' = Len(msg.questions) /\ UNCHANGED result
  /\ UNCHANGED <<qname, msg, body, junk, pos, printed>>

SkipQuestion ==
  /\ pc = "questions"
  /\ IF left = 0 THEN pc' = "answers" /\ left' = Len(msg.answers) /\ UNCHANGED <<pos, result>>
     ELSE IF skip_dns_name(pos) < 0 THEN End("failed") /\ UNCHANGED <<pos, left>>
     ELSE pos' = skip_dns_name(pos) + 4 /\ left' = left - 1 /\ UNCHANGED <<pc, result>>
  /\ UNCHANGED <<qname, msg, body, junk, printed>>

ReadRecord ==
  /\ pc = "answers" /\ left > 0
  /\ LET p == skip_dns_name(pos)
         rdlength == U16(p + 8)
     IN IF p < 0 THEN End("failed") /\ UNCHANGED <<pos, left, printed>>
        ELSE /\ printed' = IF U16(p) = 1 /\ U16(p + 2) = 1 /\ rdlength = 4
                           THEN Append(printed, [i \in 1..4 |-> At(p + 9 + i)]) ELSE printed
             /\ pos' = p + 10 + rdlength /\ left' = left - 1
             /\ UNCHANGED <<pc, result>>
  /\ UNCHANGED <<qname, msg, body, junk>>

Finish == pc = "answers" /\ left = 0 /\ End("ok")
          /\ UNCHANGED <<qname, msg, body, junk, pos, left, printed>>
Rest == pc = "done" /\ UNCHANGED vars

Next == Ask \/ Receive \/ TimeOut \/ ReceiveFails
        \/ ParseHeader \/ SkipQuestion \/ ReadRecord \/ Finish \/ Rest
Spec == Init /\ [][Next]_vars
----------------------------------------------------------------------------
\* The encoded name never runs over the buffer main() gives it (dns.c:57): the
\* length, the letters and the last zero of every label are all counted.
NameFits == Len(qname) <= NameBuf

\* The answers that have come whole, if the first n bytes have come.
FirstAnswers(m, k) == [m EXCEPT !.answers = SubSeq(m.answers, 1, k)]
Whole(m, n) == {k \in DOMAIN m.answers : Len(Body(FirstAnswers(m, k))) <= n}
\* What is printed are the addresses of the answers, in order and under whatever
\* names; of a message that was cut, at most one more is made up from old bytes;
\* and an answer that came whole is printed to its end (dns.c:151-194).
PrintsAddresses ==
  msg # <<>> =>
    LET whole == Addresses(SubSeq(msg.answers, 1, Cardinality(Whole(msg, Len(body)))))
        common == IF Len(printed) < Len(whole) THEN Len(printed) ELSE Len(whole)
    IN /\ SubSeq(printed, 1, common) = SubSeq(whole, 1, common)
       /\ Len(printed) <= Len(whole) + 1
       /\ pc = "done" /\ body = Body(msg) /\ msg.ours /\ msg.rcode # 3
            => result = "ok" /\ printed = Addresses(msg.answers)

\* What main() sends is in bounds, and what it prints is what was answered.
Sound == NameFits /\ PrintsAddresses
=============================================================================
