----------------------------- MODULE TrailProofs ------------------------------
(* What a reviewer is left with, for any rows, processes, failures and       *)
(* restarts: the chained audit log, whose verified part is a history that    *)
(* happened and whose first bad line was harmed, the copy of it on the wire, *)
(* and the document of approval requests, which holds nothing invented.      *)
EXTENDS Audit, Forward, Approvals, FiniteSetTheorems, SequenceTheorems, WellFoundedInduction, TLAPS

-----------------------------------------------------------------------------
(* The audit log.                                                            *)

(* Every row there is carries the hash of one that was emitted.              *)
RowsEmitted ==
    /\ \A i \in DOMAIN lines : lines[i] # Torn => lines[i].hash \in emitted
    /\ \A i \in DOMAIN rest : rest[i].hash \in emitted
    /\ log.up => \A i \in DOMAIN log.pending : log.pending[i].hash \in emitted

(* Line i is before the first line that anything happened to.                *)
Untouched(i) == harm = 0 \/ i < harm

(* The lines that are still to come.                                         *)
ToCome == IF log.up THEN Len(log.pending) ELSE 0

(* The lines before the first one that anything happened to verify.          *)
Intact ==
    /\ \A i \in DOMAIN lines : Untouched(i) => Verifies(lines, i)
    /\ harm <= Len(lines) + ToCome + 1

(* The hash that what follows these rows is chained to.                      *)
EndOf(chain, start) == IF chain = <<>> THEN start ELSE chain[Len(chain)].hash

(* Row i of what is to be written behind a file that ends at a hash.         *)
Follows(pending, i, start) ==
    /\ pending[i].hash = Digest(pending[i].prev, pending[i].body)
    /\ pending[i].prev = IF i = 1 THEN start ELSE pending[i - 1].hash

(* What is to be written continues the file as far as nothing happened to    *)
(* it or them, and of the first row a part may be there.                     *)
Continues ==
    /\ log.up => /\ log.begun => log.pending # <<>>
                 /\ Untouched(Len(lines) + 1) => rest = IF log.begun THEN <<log.pending[1]>> ELSE <<>>
                 /\ harm = 0 => log.prev = EndOf(log.pending, EndOf(lines, Genesis))
                 /\ \A i \in DOMAIN log.pending :
                       Untouched(Len(lines) + i) => Follows(log.pending, i, EndOf(lines, Genesis))
    /\ ~log.up /\ harm = 0 => rest = <<>>

(* The invariant.                                                            *)
AuditInv == AuditTypeOK /\ RowsEmitted /\ Intact /\ Continues

(* A line cut short is no row, and a log at work is not one at rest.         *)
LEMMA NotAlike == Torn \notin Row /\ NotRunning \notin Running /\ ~NotRunning.up
  <1>1. ASSUME NEW r \in Row, r = Torn PROVE FALSE
    <2>1. DOMAIN r = {"prev", "body", "hash"} /\ DOMAIN Torn = {"prev"}
      BY DEF Row, Torn
    <2> QED
      BY <1>1, <2>1
  <1> QED
    BY <1>1 DEF NotRunning, Running

(* The least of a set of numbers.                                            *)
LEMMA LeastIs ==
  ASSUME NEW S \in SUBSET Nat, S # {}
  PROVE  \E i \in S : \A j \in S : i <= j
  <1> DEFINE R == OpToRel(<, Nat)
  <1>1. IsWellFoundedOn(R, Nat)
    BY NatLessThanWellFounded
  <1>2. \A i, j \in S : j < i => <<j, i>> \in R
    BY DEF OpToRel
  <1> HIDE DEF R
  <1>3. PICK i \in S : \A j \in S : ~ <<j, i>> \in R
    BY <1>1, WFMin, Zenon
  <1>4. \A j \in S : j \in Nat /\ ~ (j < i)
    BY <1>2, <1>3
  <1>5. \A j \in S : i <= j
    BY <1>4
  <1> QED
    BY <1>5

(* The greatest of a set of numbers that has a bound.                        *)
LEMMA MaxIs ==
  ASSUME NEW n \in Nat, NEW S \in SUBSET 1..n, S # {}
  PROVE  Max(S) \in S /\ \A j \in S : j <= Max(S)
  <1> DEFINE B == {m \in Nat : \A j \in S : j <= m}
  <1>1. B \in SUBSET Nat /\ n \in B
    OBVIOUS
  <1>2. PICK m \in B : \A k \in B : m <= k
    <2> HIDE DEF B
    <2> QED
      BY <1>1, LeastIs
  <1>3. m \in S
    <2>1. SUFFICES ASSUME m \notin S PROVE FALSE
      OBVIOUS
    <2>2. \A j \in S : j <= m - 1 /\ m - 1 \in Nat
      BY <2>1
    <2>3. m - 1 \in B
      BY <2>2
    <2> QED
      BY <1>2, <2>3
  <1>4. \E x \in S : \A y \in S : x >= y
    BY <1>3
  <1>5. Max(S) \in S /\ \A y \in S : Max(S) >= y
    BY <1>4 DEF Max
  <1> QED
    BY <1>5

(* The fields of a log of which some are changed: a row is chained,          *)
LEMMA LogChains ==
  ASSUME NEW l \in Running, NEW a \in Histories, NEW p \in Seq(Row),
         NEW m, m = [l EXCEPT !.prev = a, !.pending = p, !.does = "write"]
  PROVE  m \in Running /\ m.prev = a /\ m.pending = p /\ m.begun = l.begun /\ m.up
  BY DEF Running

(* ... the writing of one begins,                                            *)
LEMMA LogBegins ==
  ASSUME NEW l \in Running, NEW m, m = [l EXCEPT !.begun = TRUE]
  PROVE  m \in Running /\ m.prev = l.prev /\ m.pending = l.pending /\ m.begun /\ m.up
  BY DEF Running

(* ... it is written,                                                        *)
LEMMA LogWrites ==
  ASSUME NEW l \in Running, NEW p \in Seq(Row), NEW m, m = [l EXCEPT !.begun = FALSE, !.pending = p]
  PROVE  m \in Running /\ m.prev = l.prev /\ m.pending = p /\ ~m.begun /\ m.up
  BY DEF Running

(* ... or the process does something else.                                   *)
LEMMA LogDoes ==
  ASSUME NEW l \in Running, NEW d \in {"wait", "write", "exit"}, NEW m, m = [l EXCEPT !.does = d]
  PROVE  m \in Running /\ m.prev = l.prev /\ m.pending = l.pending /\ m.begun = l.begun /\ m.up
  BY DEF Running

(* What removing an element does to the others.                              *)
LEMMA RemoveIs ==
  ASSUME NEW S, NEW s \in Seq(S), NEW i \in DOMAIN s
  PROVE  /\ RemoveAt(s, i) \in Seq(S) /\ Len(RemoveAt(s, i)) = Len(s) - 1
         /\ \A j \in 1..Len(s) - 1 : RemoveAt(s, i)[j] = IF j < i THEN s[j] ELSE s[j + 1]
  <1>1. Len(s) \in Nat /\ DOMAIN s = 1..Len(s) /\ \A j \in 1..Len(s) : s[j] \in S
    BY LenProperties
  <1> DEFINE A == SubSeq(s, 1, i - 1)
             B == SubSeq(s, i + 1, Len(s))
  <1>2. /\ A \in Seq(S) /\ Len(A) = i - 1 /\ \A j \in 1..i - 1 : A[j] = s[j]
    <2>1. 1 \in Int /\ i - 1 \in Int /\ \A j \in 1..i - 1 : s[j] \in S
      BY <1>1
    <2>2. /\ A \in Seq(S) /\ Len(A) = IF 1 <= i - 1 THEN (i - 1) - 1 + 1 ELSE 0
          /\ \A j \in 1..(i - 1) - 1 + 1 : A[j] = s[1 + j - 1]
      BY <2>1, SubSeqProperties
    <2> QED
      BY <1>1, <2>2
  <1>3. /\ B \in Seq(S) /\ Len(B) = Len(s) - i /\ \A j \in 1..Len(s) - i : B[j] = s[i + j]
    <2>1. i + 1 \in Int /\ Len(s) \in Int /\ \A j \in i + 1..Len(s) : s[j] \in S
      BY <1>1
    <2>2. /\ B \in Seq(S) /\ Len(B) = IF i + 1 <= Len(s) THEN Len(s) - (i + 1) + 1 ELSE 0
          /\ \A j \in 1..Len(s) - (i + 1) + 1 : B[j] = s[(i + 1) + j - 1]
      BY <2>1, SubSeqProperties
    <2>3. i \in Nat /\ i <= Len(s)
      BY <1>1
    <2>4. Len(s) - (i + 1) + 1 = Len(s) - i /\ (i + 1 <= Len(s) \/ Len(s) - i = 0)
      BY <1>1, <2>3
    <2>5. Len(B) = Len(s) - i
      BY <2>2, <2>4
    <2>6. ASSUME NEW j \in 1..Len(s) - i PROVE B[j] = s[i + j]
      <3>1. j \in Int /\ (i + 1) + j - 1 = i + j
        BY <1>1, <2>3
      <3> QED
        BY <2>2, <2>4, <3>1
    <2> QED
      BY <2>2, <2>5, <2>6
  <1> HIDE DEF A, B
  <1>4. /\ A \o B \in Seq(S) /\ Len(A \o B) = Len(A) + Len(B)
        /\ \A j \in 1..Len(A) + Len(B) : (A \o B)[j] = IF j <= Len(A) THEN A[j] ELSE B[j - Len(A)]
    BY <1>2, <1>3, ConcatProperties
  <1>5. RemoveAt(s, i) = A \o B
    BY DEF RemoveAt, A, B
  <1>6. Len(A) + Len(B) = Len(s) - 1
    BY <1>1, <1>2, <1>3
  <1>7. ASSUME NEW j \in 1..Len(s) - 1 PROVE (A \o B)[j] = IF j < i THEN s[j] ELSE s[j + 1]
    <2>1. CASE j < i
      <3>1. j \in 1..i - 1 /\ j <= Len(A)
        BY <1>1, <1>2, <2>1
      <3> QED
        BY <1>2, <1>4, <1>6, <2>1, <3>1
    <2>2. CASE ~(j < i)
      <3>1. j - Len(A) \in 1..Len(s) - i /\ i + (j - Len(A)) = j + 1 /\ ~(j <= Len(A))
        BY <1>1, <1>2, <2>2
      <3> QED
        BY <1>1, <1>3, <1>4, <1>6, <2>2, <3>1
    <2> QED
      BY <2>1, <2>2
  <1> QED
    BY <1>4, <1>5, <1>6, <1>7

(* What putting one in does to the others.                                   *)
LEMMA InsertIs ==
  ASSUME NEW S, NEW s \in Seq(S), NEW i \in DOMAIN s, NEW x \in S
  PROVE  /\ InsertAt(s, i, x) \in Seq(S) /\ Len(InsertAt(s, i, x)) = Len(s) + 1
         /\ \A j \in 1..Len(s) + 1 :
               InsertAt(s, i, x)[j] = IF j < i THEN s[j] ELSE IF j = i THEN x ELSE s[j - 1]
  <1>1. Len(s) \in Nat /\ DOMAIN s = 1..Len(s) /\ \A j \in 1..Len(s) : s[j] \in S
    BY LenProperties
  <1> DEFINE A == SubSeq(s, 1, i - 1)
             B == SubSeq(s, i, Len(s))
             C == A \o <<x>>
  <1>2. /\ A \in Seq(S) /\ Len(A) = i - 1 /\ \A j \in 1..i - 1 : A[j] = s[j]
    <2>1. 1 \in Int /\ i - 1 \in Int /\ \A j \in 1..i - 1 : s[j] \in S
      BY <1>1
    <2>2. /\ A \in Seq(S) /\ Len(A) = IF 1 <= i - 1 THEN (i - 1) - 1 + 1 ELSE 0
          /\ \A j \in 1..(i - 1) - 1 + 1 : A[j] = s[1 + j - 1]
      BY <2>1, SubSeqProperties
    <2> QED
      BY <1>1, <2>2
  <1>3. /\ B \in Seq(S) /\ Len(B) = Len(s) - i + 1 /\ \A j \in 1..Len(s) - i + 1 : B[j] = s[i + j - 1]
    <2>1. i \in Int /\ Len(s) \in Int /\ \A j \in i..Len(s) : s[j] \in S
      BY <1>1
    <2>2. /\ B \in Seq(S) /\ Len(B) = IF i <= Len(s) THEN Len(s) - i + 1 ELSE 0
          /\ \A j \in 1..Len(s) - i + 1 : B[j] = s[i + j - 1]
      BY <2>1, SubSeqProperties
    <2> QED
      BY <1>1, <2>2
  <1>x. <<x>> \in Seq(S) /\ Len(<<x>>) = 1 /\ <<x>>[1] = x
    OBVIOUS
  <1> HIDE DEF A, B
  <1>4. /\ C \in Seq(S) /\ Len(C) = i
        /\ \A j \in 1..i : C[j] = IF j < i THEN s[j] ELSE x
    <2>1. /\ C \in Seq(S) /\ Len(C) = Len(A) + Len(<<x>>)
          /\ \A j \in 1..Len(A) + Len(<<x>>) : C[j] = IF j <= Len(A) THEN A[j] ELSE <<x>>[j - Len(A)]
      BY <1>2, <1>x, ConcatProperties
    <2>2. Len(A) + Len(<<x>>) = i
      BY <1>1, <1>2, <1>x
    <2>3. ASSUME NEW j \in 1..i PROVE C[j] = IF j < i THEN s[j] ELSE x
      <3>1. CASE j < i
        BY <1>1, <1>2, <2>1, <2>2, <3>1
      <3>2. CASE j = i
        <4>1. i \in Nat /\ Len(A) = i - 1
          BY <1>1, <1>2
        <4>2. j - Len(A) = 1 /\ ~(j <= Len(A)) /\ ~(j < i)
          BY <3>2, <4>1
        <4>3. C[j] = <<x>>[j - Len(A)]
          BY <2>1, <2>2, <4>2
        <4> QED
          BY <1>x, <4>2, <4>3
      <3>3. j < i \/ j = i
        BY <1>1
      <3> HIDE DEF C
      <3> QED
        BY <3>1, <3>2, <3>3
    <2> HIDE DEF C
    <2> QED
      BY <2>1, <2>2, <2>3
  <1> HIDE DEF C
  <1>5. /\ C \o B \in Seq(S) /\ Len(C \o B) = Len(C) + Len(B)
        /\ \A j \in 1..Len(C) + Len(B) : (C \o B)[j] = IF j <= Len(C) THEN C[j] ELSE B[j - Len(C)]
    BY <1>3, <1>4, ConcatProperties
  <1>6. InsertAt(s, i, x) = C \o B
    BY DEF InsertAt, A, B, C
  <1>7. Len(C) + Len(B) = Len(s) + 1
    BY <1>1, <1>3, <1>4
  <1>8. ASSUME NEW j \in 1..Len(s) + 1
        PROVE  (C \o B)[j] = IF j < i THEN s[j] ELSE IF j = i THEN x ELSE s[j - 1]
    <2>1. CASE j <= i
      BY <1>1, <1>4, <1>5, <1>7, <2>1
    <2>2. CASE ~(j <= i)
      <3>1. j - i \in 1..Len(s) - i + 1 /\ i + (j - i) - 1 = j - 1 /\ ~(j < i) /\ j # i
        BY <1>1, <2>2
      <3> QED
        BY <1>1, <1>3, <1>4, <1>5, <1>7, <2>2, <3>1
    <2> QED
      BY <2>1, <2>2
  <1> QED
    BY <1>5, <1>6, <1>7, <1>8

(* What the invariant says of the lines, in numbers of lines.                *)
LEMMA LinesAre ==
  ASSUME AuditTypeOK
  PROVE  /\ Len(lines) \in Nat /\ DOMAIN lines = 1..Len(lines)
         /\ \A i \in 1..Len(lines) : lines[i] \in Row \cup {Torn}
         /\ Len(rest) \in Nat /\ DOMAIN rest = 1..Len(rest)
         /\ \A i \in 1..Len(rest) : rest[i] \in Row
         /\ rest = <<>> <=> Len(rest) = 0
         /\ EndOf(lines, Genesis) = IF Len(lines) = 0 THEN Genesis ELSE lines[Len(lines)].hash
         /\ log.up => /\ log \in Running /\ log.pending \in Seq(Row) /\ log.prev \in Histories
                      /\ log.begun \in BOOLEAN
                      /\ Len(log.pending) \in Nat /\ DOMAIN log.pending = 1..Len(log.pending)
                      /\ \A i \in 1..Len(log.pending) : log.pending[i] \in Row
         /\ ~log.up => log = NotRunning
  <1>1. lines \in Seq(Row \cup {Torn}) /\ rest \in Seq(Row) /\ log \in Running \cup {NotRunning}
    BY DEF AuditTypeOK
  <1>2. /\ Len(lines) \in Nat /\ DOMAIN lines = 1..Len(lines)
        /\ \A i \in 1..Len(lines) : lines[i] \in Row \cup {Torn}
    BY <1>1, LenProperties
  <1>3. /\ Len(rest) \in Nat /\ DOMAIN rest = 1..Len(rest)
        /\ \A i \in 1..Len(rest) : rest[i] \in Row
    BY <1>1, LenProperties
  <1>4. rest = <<>> <=> Len(rest) = 0
    BY <1>1, EmptySeq
  <1>5. lines = <<>> <=> Len(lines) = 0
    BY <1>1, EmptySeq
  <1>6. ASSUME log.up PROVE log \in Running
    BY <1>1, <1>6, NotAlike
  <1>7. log \in Running => /\ log.pending \in Seq(Row) /\ log.prev \in Histories /\ log.begun \in BOOLEAN /\ log.up
    BY DEF Running
  <1>8. log.pending \in Seq(Row) => /\ Len(log.pending) \in Nat /\ DOMAIN log.pending = 1..Len(log.pending)
                                   /\ \A i \in 1..Len(log.pending) : log.pending[i] \in Row
    BY LenProperties
  <1>9. EndOf(lines, Genesis) = IF Len(lines) = 0 THEN Genesis ELSE lines[Len(lines)].hash
    BY <1>5 DEF EndOf
  <1> QED
    BY <1>1, <1>2, <1>3, <1>4, <1>6, <1>7, <1>8, <1>9

(* The fields of a row newly chained.                                        *)
LEMMA ChainedIs ==
  ASSUME NEW prev \in Histories, NEW body \in Bodies
  PROVE  /\ Digest(prev, body) \in Histories
         /\ Chained(prev, body) \in Row
         /\ Chained(prev, body).prev = prev /\ Chained(prev, body).body = body
         /\ Chained(prev, body).hash = Digest(prev, body)
  <1>1. Digest(prev, body) \in Histories
    BY AppendProperties DEF Digest, Histories
  <1> QED
    BY <1>1 DEF Chained, Row

(* The fields of any row.                                                    *)
LEMMA RowFields ==
  ASSUME NEW r \in Row
  PROVE  r.prev \in Histories /\ r.body \in Bodies /\ r.hash \in Histories /\ r # Torn
  BY NotAlike DEF Row

(* A log that starts goes on from the last line that can be read, which is   *)
(* the last line there is as long as nothing happened to the file.           *)
LEMMA LastHashIs ==
  ASSUME AuditInv
  PROVE  LastHash \in Histories /\ (harm = 0 => LastHash = EndOf(lines, Genesis))
  <1> USE DEF AuditInv
  <1>1. /\ Len(lines) \in Nat /\ DOMAIN lines = 1..Len(lines)
        /\ \A i \in 1..Len(lines) : lines[i] \in Row \cup {Torn}
        /\ EndOf(lines, Genesis) = IF Len(lines) = 0 THEN Genesis ELSE lines[Len(lines)].hash
    BY LinesAre
  <1>2. Readable \in SUBSET 1..Len(lines) /\ \A i \in Readable : lines[i] \in Row
    BY <1>1 DEF Readable
  <1>3. Readable # {} => Max(Readable) \in Readable /\ \A j \in Readable : j <= Max(Readable)
    BY <1>1, <1>2, MaxIs
  <1>4. LastHash \in Histories
    BY <1>2, <1>3, RowFields, EmptySeq DEF LastHash, Genesis, Histories
  <1>5. ASSUME harm = 0 PROVE LastHash = EndOf(lines, Genesis)
    <2>1. \A i \in 1..Len(lines) : lines[i] # Torn
      BY <1>1, <1>5 DEF Intact, Untouched, Verifies
    <2>2. Readable = 1..Len(lines)
      BY <1>1, <2>1 DEF Readable
    <2>3. CASE Len(lines) = 0
      BY <1>1, <2>2, <2>3 DEF LastHash
    <2>4. CASE Len(lines) # 0
      <3>1. Len(lines) \in Readable /\ Readable # {}
        BY <1>1, <2>2, <2>4
      <3>2. Max(Readable) = Len(lines)
        BY <1>1, <1>3, <2>2, <3>1
      <3> QED
        BY <1>1, <2>4, <3>1, <3>2 DEF LastHash
    <2> QED
      BY <2>3, <2>4
  <1> QED
    BY <1>4, <1>5

(* A process starts, at the end of whatever it finds.                        *)
LEMMA StartKept == ASSUME AuditInv, StartLog PROVE AuditInv'
  <1>1. LastHash \in Histories /\ (harm = 0 => LastHash = EndOf(lines, Genesis))
    BY LastHashIs
  <1>2. log = NotRunning /\ ~log.up
    BY NotAlike DEF StartLog
  <1> DEFINE m == [up |-> TRUE, prev |-> LastHash, pending |-> <<>>, begun |-> FALSE, does |-> "wait"]
  <1>3. <<>> \in Seq(Row) /\ Len(<<>>) = 0 /\ DOMAIN <<>> = {}
    BY EmptySeq
  <1>4. m \in Running
    BY <1>1, <1>3 DEF Running
  <1>5. log' = m /\ lines' = lines /\ rest' = rest /\ emitted' = emitted /\ changes' = changes /\ harm' = harm
    BY DEF StartLog
  <1>6. AuditTypeOK'
    BY <1>4, <1>5 DEF AuditInv, AuditTypeOK
  <1>7. RowsEmitted'
    BY <1>3, <1>5 DEF AuditInv, RowsEmitted
  <1>8. harm \in Nat /\ Len(lines) \in Nat /\ harm <= Len(lines) + 1
    BY <1>2, LinesAre DEF AuditInv, AuditTypeOK, Intact, ToCome
  <1>9. Intact'
    BY <1>3, <1>5, <1>8 DEF AuditInv, Intact, Untouched, Verifies, ToCome
  <1>10. Continues'
    <2>1. harm = 0 \/ Len(lines) + 1 < harm => rest = <<>>
      BY <1>2, <1>8 DEF AuditInv, Continues
    <2>2. harm = 0 => m.prev = EndOf(<<>>, EndOf(lines, Genesis))
      BY <1>1 DEF EndOf
    <2> QED
      BY <1>3, <1>5, <2>1, <2>2 DEF Continues, Untouched
  <1> QED
    BY <1>6, <1>7, <1>9, <1>10 DEF AuditInv

(* A row is chained to the one before it, wherever that is by now.           *)
LEMMA LineEmitKept == ASSUME AuditInv, NEW body \in Bodies, Emit(body) PROVE AuditInv'
  <1> DEFINE row == Chained(log.prev, body)
             p   == Append(log.pending, row)
             n   == Len(log.pending)
  <1>1. /\ log.up /\ log \in Running /\ log.pending \in Seq(Row) /\ log.prev \in Histories
        /\ n \in Nat /\ DOMAIN log.pending = 1..n
        /\ \A i \in 1..n : log.pending[i] \in Row
    BY LinesAre DEF AuditInv, Emit
  <1>2. row \in Row /\ row.prev = log.prev /\ row.body = body /\ row.hash = Digest(log.prev, body)
        /\ row.hash \in Histories
    BY <1>1, ChainedIs
  <1> HIDE DEF row
  <1>3. /\ p \in Seq(Row) /\ Len(p) = n + 1 /\ DOMAIN p = 1..n + 1 /\ p # <<>>
        /\ p[n + 1] = row /\ \A i \in 1..n : p[i] = log.pending[i]
    <2>1. p \in Seq(Row) /\ Len(p) = n + 1 /\ p[n + 1] = row /\ \A i \in 1..n : p[i] = log.pending[i]
      BY <1>1, <1>2, AppendProperties
    <2> QED
      BY <1>1, <2>1, LenProperties, EmptySeq
  <1>4. /\ log' \in Running /\ log'.prev = row.hash /\ log'.pending = p
        /\ log'.begun = log.begun /\ log'.up
    <2>1. log' = [log EXCEPT !.prev = row.hash, !.pending = p, !.does = "write"]
      BY <1>1 DEF Emit, row
    <2>2. log \in Running /\ row.hash \in Histories /\ p \in Seq(Row)
      BY <1>1, <1>2, <1>3
    <2> HIDE DEF p, n
    <2> QED
      BY <2>1, <2>2 DEF Running
  <1> HIDE DEF p
  <1>5. emitted' = emitted \cup {row.hash} /\ lines' = lines /\ rest' = rest /\ changes' = changes /\ harm' = harm
    BY DEF Emit, row
  <1>6. AuditTypeOK'
    BY <1>2, <1>4, <1>5 DEF AuditInv, AuditTypeOK
  <1>7. RowsEmitted'
    <2>1. \A i \in 1..n + 1 : p[i].hash \in emitted'
      BY <1>1, <1>3, <1>5 DEF AuditInv, RowsEmitted
    <2> QED
      BY <1>3, <1>4, <1>5, <2>1 DEF AuditInv, RowsEmitted
  <1>8. harm \in Nat /\ Len(lines) \in Nat /\ harm <= Len(lines) + n + 1
    BY <1>1, LinesAre DEF AuditInv, AuditTypeOK, Intact, ToCome
  <1>9. Intact'
    <2>1. harm <= Len(lines) + (n + 1) + 1
      BY <1>1, <1>8
    <2>2. ToCome' = n + 1
      BY <1>3, <1>4 DEF ToCome
    <2> HIDE DEF n
    <2> QED
      BY <1>5, <2>1, <2>2 DEF AuditInv, Intact, Untouched, Verifies
  <1>10. Continues'
    <2> DEFINE e == EndOf(lines, Genesis)
               L == Len(lines)
    <2>1. /\ log.begun => log.pending # <<>>
          /\ Untouched(L + 1) => rest = IF log.begun THEN <<log.pending[1]>> ELSE <<>>
          /\ harm = 0 => log.prev = EndOf(log.pending, e)
          /\ \A i \in 1..n : Untouched(L + i) => Follows(log.pending, i, e)
      BY <1>1 DEF AuditInv, Continues
    <2>2. log.pending = <<>> <=> n = 0
      BY <1>1, EmptySeq
    <2>3. EndOf(lines', Genesis) = e /\ Len(lines') = L /\ L \in Nat
      BY <1>5, <1>8
    <2> HIDE DEF e, n, L
    <2>4. Untouched(L + 1) => rest' = IF log'.begun THEN <<p[1]>> ELSE <<>>
      BY <1>1, <1>3, <1>4, <1>5, <2>1, <2>2
    <2>5. log'.prev = EndOf(p, e)
      BY <1>3, <1>4 DEF EndOf
    <2>6. ASSUME NEW i \in 1..n + 1, Untouched(L + i) PROVE Follows(p, i, e)
      <3>1. CASE i \in 1..n
        <4>1. p[i] = log.pending[i] /\ (i # 1 => p[i - 1] = log.pending[i - 1])
          BY <1>1, <1>3, <3>1
        <4> QED
          BY <2>1, <2>6, <3>1, <4>1 DEF Follows
      <3>2. CASE i = n + 1
        <4>1. p[i] = row /\ (i # 1 => n # 0 /\ i - 1 = n /\ p[i - 1] = log.pending[n]) /\ (i = 1 => n = 0)
          BY <1>1, <1>3, <3>2
        <4>2. harm = 0
          BY <1>1, <1>8, <2>6, <3>2 DEF Untouched, L, n
        <4>3. log.prev = IF i = 1 THEN e ELSE p[i - 1].hash
          BY <2>1, <2>2, <4>1, <4>2 DEF EndOf, n
        <4> QED
          BY <1>2, <4>1, <4>3 DEF Follows
      <3> QED
        BY <1>1, <3>1, <3>2
    <2>7. (log.begun => p # <<>>) /\ DOMAIN p = 1..n + 1
      BY <1>3
    <2> QED
      BY <1>4, <1>5, <2>3, <2>4, <2>5, <2>6, <2>7 DEF Continues, Untouched, L
  <1> QED
    BY <1>6, <1>7, <1>9, <1>10 DEF AuditInv

(* A part of a row gets into the file ...                                    *)
LEMMA BeginKept ==
  ASSUME AuditInv, log.up, log.pending # <<>>, ~log.begun,
         rest' = Append(rest, Head(log.pending)), lines' = lines,
         log' = [log EXCEPT !.begun = TRUE],
         emitted' = emitted, changes' = changes, harm' = harm
  PROVE  AuditInv'
  <1>1. /\ log \in Running /\ log.pending \in Seq(Row) /\ log.prev \in Histories
        /\ Len(log.pending) \in Nat /\ DOMAIN log.pending = 1..Len(log.pending)
        /\ \A i \in 1..Len(log.pending) : log.pending[i] \in Row
        /\ rest \in Seq(Row) /\ Len(rest) \in Nat /\ DOMAIN rest = 1..Len(rest)
    BY LinesAre DEF AuditInv, AuditTypeOK
  <1>2. Len(log.pending) # 0 /\ 1 \in DOMAIN log.pending
    BY <1>1, EmptySeq
  <1>3. Head(log.pending) = log.pending[1] /\ log.pending[1] \in Row
    BY <1>1, <1>2, HeadTailProperties
  <1>4. /\ log' \in Running /\ log'.prev = log.prev /\ log'.pending = log.pending
        /\ log'.begun /\ log'.up
    BY <1>1, LogBegins
  <1>5. /\ rest' \in Seq(Row) /\ DOMAIN rest' = 1..Len(rest) + 1 /\ rest'[Len(rest) + 1] = log.pending[1]
        /\ \A i \in 1..Len(rest) : rest'[i] = rest[i]
        /\ rest = <<>> => rest' = <<log.pending[1]>>
    <2>1. /\ rest' \in Seq(Row) /\ Len(rest') = Len(rest) + 1 /\ rest'[Len(rest) + 1] = log.pending[1]
          /\ \A i \in 1..Len(rest) : rest'[i] = rest[i]
      BY <1>1, <1>3, AppendProperties
    <2>2. DOMAIN rest' = 1..Len(rest')
      BY <2>1, LenProperties
    <2>3. rest = <<>> => rest' = <<log.pending[1]>>
      BY <1>3
    <2> QED
      BY <2>1, <2>2, <2>3
  <1>6. AuditTypeOK'
    BY <1>4, <1>5 DEF AuditInv, AuditTypeOK
  <1>7. RowsEmitted'
    <2>1. \A i \in 1..Len(rest) + 1 : rest'[i].hash \in emitted
      <3>1. \A i \in 1..Len(rest) + 1 : i \in 1..Len(rest) \/ i = Len(rest) + 1
        BY <1>1
      <3>2. log.pending[1].hash \in emitted
        BY <1>2 DEF AuditInv, RowsEmitted
      <3>3. \A i \in 1..Len(rest) : rest[i].hash \in emitted
        BY <1>1 DEF AuditInv, RowsEmitted
      <3> QED
        BY <1>5, <3>1, <3>2, <3>3
    <2> QED
      BY <1>4, <1>5, <2>1 DEF AuditInv, RowsEmitted
  <1>8. Intact'
    BY <1>4 DEF AuditInv, Intact, Untouched, Verifies, ToCome
  <1>9. Continues'
    <2>1. Untouched(Len(lines) + 1) => rest = <<>>
      BY DEF AuditInv, Continues
    <2> QED
      BY <1>4, <1>5, <2>1 DEF AuditInv, Continues, Untouched
  <1> QED
    BY <1>6, <1>7, <1>8, <1>9 DEF AuditInv

(* ... and then the rest of it, with its newline.                            *)
LEMMA LineKept ==
  ASSUME AuditInv, log.up, log.pending # <<>>, log.begun,
         lines' = Append(lines, IF rest = <<Head(log.pending)>> THEN Head(log.pending) ELSE Torn), rest' = <<>>,
         log' = [log EXCEPT !.begun = FALSE, !.pending = Tail(@)],
         emitted' = emitted, changes' = changes, harm' = harm
  PROVE  AuditInv'
  <1> DEFINE n    == Len(lines)
             row  == log.pending[1]
             line == IF rest = <<row>> THEN row ELSE Torn
             p    == Tail(log.pending)
             k    == Len(log.pending)
             e    == EndOf(lines, Genesis)
  <1>1. /\ log \in Running /\ log.pending \in Seq(Row) /\ log.prev \in Histories
        /\ k \in Nat /\ DOMAIN log.pending = 1..k
        /\ \A i \in 1..k : log.pending[i] \in Row
        /\ n \in Nat /\ DOMAIN lines = 1..n /\ lines \in Seq(Row \cup {Torn})
        /\ e = IF n = 0 THEN Genesis ELSE lines[n].hash
    BY LinesAre DEF AuditInv, AuditTypeOK
  <1>2. k # 0 /\ 1 \in 1..k /\ Head(log.pending) = row /\ row \in Row
        /\ row.prev \in Histories /\ row.body \in Bodies /\ row.hash \in Histories /\ row # Torn
    <2>1. k # 0 /\ 1 \in 1..k
      BY <1>1, EmptySeq
    <2>2. Head(log.pending) = row /\ row \in Row
      BY <1>1, <2>1, HeadTailProperties
    <2> QED
      BY <2>1, <2>2, RowFields
  <1>3. /\ p \in Seq(Row) /\ Len(p) = k - 1 /\ DOMAIN p = 1..k - 1
        /\ \A i \in 1..k - 1 : p[i] = log.pending[i + 1]
        /\ p = <<>> <=> k = 1
    <2>1. p \in Seq(Row) /\ Len(p) = k - 1 /\ \A i \in 1..Len(p) : p[i] = log.pending[i + 1]
      BY <1>1, HeadTailProperties
    <2>2. DOMAIN p = 1..Len(p) /\ (p = <<>> <=> Len(p) = 0)
      BY <2>1, LenProperties, EmptySeq
    <2> QED
      BY <1>1, <2>1, <2>2
  <1>4. log' \in Running /\ log'.prev = log.prev /\ log'.pending = p /\ ~log'.begun /\ log'.up
    <2>1. log' = [log EXCEPT !.begun = FALSE, !.pending = p]
      BY <1>1 DEF Running
    <2> HIDE DEF p
    <2> QED
      BY <1>1, <1>3, <2>1, LogWrites
  <1>5. /\ lines' \in Seq(Row \cup {Torn}) /\ Len(lines') = n + 1 /\ DOMAIN lines' = 1..n + 1
        /\ \A i \in 1..n : lines'[i] = lines[i]
        /\ lines'[n + 1] = line
    <2>1. line \in Row \cup {Torn} /\ lines' = Append(lines, line)
      BY <1>2
    <2> HIDE DEF line
    <2>2. /\ lines' \in Seq(Row \cup {Torn}) /\ Len(lines') = n + 1
          /\ \A i \in 1..n : lines'[i] = lines[i]
          /\ lines'[n + 1] = line
      BY <1>1, <2>1, AppendProperties
    <2> QED
      BY <2>2, LenProperties
  <1>6. <<>> \in Seq(Row) /\ DOMAIN <<>> = {}
    BY EmptySeq
  <1>7. /\ \A i \in 1..n : lines[i] # Torn => lines[i].hash \in emitted
        /\ \A i \in 1..k : log.pending[i].hash \in emitted
    BY <1>1 DEF AuditInv, RowsEmitted
  <1>8. /\ \A i \in 1..n : Untouched(i) => Verifies(lines, i)
        /\ harm <= n + k + 1 /\ harm \in Nat
    BY <1>1 DEF AuditInv, Intact, AuditTypeOK, ToCome
  <1>9. /\ Untouched(n + 1) => rest = <<row>>
        /\ harm = 0 => log.prev = EndOf(log.pending, e)
        /\ \A i \in 1..k : Untouched(n + i) => Follows(log.pending, i, e)
    BY <1>1 DEF AuditInv, Continues
  <1>10. /\ Untouched(n + 1) => line = row /\ lines'[n + 1] = row
         /\ EndOf(lines', Genesis) = lines'[n + 1].hash
    <2>1. Untouched(n + 1) => line = row /\ lines'[n + 1] = row
      BY <1>5, <1>9
    <2>2. lines' # <<>> /\ EndOf(lines', Genesis) = lines'[n + 1].hash
      BY <1>1, <1>5, EmptySeq DEF EndOf
    <2> QED
      BY <2>1, <2>2
  <1>11. AuditTypeOK'
    BY <1>4, <1>5, <1>6 DEF AuditInv, AuditTypeOK
  <1>12. RowsEmitted'
    <2>1. ASSUME NEW i \in 1..k - 1 PROVE p[i].hash \in emitted
      <3>1. i + 1 \in 1..k
        BY <1>1
      <3> HIDE DEF p, k
      <3> QED
        BY <1>3, <1>7, <3>1
    <2>2. lines'[n + 1] # Torn => lines'[n + 1].hash \in emitted
      BY <1>2, <1>5, <1>7
    <2>3. \A i \in 1..n + 1 : i \in 1..n \/ i = n + 1
      BY <1>1
    <2> HIDE DEF p, n, line
    <2>4. \A i \in 1..n + 1 : lines'[i] # Torn => lines'[i].hash \in emitted
      BY <1>5, <1>7, <2>2, <2>3
    <2> QED
      BY <1>3, <1>4, <1>5, <1>6, <2>1, <2>4 DEF RowsEmitted
  <1> HIDE DEF line, row, p, k, n, e
  <1>13. Intact'
    <2>1. ASSUME NEW i \in 1..n, Untouched(i) PROVE Verifies(lines', i)
      <3>1. lines'[i] = lines[i] /\ (i # 1 => lines'[i - 1] = lines[i - 1])
        BY <1>1, <1>5
      <3> QED
        BY <1>8, <2>1, <3>1 DEF Verifies
    <2>2. ASSUME Untouched(n + 1) PROVE Verifies(lines', n + 1)
      <3>1. row = log.pending[1] /\ Follows(log.pending, 1, e)
        BY <1>2, <1>9, <2>2 DEF row
      <3>2. row.prev = e /\ row.hash = Digest(row.prev, row.body)
        BY <3>1 DEF Follows
      <3>3. n # 0 => lines'[(n + 1) - 1] = lines[n]
        BY <1>1, <1>5
      <3>4. e = IF n + 1 = 1 THEN Genesis ELSE lines'[(n + 1) - 1].hash
        BY <1>1, <3>3
      <3> QED
        BY <1>2, <1>10, <2>2, <3>2, <3>4 DEF Verifies
    <2>3. \A i \in 1..n + 1 : i \in 1..n \/ i = n + 1
      BY <1>1
    <2>4. \A i \in 1..n + 1 : Untouched(i) => Verifies(lines', i)
      BY <2>1, <2>2, <2>3
    <2>5. ToCome' = k - 1
      BY <1>3, <1>4 DEF ToCome
    <2>6. harm <= (n + 1) + (k - 1) + 1
      BY <1>1, <1>8
    <2> QED
      BY <1>5, <2>4, <2>5, <2>6 DEF Intact, Untouched, Verifies
  <1>14. Continues'
    <2>1. ASSUME harm = 0 PROVE log.prev = EndOf(p, EndOf(lines', Genesis))
      <3>1. log.pending # <<>> /\ log.prev = log.pending[k].hash
        BY <1>9, <2>1 DEF EndOf, k
      <3>2. EndOf(lines', Genesis) = row.hash
        BY <1>10, <2>1 DEF Untouched
      <3>3. CASE k = 1
        BY <1>3, <3>1, <3>2, <3>3 DEF EndOf, row
      <3>4. CASE k # 1
        <4>1. k - 1 \in 1..k - 1 /\ (k - 1) + 1 = k
          BY <1>1, <1>2, <3>4
        <4>2. p[k - 1] = log.pending[k]
          BY <1>3, <4>1
        <4> QED
          BY <1>3, <3>1, <3>4, <4>2 DEF EndOf
      <3> QED
        BY <3>3, <3>4
    <2>2. ASSUME NEW i \in 1..k - 1, Untouched((n + 1) + i) PROVE Follows(p, i, EndOf(lines', Genesis))
      <3>1. /\ i + 1 \in 1..k /\ i + 1 # 1 /\ (i + 1) - 1 = i
            /\ (n + 1) + i = n + (i + 1) /\ n + 1 < (n + 1) + i
        BY <1>1
      <3>2. Untouched(n + (i + 1)) /\ Untouched(n + 1)
        <4>1. Untouched(n + (i + 1))
          BY <2>2, <3>1
        <4>2. harm \in Nat /\ n \in Nat /\ i \in Nat
          BY <1>1, <1>8
        <4> QED
          BY <4>1, <4>2 DEF Untouched
      <3>3. Follows(log.pending, i + 1, e)
        BY <1>9, <3>1, <3>2
      <3>4. p[i] = log.pending[i + 1] /\ (i # 1 => p[i - 1] = log.pending[i])
        <4>1. i # 1 => i - 1 \in 1..k - 1 /\ (i - 1) + 1 = i
          BY <1>1
        <4> QED
          BY <1>3, <4>1
      <3>5. EndOf(lines', Genesis) = log.pending[1].hash
        BY <1>10, <3>2 DEF row
      <3> QED
        BY <3>1, <3>3, <3>4, <3>5 DEF Follows
    <2>3. /\ log'.up /\ ~log'.begun /\ log'.prev = log.prev /\ log'.pending = p
          /\ DOMAIN p = 1..k - 1 /\ Len(lines') = n + 1
      BY <1>3, <1>4, <1>5
    <2> QED
      BY <2>1, <2>2, <2>3 DEF Continues, Untouched
  <1> QED
    BY <1>11, <1>12, <1>13, <1>14 DEF AuditInv

(* Whatever is written of the buffer, the invariant stays.                   *)
LEMMA WriteSomeKept == ASSUME AuditInv, WriteSome PROVE AuditInv'
  <1>1. CASE ~log.begun
    BY <1>1, BeginKept DEF WriteSome
  <1>2. CASE log.begun
    BY <1>2, LineKept DEF WriteSome
  <1> QED
    BY <1>1, <1>2

(* emit returns, and a process that ends begins to write what it has left.   *)
LEMMA DoesKept ==
  ASSUME AuditInv, log.up, NEW d \in {"wait", "write", "exit"}, log' = [log EXCEPT !.does = d],
         UNCHANGED <<lines, rest, emitted, changes, harm>>
  PROVE  AuditInv'
  <1>1. log \in Running
    BY LinesAre DEF AuditInv
  <1>2. /\ log' \in Running /\ log'.prev = log.prev /\ log'.pending = log.pending
        /\ log'.begun = log.begun /\ log'.up
    BY <1>1, LogDoes
  <1>3. AuditTypeOK'
    BY <1>2 DEF AuditInv, AuditTypeOK
  <1>4. RowsEmitted'
    BY <1>2 DEF AuditInv, RowsEmitted
  <1>5. Intact'
    BY <1>2 DEF AuditInv, Intact, Untouched, Verifies, ToCome
  <1>6. Continues'
    BY <1>2 DEF AuditInv, Continues, Untouched
  <1> QED
    BY <1>3, <1>4, <1>5, <1>6 DEF AuditInv

(* A row that a failed write loses leaves a gap where it would have stood.   *)
LEMMA DropKept ==
  ASSUME AuditInv, log.up, log.pending # <<>>,
         log' = [log EXCEPT !.does = "wait", !.pending = Front(@), !.begun = @ /\ Len(log.pending) > 1],
         harm' = Harmed(Len(lines) + Len(log.pending)),
         UNCHANGED <<lines, rest, emitted, changes>>
  PROVE  AuditInv'
  <1> DEFINE n == Len(lines)
             k == Len(log.pending)
             p == Front(log.pending)
             e == EndOf(lines, Genesis)
             b == log.begun /\ k > 1
  <1>1. /\ log \in Running /\ log.pending \in Seq(Row) /\ log.begun \in BOOLEAN
        /\ k \in Nat /\ DOMAIN log.pending = 1..k
        /\ \A i \in 1..k : log.pending[i] \in Row
        /\ n \in Nat /\ DOMAIN lines = 1..n
    BY LinesAre DEF AuditInv, AuditTypeOK
  <1>2. k # 0
    BY <1>1, EmptySeq
  <1>3. /\ p \in Seq(Row) /\ Len(p) = k - 1 /\ DOMAIN p = 1..k - 1
        /\ \A i \in 1..k - 1 : p[i] = log.pending[i]
        /\ p = <<>> <=> k = 1
    <2>1. /\ p \in Seq(Row) /\ Len(p) = k - 1
          /\ \A i \in 1..k - 1 : p[i] = log.pending[i]
      <3>1. \A i \in 1..k - 1 : log.pending[i] \in Row
        BY <1>1
      <3>2. 1 \in Int /\ k - 1 \in Int /\ (k - 1) - 1 + 1 = k - 1 /\ \A i \in 1..k - 1 : 1 + i - 1 = i
        BY <1>1
      <3>3. p = SubSeq(log.pending, 1, k - 1)
        BY DEF Front
      <3> HIDE DEF p, k
      <3> QED
        BY <1>1, <1>2, <3>1, <3>2, <3>3, SubSeqProperties
    <2>2. DOMAIN p = 1..Len(p) /\ (p = <<>> <=> Len(p) = 0)
      BY <2>1, LenProperties, EmptySeq
    <2> QED
      BY <1>1, <2>1, <2>2
  <1>4. log' \in Running /\ log'.prev = log.prev /\ log'.pending = p /\ log'.begun = b /\ log'.up
    <2>1. log' = [log EXCEPT !.does = "wait", !.pending = p, !.begun = b]
      BY <1>1 DEF Running
    <2>2. b \in BOOLEAN
      OBVIOUS
    <2>3. log \in Running /\ p \in Seq(Row)
      BY <1>1, <1>3
    <2> HIDE DEF p, b
    <2> QED
      BY <2>1, <2>2, <2>3 DEF Running
  <1>5. /\ harm \in Nat /\ harm' \in Nat /\ harm' # 0 /\ harm' <= n + k
        /\ \A i \in Nat : harm' = 0 \/ i < harm' => Untouched(i)
    BY <1>1, <1>2 DEF AuditInv, AuditTypeOK, Harmed, Untouched
  <1> HIDE DEF p, n, k, e
  <1>6. AuditTypeOK'
    BY <1>4, <1>5 DEF AuditInv, AuditTypeOK
  <1>7. RowsEmitted'
    <2>1. \A i \in 1..k - 1 : i \in 1..k
      BY <1>1
    <2> QED
      BY <1>1, <1>3, <1>4, <2>1 DEF AuditInv, RowsEmitted
  <1>8. Intact'
    <2>1. \A i \in 1..n : harm' = 0 \/ i < harm' => Verifies(lines, i)
      BY <1>1, <1>5 DEF AuditInv, Intact
    <2>2. ToCome' = k - 1 /\ harm' <= n + (k - 1) + 1
      BY <1>1, <1>3, <1>4, <1>5 DEF ToCome
    <2> QED
      BY <1>1, <2>1, <2>2 DEF Intact, Untouched, Verifies, n
  <1>9. Continues'
    <2>1. b => p # <<>>
      BY <1>1, <1>3
    <2>2. ASSUME harm' = 0 \/ n + 1 < harm' PROVE rest = IF b THEN <<p[1]>> ELSE <<>>
      <3>1. k > 1 /\ Untouched(n + 1) /\ 1 \in 1..k - 1
        BY <1>1, <1>5, <2>2
      <3>2. p[1] = log.pending[1] /\ rest = IF log.begun THEN <<log.pending[1]>> ELSE <<>>
        BY <1>3, <3>1 DEF AuditInv, Continues, n
      <3> QED
        BY <3>1, <3>2
    <2>3. ASSUME NEW i \in 1..k - 1, harm' = 0 \/ n + i < harm' PROVE Follows(p, i, e)
      <3>1. Untouched(n + i) /\ i \in 1..k /\ (i # 1 => i - 1 \in 1..k - 1)
        BY <1>1, <1>5, <2>3
      <3>2. Follows(log.pending, i, e)
        BY <1>1, <3>1 DEF AuditInv, Continues, n, e
      <3> QED
        BY <1>3, <3>1, <3>2 DEF Follows
    <2> HIDE DEF b
    <2> QED
      BY <1>3, <1>4, <1>5, <2>1, <2>2, <2>3 DEF Continues, Untouched, n, e
  <1> QED
    BY <1>6, <1>7, <1>8, <1>9 DEF AuditInv

(* A process that ends in the middle of a row harms the line it was writing. *)
LEMMA StopKept == ASSUME AuditInv, StopLog PROVE AuditInv'
  <1>1. Len(lines) \in Nat /\ DOMAIN lines = 1..Len(lines)
    BY LinesAre DEF AuditInv
  <1>2. log.up /\ log' = NotRunning /\ ~log'.up
    BY NotAlike DEF StopLog
  <1>3. lines' = lines /\ rest' = rest /\ emitted' = emitted /\ changes' = changes
    BY DEF StopLog
  <1>4. harm \in Nat
    BY DEF AuditInv, AuditTypeOK
  <1>5. /\ harm' \in Nat /\ harm' <= Len(lines) + 1 /\ (rest # <<>> => harm' # 0)
        /\ \A i \in 1..Len(lines) : harm' = 0 \/ i < harm' => Untouched(i)
    <2>1. harm' = IF harm \in 1..Len(lines) THEN harm ELSE IF rest = <<>> THEN 0 ELSE Len(lines) + 1
      BY <1>1 DEF StopLog
    <2>2. CASE harm \in 1..Len(lines)
      BY <1>1, <1>4, <2>1, <2>2 DEF Untouched
    <2>3. CASE harm \notin 1..Len(lines)
      <3>1. \A i \in 1..Len(lines) : Untouched(i)
        BY <1>1, <1>4, <2>3 DEF Untouched
      <3> QED
        BY <1>1, <2>1, <2>3, <3>1
    <2> QED
      BY <2>2, <2>3
  <1>6. AuditTypeOK'
    BY <1>2, <1>3, <1>5 DEF AuditInv, AuditTypeOK
  <1>7. RowsEmitted'
    BY <1>2, <1>3 DEF AuditInv, RowsEmitted
  <1>8. Intact'
    <2>1. \A i \in 1..Len(lines) : harm' = 0 \/ i < harm' => Verifies(lines, i)
      BY <1>1, <1>5 DEF AuditInv, Intact
    <2> QED
      BY <1>1, <1>2, <1>3, <1>5, <2>1 DEF Intact, Untouched, Verifies, ToCome
  <1>9. Continues'
    BY <1>2, <1>3, <1>5 DEF Continues
  <1> QED
    BY <1>6, <1>7, <1>8, <1>9 DEF AuditInv

(* What a change leaves: lines of rows that were emitted, and those before   *)
(* the one that was changed.                                                 *)
LEMMA ChangeIs ==
  ASSUME AuditTypeOK, RowsEmitted, NEW i \in DOMAIN lines, Change(i)
  PROVE  /\ lines' \in Seq(Row \cup {Torn}) /\ i <= Len(lines') + 1
         /\ \A j \in DOMAIN lines' : lines'[j] # Torn => lines'[j].hash \in emitted
         /\ \A j \in DOMAIN lines' : j < i => j \in DOMAIN lines /\ lines'[j] = lines[j]
  <1> DEFINE n == Len(lines)
  <1>1. /\ n \in Nat /\ DOMAIN lines = 1..n /\ lines \in Seq(Row \cup {Torn})
        /\ i \in 1..n /\ i \in Nat /\ i <= n
        /\ \A j \in 1..n : lines[j] \in Row \cup {Torn}
        /\ \A j \in 1..n : lines[j] # Torn => lines[j].hash \in emitted
    BY LinesAre DEF RowsEmitted, AuditTypeOK
  <1>2. ASSUME NEW body \in Bodies, Edit(i, body)
        PROVE  /\ lines' \in Seq(Row \cup {Torn}) /\ Len(lines') = n
               /\ \A j \in 1..n : lines'[j] # Torn => lines'[j].hash \in emitted
               /\ \A j \in 1..n : j < i => lines'[j] = lines[j]
    <2> DEFINE row == [lines[i] EXCEPT !.body = body]
    <2>1. lines[i] \in Row /\ lines[i].hash \in emitted
      BY <1>1, <1>2 DEF Edit
    <2>2. row \in Row /\ row.hash = lines[i].hash
      BY <2>1 DEF Row
    <2>3. lines' = [lines EXCEPT ![i] = row]
      BY <1>2 DEF Edit
    <2> HIDE DEF row
    <2>4. /\ lines' \in Seq(Row \cup {Torn}) /\ Len(lines') = n
          /\ \A j \in 1..n : lines'[j] = IF j = i THEN row ELSE lines[j]
      BY <1>1, <2>2, <2>3, ExceptSeq
    <2> QED
      BY <1>1, <2>1, <2>2, <2>4
  <1>3. ASSUME Delete(i)
        PROVE  /\ lines' \in Seq(Row \cup {Torn}) /\ Len(lines') = n - 1
               /\ \A j \in 1..n - 1 : lines'[j] # Torn => lines'[j].hash \in emitted
               /\ \A j \in 1..n - 1 : j < i => lines'[j] = lines[j]
    <2>1. /\ lines' \in Seq(Row \cup {Torn}) /\ Len(lines') = n - 1
          /\ \A j \in 1..n - 1 : lines'[j] = IF j < i THEN lines[j] ELSE lines[j + 1]
      BY <1>1, <1>3, RemoveIs DEF Delete
    <2>2. \A j \in 1..n - 1 : j \in 1..n /\ j + 1 \in 1..n
      BY <1>1
    <2> HIDE DEF n
    <2> QED
      BY <1>1, <2>1, <2>2
  <1>4. ASSUME NEW k \in DOMAIN lines, Insert(i, k)
        PROVE  /\ lines' \in Seq(Row \cup {Torn}) /\ Len(lines') = n + 1
               /\ \A j \in 1..n + 1 : lines'[j] # Torn => lines'[j].hash \in emitted
               /\ \A j \in 1..n + 1 : j < i => lines'[j] = lines[j]
    <2>1. /\ lines' \in Seq(Row \cup {Torn}) /\ Len(lines') = n + 1
          /\ \A j \in 1..n + 1 : lines'[j] = IF j < i THEN lines[j] ELSE IF j = i THEN lines[k] ELSE lines[j - 1]
      <3> DEFINE x == lines[k]
                 T == Row \cup {Torn}
      <3>1. x \in T /\ lines \in Seq(T) /\ i \in DOMAIN lines
        BY <1>1, <1>4
      <3>2. lines' = InsertAt(lines, i, x)
        BY <1>4 DEF Insert
      <3> HIDE DEF x, T
      <3>3. lines' \in Seq(T) /\ Len(lines') = Len(lines) + 1
        BY <3>1, <3>2, InsertIs
      <3>4. \A j \in 1..Len(lines) + 1 :
              InsertAt(lines, i, x)[j] = IF j < i THEN lines[j] ELSE IF j = i THEN x ELSE lines[j - 1]
        BY <3>1, InsertIs
      <3>5. ASSUME NEW j \in 1..Len(lines) + 1
            PROVE  lines'[j] = IF j < i THEN lines[j] ELSE IF j = i THEN x ELSE lines[j - 1]
        BY <3>2, <3>4
      <3> QED
        BY <3>3, <3>5 DEF x, T
    <2>2. \A j \in 1..n + 1 : /\ j < i => j \in 1..n
                              /\ ~(j < i) /\ j # i => j - 1 \in 1..n
      BY <1>1
    <2>3. k \in 1..n
      BY <1>1
    <2> HIDE DEF n
    <2> QED
      BY <1>1, <2>1, <2>2, <2>3
  <1> HIDE DEF n
  <1>5. PICK m \in {n, n - 1, n + 1} :
          /\ lines' \in Seq(Row \cup {Torn}) /\ Len(lines') = m
          /\ \A j \in 1..m : lines'[j] # Torn => lines'[j].hash \in emitted
          /\ \A j \in 1..m : j < i => lines'[j] = lines[j]
    BY <1>2, <1>3, <1>4 DEF Change
  <1>6. DOMAIN lines' = 1..m /\ m \in Int /\ i <= m + 1
    BY <1>1, <1>5, LenProperties
  <1>7. \A j \in 1..m : j < i => j \in 1..n
    BY <1>1, <1>6
  <1> QED
    BY <1>1, <1>5, <1>6, <1>7

(* Whatever is changed afterwards, the lines before it stay as they were.    *)
LEMMA ChangeKept == ASSUME AuditInv, NEW i \in DOMAIN lines, Change(i) PROVE AuditInv'
  <1>1. /\ lines' \in Seq(Row \cup {Torn}) /\ i <= Len(lines') + 1
        /\ \A j \in DOMAIN lines' : lines'[j] # Torn => lines'[j].hash \in emitted
        /\ \A j \in DOMAIN lines' : j < i => j \in DOMAIN lines /\ lines'[j] = lines[j]
    BY ChangeIs DEF AuditInv
  <1>2. rest' = rest /\ log' = log /\ emitted' = emitted
    BY DEF Change
  <1>3. i \in Nat /\ i # 0
    BY LinesAre DEF AuditInv
  <1>4. harm' \in Nat /\ harm' # 0 /\ harm' <= i /\ (harm # 0 => harm' <= harm)
    <2>1. harm \in Nat
      BY DEF AuditInv, AuditTypeOK
    <2>2. harm' = IF harm = 0 \/ i < harm THEN i ELSE harm
      BY DEF Change, Harmed
    <2> QED
      BY <1>3, <2>1, <2>2
  <1>5. changes' \in 0..MaxChanges
    BY AuditAssumption DEF AuditInv, AuditTypeOK, Change
  <1>6. Len(lines') \in Nat /\ DOMAIN lines' = 1..Len(lines')
    BY <1>1, LenProperties
  <1>7. AuditTypeOK'
    BY <1>1, <1>2, <1>4, <1>5 DEF AuditInv, AuditTypeOK
  <1>8. RowsEmitted'
    BY <1>1, <1>2 DEF AuditInv, RowsEmitted
  <1>9. Intact'
    <2>1. ASSUME NEW j \in DOMAIN lines', j < harm' PROVE Verifies(lines', j)
      <3>1. j \in Nat /\ j # 0 /\ j < i /\ (harm # 0 => j < harm) /\ harm \in Nat
        BY <1>3, <1>4, <1>6, <2>1 DEF AuditInv, AuditTypeOK
      <3>2. j \in DOMAIN lines /\ Untouched(j) /\ lines'[j] = lines[j]
        BY <1>1, <3>1 DEF Untouched
      <3>3. j # 1 => lines'[j - 1] = lines[j - 1]
        <4>1. j # 1 => j - 1 \in DOMAIN lines' /\ j - 1 < i
          BY <1>3, <1>6, <3>1
        <4> QED
          BY <1>1, <4>1
      <3>4. Verifies(lines, j)
        BY <3>2 DEF AuditInv, Intact
      <3> QED
        BY <3>2, <3>3, <3>4 DEF Verifies
    <2>2. harm' <= Len(lines') + ToCome' + 1
      <3>1. ToCome' \in Nat
        BY <1>2, LinesAre DEF AuditInv, ToCome
      <3> QED
        BY <1>1, <1>3, <1>4, <1>6, <3>1
    <2>3. ASSUME NEW j \in DOMAIN lines' PROVE (harm' = 0 \/ j < harm') => Verifies(lines', j)
      BY <1>4, <2>1
    <2> QED
      BY <2>2, <2>3 DEF Intact, Untouched, Verifies
  <1>10. Continues'
    <2>1. ASSUME NEW j \in Nat, j # 0, harm' = 0 \/ Len(lines') + j < harm' PROVE FALSE
      BY <1>1, <1>3, <1>4, <1>6, <2>1
    <2>2. log.up => DOMAIN log.pending \in SUBSET (Nat \ {0})
      BY LinesAre DEF AuditInv
    <2>3. log'.up = log.up /\ log'.pending = log.pending /\ log'.begun = log.begun
      BY <1>2
    <2> QED
      BY <1>2, <1>4, <2>1, <2>2, <2>3 DEF AuditInv, Continues, Untouched
  <1> QED
    BY <1>7, <1>8, <1>9, <1>10 DEF AuditInv

(* The invariant holds from the start and is kept by every step.             *)
LEMMA AuditHolds == AuditSpec => []AuditInv
  <1>1. AuditInit => AuditInv
    <2>1. ASSUME AuditInit PROVE AuditInv
      <3>1. <<>> \in Seq(Row \cup {Torn}) /\ <<>> \in Seq(Row) /\ Len(<<>>) = 0 /\ DOMAIN <<>> = {}
        BY EmptySeq
      <3>2. lines = <<>> /\ rest = <<>> /\ log = NotRunning /\ ~log.up /\ emitted = {} /\ changes = 0 /\ harm = 0
        BY <2>1, NotAlike DEF AuditInit
      <3>3. AuditTypeOK
        BY <3>1, <3>2, AuditAssumption DEF AuditTypeOK
      <3> QED
        BY <3>1, <3>2, <3>3 DEF AuditInv, RowsEmitted, Intact, Continues, ToCome
    <2> QED
      BY <2>1
  <1>2. AuditInv /\ [AuditNext]_auditVars => AuditInv'
    <2> SUFFICES ASSUME AuditInv, [AuditNext]_auditVars PROVE AuditInv'
      OBVIOUS
    <2>1. CASE StartLog
      BY <2>1, StartKept
    <2>2. CASE EmitEnds
      BY <2>2, DoesKept, DropKept DEF EmitEnds
    <2>8. CASE ExitLog
      BY <2>8, DoesKept DEF ExitLog
    <2>3. CASE StopLog
      BY <2>3, StopKept
    <2>4. ASSUME NEW body \in Bodies, Emit(body) PROVE AuditInv'
      BY <2>4, LineEmitKept
    <2>5. CASE WriteSome
      BY <2>5, WriteSomeKept
    <2>6. ASSUME NEW i \in DOMAIN lines, Change(i) PROVE AuditInv'
      BY <2>6, ChangeKept
    <2>7. CASE UNCHANGED auditVars
      BY <2>7 DEF auditVars, AuditInv, AuditTypeOK, RowsEmitted, Intact, Untouched, Verifies, Continues, ToCome
    <2> QED
      BY <2>1, <2>2, <2>3, <2>4, <2>5, <2>6, <2>7, <2>8 DEF AuditNext
  <1> QED
    BY <1>1, <1>2, PTL DEF AuditSpec

(* The lines that the verifier reads: those of the file, and what follows    *)
(* the last newline, which is no row.                                        *)
LEMMA FileIs ==
  ASSUME AuditTypeOK
  PROVE  /\ Len(lines) \in Nat /\ Len(FileLines) \in Nat
         /\ Len(FileLines) = IF rest = <<>> THEN Len(lines) ELSE Len(lines) + 1
         /\ DOMAIN FileLines = 1..Len(FileLines)
         /\ \A i \in 1..Len(lines) : FileLines[i] = lines[i]
         /\ rest # <<>> => FileLines[Len(lines) + 1] = Torn
  <1>1. lines \in Seq(Row \cup {Torn}) /\ Torn \in Row \cup {Torn} /\ Len(lines) \in Nat
    BY LinesAre DEF AuditTypeOK
  <1>2. CASE rest = <<>>
    BY <1>1, <1>2, LenProperties DEF FileLines
  <1>3. CASE rest # <<>>
    <2>1. FileLines = Append(lines, Torn)
      BY <1>3 DEF FileLines
    <2>2. /\ FileLines \in Seq(Row \cup {Torn}) /\ Len(FileLines) = Len(lines) + 1
          /\ FileLines[Len(lines) + 1] = Torn
          /\ \A i \in 1..Len(lines) : FileLines[i] = lines[i]
      BY <1>1, <2>1, AppendProperties
    <2> QED
      BY <1>3, <2>2, LenProperties
  <1> QED
    BY <1>2, <1>3

(* verify_chain finds the first line that does not verify, if there is one.  *)
LEMMA FirstBadIs ==
  ASSUME AuditTypeOK
  PROVE  \/ FirstBad = 0 /\ \A i \in DOMAIN FileLines : Verifies(FileLines, i)
         \/ /\ FirstBad \in DOMAIN FileLines /\ ~Verifies(FileLines, FirstBad)
            /\ \A i \in 1..FirstBad - 1 : Verifies(FileLines, i)
  <1> DEFINE D   == DOMAIN FileLines
             Bad == {i \in D : ~Verifies(FileLines, i)}
  <1>1. PICK n \in Nat : D = 1..n
    BY FileIs
  <1>2. CASE Bad = {}
    BY <1>2 DEF FirstBad
  <1>3. CASE Bad # {}
    <2>1. PICK i \in Bad : \A j \in Bad : i <= j
      <3>1. Bad \in SUBSET Nat
        BY <1>1
      <3> HIDE DEF Bad
      <3> QED
        BY <1>3, <3>1, LeastIs
    <2>2. i \in D /\ ~Verifies(FileLines, i) /\ \A j \in 1..i - 1 : ~ ~Verifies(FileLines, j)
      <3>1. ASSUME NEW j \in 1..i - 1 PROVE j \in D /\ j \notin Bad
        BY <1>1, <2>1
      <3> QED
        BY <2>1, <3>1
    <2>3. FirstBad = CHOOSE k \in D : ~Verifies(FileLines, k) /\ \A j \in 1..k - 1 : ~ ~Verifies(FileLines, j)
      BY <1>3 DEF FirstBad
    <2> HIDE DEF D, Bad
    <2>4. FirstBad \in D /\ ~Verifies(FileLines, FirstBad) /\ \A j \in 1..FirstBad - 1 : ~ ~Verifies(FileLines, j)
      BY <2>2, <2>3
    <2> QED
      BY <2>4 DEF D
  <1> QED
    BY <1>2, <1>3

(* A function on the first n numbers is a sequence of that length.           *)
LEMMA FunIsSeq ==
  ASSUME NEW S, NEW n \in Nat, NEW f \in [1..n -> S]
  PROVE  f \in Seq(S) /\ Len(f) = n
  <1>1. f \in Seq(S)
    BY SeqDef
  <1>2. Len(f) \in Nat /\ DOMAIN f = 1..Len(f) /\ DOMAIN f = 1..n
    BY <1>1, LenProperties
  <1>3. Len(f) <= n
    <2>1. Len(f) # 0 => Len(f) \in 1..n
      BY <1>2
    <2> QED
      BY <1>2, <2>1
  <1>4. n <= Len(f)
    <2>1. n # 0 => n \in 1..Len(f)
      BY <1>2
    <2> QED
      BY <1>2, <2>1
  <1> QED
    BY <1>1, <1>2, <1>3, <1>4

(* A row chained to a history carries that history and its own body.         *)
LEMMA HistoryGrows ==
  ASSUME NEW n \in Nat, NEW s, \A i \in 1..n + 1 : s[i].body \in Bodies
  PROVE  /\ [i \in 1..n |-> s[i].body] \in Histories
         /\ Append([i \in 1..n |-> s[i].body], s[n + 1].body) = [i \in 1..n + 1 |-> s[i].body]
  <1> DEFINE f == [i \in 1..n |-> s[i].body]
             g == [i \in 1..n + 1 |-> s[i].body]
             a == Append(f, s[n + 1].body)
  <1>1. f \in Seq(Bodies) /\ Len(f) = n /\ \A i \in 1..n : f[i] = s[i].body
    <2>1. \A i \in 1..n : i \in 1..n + 1
      OBVIOUS
    <2>2. f \in [1..n -> Bodies]
      BY <2>1
    <2> QED
      BY <2>2, FunIsSeq
  <1>2. g \in Seq(Bodies) /\ Len(g) = n + 1 /\ \A i \in 1..n + 1 : g[i] = s[i].body
    <2>1. g \in [1..n + 1 -> Bodies] /\ n + 1 \in Nat
      OBVIOUS
    <2> QED
      BY <2>1, FunIsSeq
  <1>3. /\ a \in Seq(Bodies) /\ Len(a) = n + 1 /\ a[n + 1] = s[n + 1].body
        /\ \A i \in 1..n : a[i] = f[i]
    <2>1. n + 1 \in 1..n + 1
      OBVIOUS
    <2> HIDE DEF f
    <2> QED
      BY <1>1, <2>1, AppendProperties
  <1> HIDE DEF f, g, a
  <1>4. \A i \in 1..n + 1 : i \in 1..n \/ i = n + 1
    OBVIOUS
  <1>5. \A i \in 1..Len(a) : a[i] = g[i]
    BY <1>1, <1>2, <1>3, <1>4
  <1>6. a = g
    BY <1>2, <1>3, <1>5, SeqEqual
  <1> QED
    BY <1>1, <1>6 DEF f, g, a, Histories

(* The hash of a line that verifies, as do those before it, is the history   *)
(* of all of them.                                                           *)
LEMMA HashIsHistory ==
  ASSUME AuditTypeOK, NEW g \in Nat, \A i \in 1..g : Verifies(FileLines, i), g <= Len(FileLines)
  PROVE  /\ g <= Len(lines)
         /\ \A i \in 1..g : lines[i] # Torn /\ lines[i].hash = [j \in 1..i |-> lines[j].body]
  <1>1. /\ Len(lines) \in Nat /\ DOMAIN lines = 1..Len(lines)
        /\ \A i \in 1..Len(lines) : lines[i] \in Row \cup {Torn}
    BY LinesAre
  <1>2. g <= Len(lines)
    <2>1. ~Verifies(FileLines, Len(lines) + 1) \/ Len(FileLines) = Len(lines)
      BY FileIs DEF Verifies
    <2>2. Len(lines) + 1 \in 1..g => Verifies(FileLines, Len(lines) + 1)
      OBVIOUS
    <2>3. Len(FileLines) = Len(lines) \/ Len(FileLines) = Len(lines) + 1
      BY FileIs
    <2> QED
      BY <1>1, <2>1, <2>2, <2>3
  <1>3. ASSUME NEW i \in 1..g
        PROVE  /\ i \in 1..Len(lines) /\ lines[i] \in Row /\ lines[i] # Torn /\ lines[i].body \in Bodies
               /\ lines[i].hash = Append(lines[i].prev, lines[i].body)
               /\ lines[i].prev = IF i = 1 THEN <<>> ELSE lines[i - 1].hash
    <2>1. i \in 1..Len(lines) /\ FileLines[i] = lines[i]
      <3>1. i \in 1..Len(lines)
        BY <1>1, <1>2
      <3> QED
        BY <3>1, FileIs
    <2>2. i # 1 => FileLines[i - 1] = lines[i - 1]
      <3>1. i # 1 => i - 1 \in 1..Len(lines)
        BY <1>1, <2>1
      <3> QED
        BY <3>1, FileIs
    <2>3. Verifies(FileLines, i)
      OBVIOUS
    <2>4. lines[i] # Torn /\ lines[i].hash = Append(lines[i].prev, lines[i].body)
          /\ lines[i].prev = IF i = 1 THEN <<>> ELSE lines[i - 1].hash
      BY <2>1, <2>2, <2>3 DEF Verifies, Digest, Genesis
    <2> QED
      BY <1>1, <2>1, <2>4, RowFields
  <1> DEFINE H(i) == [j \in 1..i |-> lines[j].body]
             Off  == {i \in 1..g : lines[i].hash # H(i)}
  <1>4. Off = {}
    <2>1. SUFFICES ASSUME Off # {} PROVE FALSE
      OBVIOUS
    <2>2. PICK i \in Off : \A j \in Off : i <= j
      <3>1. Off \in SUBSET Nat
        OBVIOUS
      <3> HIDE DEF Off
      <3> QED
        BY <2>1, <3>1, LeastIs
    <2>3. i \in 1..g /\ i - 1 \in Nat /\ (i - 1) + 1 = i /\ i - 1 \notin Off
      BY <2>2
    <2>4. \A j \in 1..i : j \in 1..g
      BY <2>3
    <2>5. /\ H(i - 1) \in Histories
          /\ Append(H(i - 1), lines[i].body) = H(i)
      <3>1. \A j \in 1..(i - 1) + 1 : lines[j].body \in Bodies
        BY <1>3, <2>3, <2>4
      <3>2. /\ [j \in 1..i - 1 |-> lines[j].body] \in Histories
            /\ Append([j \in 1..i - 1 |-> lines[j].body], lines[(i - 1) + 1].body)
                 = [j \in 1..(i - 1) + 1 |-> lines[j].body]
        BY <2>3, <3>1, HistoryGrows
      <3> QED
        BY <2>3, <3>2
    <2>6. lines[i].prev = H(i - 1)
      <3>1. CASE i = 1
        <4>1. H(0) \in Seq(Bodies) /\ DOMAIN H(0) = {}
          BY <2>5, <3>1 DEF Histories
        <4>2. H(0) = <<>>
          BY <4>1, EmptySeq, LenProperties
        <4> QED
          BY <1>3, <2>3, <3>1, <4>2
      <3>2. CASE i # 1
        <4>1. i - 1 \in 1..g
          BY <2>3, <3>2
        <4>2. lines[i - 1].hash = H(i - 1)
          BY <2>3, <4>1
        <4> QED
          BY <1>3, <2>3, <3>2, <4>2
      <3> QED
        BY <3>1, <3>2
    <2>7. lines[i].hash = H(i)
      <3> HIDE DEF H
      <3> QED
        BY <1>3, <2>3, <2>5, <2>6
    <2> QED
      BY <2>2, <2>7
  <1> QED
    BY <1>2, <1>3, <1>4

(* For any rows, failures, restarts and changes after the fact, the lines    *)
(* before the first that does not verify are the first rows of a history     *)
(* that was emitted (audit.py:4, verify_chain).                              *)
THEOREM TrailIsGenuine == AuditSpec => []GenuineUntilBroken
  <1>1. ASSUME AuditInv PROVE GenuineUntilBroken
    <2> USE <1>1 DEF AuditInv
    <2> DEFINE g == IF FirstBad = 0 THEN Len(FileLines) ELSE FirstBad - 1
    <2>1. Len(FileLines) \in Nat /\ DOMAIN FileLines = 1..Len(FileLines)
      BY FileIs
    <2>2. g \in Nat /\ g <= Len(FileLines) /\ \A i \in 1..g : Verifies(FileLines, i)
      BY <2>1, FirstBadIs
    <2>3. SUFFICES ASSUME g > 0 PROVE [i \in 1..g |-> lines[i].body] \in emitted
      BY DEF GenuineUntilBroken
    <2> HIDE DEF g
    <2>4. /\ g <= Len(lines)
          /\ \A i \in 1..g : lines[i] # Torn /\ lines[i].hash = [j \in 1..i |-> lines[j].body]
      BY <2>2, HashIsHistory
    <2>5. g \in 1..g /\ g \in DOMAIN lines
      BY <2>2, <2>3, <2>4, LinesAre
    <2> QED
      BY <2>4, <2>5 DEF RowsEmitted
  <1> QED
    BY <1>1, AuditHolds, PTL

(* And verify_chain blames no line but one that was changed, cut short by a  *)
(* process that ended, or is being written, or one that stands where a row   *)
(* was lost by a failed write, or one after such a line: a restart, or a     *)
(* write made good later, breaks nothing.                                    *)
THEOREM BadLineWasHarmed == AuditSpec => []BlamesHarm
  <1>1. ASSUME AuditInv PROVE BlamesHarm
    <2> USE <1>1 DEF AuditInv
    <2>1. SUFFICES ASSUME FirstBad # 0, harm = 0 \/ FirstBad < harm
                   PROVE  log.up /\ rest # <<>> /\ FirstBad = Len(lines) + 1
      <3>1. harm \in Nat /\ (FirstBad # 0 => FirstBad \in Nat)
        BY FirstBadIs, FileIs DEF AuditTypeOK
      <3> QED
        BY <3>1 DEF BlamesHarm
    <2>2. FirstBad \in 1..Len(FileLines) /\ ~Verifies(FileLines, FirstBad)
      BY <2>1, FirstBadIs, FileIs
    <2>3. Len(lines) \in Nat /\ DOMAIN lines = 1..Len(lines)
      BY LinesAre
    <2>4. FirstBad \notin 1..Len(lines)
      <3>1. SUFFICES ASSUME FirstBad \in 1..Len(lines) PROVE FALSE
        OBVIOUS
      <3>2. Verifies(lines, FirstBad)
        BY <2>1, <2>3, <3>1 DEF Intact, Untouched
      <3>3. FileLines[FirstBad] = lines[FirstBad]
        BY <3>1, FileIs
      <3>4. FirstBad # 1 => FileLines[FirstBad - 1] = lines[FirstBad - 1]
        <4>1. FirstBad # 1 => FirstBad - 1 \in 1..Len(lines)
          BY <2>3, <3>1
        <4> QED
          BY <4>1, FileIs
      <3> QED
        BY <2>2, <3>2, <3>3, <3>4 DEF Verifies
    <2>5. rest # <<>> /\ FirstBad = Len(lines) + 1
      <3>1. Len(FileLines) = IF rest = <<>> THEN Len(lines) ELSE Len(lines) + 1
        BY FileIs
      <3>2. rest # <<>>
        BY <2>2, <2>4, <3>1
      <3> QED
        BY <2>2, <2>3, <2>4, <3>1, <3>2
    <2>6. log.up
      <3>1. SUFFICES ASSUME ~log.up PROVE FALSE
        OBVIOUS
      <3>2. harm = 0
        BY <2>1, <2>3, <2>5, <3>1 DEF Intact, AuditTypeOK, ToCome
      <3> QED
        BY <2>5, <3>1, <3>2 DEF Continues
    <2> QED
      BY <2>5, <2>6
  <1> QED
    BY <1>1, AuditHolds, PTL

-----------------------------------------------------------------------------
(* The copy on the wire.                                                     *)

(* What is in a sequence.                                                    *)
Elements(s) == {s[i] : i \in DOMAIN s}

(* Row numbers ascend from the collector over the sender to the queue.       *)
Ascending ==
    /\ \A i \in DOMAIN queued : queued[i] \in 1..Len(rows)
    /\ \A i, j \in DOMAIN queued : i < j => queued[i] < queued[j]
    /\ sending # 0 => sending <= Len(rows) /\ \A i \in DOMAIN queued : sending < queued[i]
    /\ \A i \in DOMAIN collected :
          /\ collected[i].row \in 1..Len(rows)
          /\ collected[i].event = Shipped(rows[collected[i].row])
          /\ sending # 0 => collected[i].row < sending
          /\ \A j \in DOMAIN queued : collected[i].row < queued[j]
    /\ \A i, j \in DOMAIN collected : i < j => collected[i].row < collected[j].row

Deciding(d) == {n \in (since + 1)..Len(rows) : rows[n].decision = d}

(* Every row is somewhere, and every one since the start has been counted.   *)
SomewhereCounted ==
    /\ 1..Len(rows) = {collected[i].row : i \in DOMAIN collected} \cup gone
                      \cup Elements(queued) \cup ({sending} \ {0})
    /\ \A d \in RowDecisions : counters[<<"decisions", d>>] = Cardinality(Deciding(d))
    /\ \A n \in CounterNames : counters[n] <= Len(rows)
    /\ since <= Len(rows) /\ Len(rows) <= MaxEmits

ForwardInv == ForwardTypeOK /\ Ascending /\ SomewhereCounted

(* What the head and the end of a sequence do to its elements.               *)
LEMMA HeadElements ==
  ASSUME NEW S, NEW s \in Seq(S), s # <<>>
  PROVE  /\ Head(s) = s[1] /\ Tail(s) \in Seq(S) /\ Len(Tail(s)) = Len(s) - 1 /\ 1 \in DOMAIN s
         /\ \A i \in DOMAIN Tail(s) : i + 1 \in DOMAIN s /\ Tail(s)[i] = s[i + 1]
         /\ Elements(s) = {Head(s)} \cup Elements(Tail(s))
  <1>1. /\ Head(s) = s[1] /\ Tail(s) \in Seq(S) /\ Len(Tail(s)) = Len(s) - 1 /\ 1 \in DOMAIN s
        /\ \A i \in DOMAIN Tail(s) : i + 1 \in DOMAIN s /\ Tail(s)[i] = s[i + 1]
    OBVIOUS
  <1>2. \A i \in DOMAIN s : i = 1 \/ (i - 1 \in DOMAIN Tail(s) /\ Tail(s)[i - 1] = s[i])
    OBVIOUS
  <1>3. \A i \in DOMAIN s : s[i] \in {Head(s)} \cup Elements(Tail(s))
    <2> SUFFICES ASSUME NEW i \in DOMAIN s, i # 1 PROVE s[i] \in Elements(Tail(s))
      BY <1>1
    <2> QED
      BY <1>2 DEF Elements
  <1>4. \A x \in {Head(s)} \cup Elements(Tail(s)) : x \in Elements(s)
    BY <1>1 DEF Elements
  <1>5. \A x \in Elements(s) : x \in {Head(s)} \cup Elements(Tail(s))
    BY <1>3 DEF Elements
  <1> QED
    BY <1>1, <1>4, <1>5

(* What is put at the end is in it, after all others.                        *)
LEMMA AppendElements ==
  ASSUME NEW S, NEW s \in Seq(S), NEW x \in S
  PROVE  /\ Append(s, x) \in Seq(S) /\ Len(Append(s, x)) = Len(s) + 1
         /\ \A i \in DOMAIN s : i \in DOMAIN Append(s, x) /\ Append(s, x)[i] = s[i]
         /\ Append(s, x)[Len(s) + 1] = x /\ Len(s) + 1 \in DOMAIN Append(s, x)
         /\ \A i \in DOMAIN Append(s, x) : i \in DOMAIN s \/ i = Len(s) + 1
         /\ DOMAIN s = 1..Len(s) /\ Len(s) \in Nat
         /\ Elements(Append(s, x)) = Elements(s) \cup {x}
  <1>0. Len(s) \in Nat /\ DOMAIN s = 1..Len(s)
    BY LenProperties
  <1>1. Append(s, x) \in Seq(S) /\ Len(Append(s, x)) = Len(s) + 1
    OBVIOUS
  <1>2. DOMAIN Append(s, x) = 1..(Len(s) + 1)
    BY <1>1, LenProperties
  <1>3. \A i \in DOMAIN s : i \in DOMAIN Append(s, x) /\ Append(s, x)[i] = s[i]
    OBVIOUS
  <1>4. Append(s, x)[Len(s) + 1] = x
    OBVIOUS
  <1>5. Len(s) + 1 \in DOMAIN Append(s, x) /\ \A i \in DOMAIN Append(s, x) : i \in DOMAIN s \/ i = Len(s) + 1
    BY <1>0, <1>2
  <1> QED
    BY <1>0, <1>1, <1>3, <1>4, <1>5 DEF Elements

(* A row is counted under its decision, and under no other.                  *)
LEMMA CountedOnce ==
  ASSUME NEW k \in RowKinds, NEW d \in RowDecisions
  PROVE  <<"decisions", d>> \in CounterNames
         /\ (<<"decisions", d>> \in CountersOf(k) <=> d = k.decision)
  <1>1. k.decision \in RowDecisions
    BY ForwardAssumption DEF RowKind
  <1>2. \A x, y : <<"decisions", x>> = <<"decisions", y>> => x = y
    OBVIOUS
  <1>3. \A x, y : <<"decisions", x>> # <<"rule_hits", y>> /\ <<"decisions", x>> # <<"alerts", y>>
                  /\ <<"decisions", x>> # <<"redactions", y>>
    OBVIOUS
  <1>4. <<"decisions", d>> \in CounterNames
    BY DEF CounterNames
  <1>5. \A c \in CountersOf(k) : \/ c = <<"decisions", k.decision>> \/ c = <<"rule_hits", k.decision>>
                                 \/ c = <<"alerts", "">> \/ c = <<"redactions", "">>
    BY DEF CountersOf
  <1>6. <<"decisions", k.decision>> \in CountersOf(k)
    BY DEF CountersOf
  <1> QED
    BY <1>2, <1>3, <1>4, <1>5, <1>6

(* What the collector has after a row was sent to it, or was not.            *)
LEMMA CollectedIs ==
  ASSUME ForwardInv, UNCHANGED rows, collected' = collected \/ (sending # 0 /\ Collects)
  PROVE  /\ collected' \in Seq([row : 1..MaxEmits, event : {Shipped(k) : k \in RowKinds}])
         /\ \A i \in DOMAIN collected' :
               /\ collected'[i].row \in 1..Len(rows)
               /\ collected'[i].event = Shipped(rows[collected'[i].row])
               /\ \A j \in DOMAIN queued : collected'[i].row < queued[j]
         /\ \A i, j \in DOMAIN collected' : i < j => collected'[i].row < collected'[j].row
         /\ \A i \in DOMAIN collected : i \in DOMAIN collected' /\ collected'[i] = collected[i]
         /\ \A i \in DOMAIN collected' : \/ i \in DOMAIN collected /\ collected'[i] = collected[i]
                                         \/ sending # 0 /\ collected'[i].row = sending
         /\ sending # 0 /\ Collects => \E i \in DOMAIN collected' : collected'[i].row = sending
  <1>1. CASE collected' = collected /\ ~(sending # 0 /\ Collects)
    BY <1>1 DEF ForwardInv, ForwardTypeOK, Ascending
  <1>2. CASE sending # 0 /\ Collects
    <2> DEFINE Event == [row : 1..MaxEmits, event : {Shipped(k) : k \in RowKinds}]
               sent == [row |-> sending, event |-> Shipped(rows[sending])]
    <2>1. sending \in 1..Len(rows) /\ rows[sending] \in RowKinds /\ sending \in 1..MaxEmits
      BY <1>2 DEF ForwardInv, ForwardTypeOK, Ascending
    <2>2. sent \in Event /\ sent.row = sending /\ sent.event = Shipped(rows[sending])
      BY <2>1
    <2>3. collected \in Seq(Event) /\ collected' = Append(collected, sent)
      BY <1>2 DEF ForwardInv, ForwardTypeOK, Collects
    <2> HIDE DEF sent, Event
    <2>4. /\ collected' \in Seq(Event) /\ Len(collected) \in Nat /\ DOMAIN collected = 1..Len(collected)
          /\ \A i \in DOMAIN collected : i \in DOMAIN collected' /\ collected'[i] = collected[i]
          /\ collected'[Len(collected) + 1] = sent /\ Len(collected) + 1 \in DOMAIN collected'
          /\ \A i \in DOMAIN collected' : i \in DOMAIN collected \/ i = Len(collected) + 1
      BY <2>2, <2>3, AppendElements
    <2>5. ASSUME NEW i \in DOMAIN collected'
          PROVE  \/ i \in DOMAIN collected /\ collected'[i] = collected[i]
                 \/ i = Len(collected) + 1 /\ collected'[i] = sent
      <3>1. i \in DOMAIN collected \/ i = Len(collected) + 1
        BY <2>4
      <3> QED
        BY <2>4, <3>1, Zenon
    <2>6. \A i \in DOMAIN collected : /\ collected[i].row \in 1..Len(rows)
                                     /\ collected[i].event = Shipped(rows[collected[i].row])
                                     /\ collected[i].row < sending
                                     /\ \A j \in DOMAIN queued : collected[i].row < queued[j]
      BY <1>2 DEF ForwardInv, Ascending
    <2>7. \A j \in DOMAIN queued : sending < queued[j]
      BY <1>2 DEF ForwardInv, Ascending
    <2>8. \A i, j \in DOMAIN collected' : i < j => collected'[i].row < collected'[j].row
      <3> SUFFICES ASSUME NEW i \in DOMAIN collected', NEW j \in DOMAIN collected', i < j
                   PROVE  collected'[i].row < collected'[j].row
        OBVIOUS
      <3>1. i \in DOMAIN collected
        BY <2>4
      <3>2. CASE j \in DOMAIN collected
        BY <2>4, <3>1, <3>2 DEF ForwardInv, Ascending
      <3>3. CASE j = Len(collected) + 1
        BY <2>2, <2>4, <2>6, <3>1, <3>3
      <3> QED
        BY <2>4, <3>2, <3>3
    <2> QED
      BY <1>2, <2>1, <2>2, <2>4, <2>5, <2>6, <2>7, <2>8 DEF Event
  <1> QED
    BY <1>1, <1>2

(* A row is emitted: counted, and queued or dropped.                         *)
LEMMA RowEmitKept ==
  ASSUME ForwardInv, NEW k \in RowKinds, EmitRow(k)
  PROVE  ForwardInv'
  <1> DEFINE n == Len(rows) + 1
  <1> USE ForwardAssumption
  <1>1. /\ Len(rows) \in Nat /\ n \in 1..MaxEmits /\ rows' = Append(rows, k)
        /\ UNCHANGED <<sending, collected, errored, since>>
        /\ \/ queued' = Append(queued, n) /\ Len(queued) < QueueSize /\ gone' = gone
           \/ queued' = queued /\ gone' = gone \cup {n}
        /\ counters' = Counted(counters, k) /\ MaxEmits \in Nat
    BY DEF EmitRow, ForwardInv, ForwardTypeOK
  <1>2. /\ rows' \in Seq(RowKinds) /\ Len(rows') = n /\ rows'[n] = k
        /\ \A i \in 1..Len(rows) : rows'[i] = rows[i]
    BY <1>1, AppendElements DEF ForwardInv, ForwardTypeOK
  <1> HIDE DEF n
  <1>3. /\ queued' \in Seq(1..MaxEmits) /\ Len(queued') <= QueueSize
        /\ \A i \in DOMAIN queued : i \in DOMAIN queued' /\ queued'[i] = queued[i]
        /\ \A i \in DOMAIN queued' : \/ i \in DOMAIN queued /\ queued'[i] = queued[i]
                                     \/ i = Len(queued) + 1 /\ queued'[i] = n
        /\ DOMAIN queued = 1..Len(queued) /\ Len(queued) \in Nat
    <2>1. queued \in Seq(1..MaxEmits) /\ Len(queued) <= QueueSize
      BY DEF ForwardInv, ForwardTypeOK
    <2>2. CASE queued' = queued
      BY <2>1, <2>2, LenProperties
    <2>3. CASE queued' = Append(queued, n) /\ Len(queued) < QueueSize
      <3>1. /\ queued' \in Seq(1..MaxEmits) /\ Len(queued') = Len(queued) + 1
            /\ \A i \in DOMAIN queued : i \in DOMAIN queued' /\ queued'[i] = queued[i]
            /\ queued'[Len(queued) + 1] = n
            /\ \A i \in DOMAIN queued' : i \in DOMAIN queued \/ i = Len(queued) + 1
            /\ DOMAIN queued = 1..Len(queued) /\ Len(queued) \in Nat
        BY <1>1, <2>1, <2>3, AppendElements
      <3> QED
        BY <2>3, <3>1
    <2> QED
      BY <1>1, <2>2, <2>3
  <1>4. Elements(queued') \cup gone' = Elements(queued) \cup gone \cup {n}
    <2>1. queued \in Seq(1..MaxEmits)
      BY DEF ForwardInv, ForwardTypeOK
    <2>2. queued' = Append(queued, n) => Elements(queued') = Elements(queued) \cup {n}
      BY <1>1, <2>1, AppendElements
    <2> QED
      BY <1>1, <2>2
  <1>r. Len(rows) \in Nat /\ n = Len(rows) + 1
    BY <1>1 DEF n
  <1>5. Ascending'
    <2>0. \A i \in DOMAIN queued : queued[i] \in 1..Len(rows) /\ (sending # 0 => sending < queued[i])
      BY DEF ForwardInv, Ascending
    <2>1. \A i \in DOMAIN queued' : queued'[i] \in 1..n /\ (i \in DOMAIN queued => queued'[i] < n)
      BY <1>r, <1>3, <2>0
    <2>2. ASSUME NEW i \in DOMAIN queued', NEW j \in DOMAIN queued', i < j PROVE queued'[i] < queued'[j]
      <3>1. i \in DOMAIN queued
        BY <1>3, <2>2
      <3>2. CASE j \in DOMAIN queued
        BY <1>3, <2>2, <3>1, <3>2 DEF ForwardInv, Ascending
      <3>3. CASE queued'[j] = n
        BY <2>1, <3>1, <3>3
      <3> QED
        BY <1>3, <3>2, <3>3
    <2>3. sending # 0 => sending <= n /\ \A i \in DOMAIN queued' : sending < queued'[i]
      <3>1. sending # 0 => sending <= Len(rows) /\ sending \in Nat
        BY <1>1 DEF ForwardInv, ForwardTypeOK, Ascending
      <3> QED
        BY <1>r, <1>3, <2>0, <3>1
    <2>4. \A i \in DOMAIN collected :
            /\ collected[i].row \in 1..n
            /\ collected[i].event = Shipped(rows'[collected[i].row])
            /\ \A j \in DOMAIN queued' : collected[i].row < queued'[j]
      <3> SUFFICES ASSUME NEW i \in DOMAIN collected
                   PROVE  /\ collected[i].row \in 1..n
                          /\ collected[i].event = Shipped(rows'[collected[i].row])
                          /\ \A j \in DOMAIN queued' : collected[i].row < queued'[j]
        OBVIOUS
      <3>1. /\ collected[i].row \in 1..Len(rows)
            /\ collected[i].event = Shipped(rows[collected[i].row])
            /\ \A j \in DOMAIN queued : collected[i].row < queued[j]
        BY DEF ForwardInv, Ascending
      <3>2. collected[i].row < n /\ rows'[collected[i].row] = rows[collected[i].row]
        BY <1>1, <1>2, <3>1 DEF n
      <3>3. \A j \in DOMAIN queued' : collected[i].row < queued'[j]
        BY <1>3, <3>1, <3>2
      <3> QED
        BY <1>r, <3>1, <3>2, <3>3
    <2> QED
      BY <1>1, <1>2, <2>1, <2>2, <2>3, <2>4 DEF ForwardInv, Ascending
  <1>6. \A d \in RowDecisions : counters'[<<"decisions", d>>] = Cardinality(Deciding(d)')
    <2> SUFFICES ASSUME NEW d \in RowDecisions
                 PROVE  counters'[<<"decisions", d>>] = Cardinality(Deciding(d)')
      OBVIOUS
    <2>1. since \in Nat /\ since <= Len(rows) /\ since' = since
      BY <1>1 DEF ForwardInv, ForwardTypeOK, SomewhereCounted
    <2>2. Deciding(d)' = IF k.decision = d THEN Deciding(d) \cup {n} ELSE Deciding(d)
      <3>1. \A m \in (since + 1)..n : m = n \/ (m \in (since + 1)..Len(rows) /\ rows'[m] = rows[m])
        BY <1>1, <1>2, <2>1 DEF n
      <3>2. (since + 1)..Len(rows) \subseteq (since + 1)..n /\ n \in (since + 1)..n
        BY <1>1, <2>1 DEF n
      <3>3. \A m \in (since + 1)..Len(rows) : rows'[m] = rows[m] /\ m # n
        BY <1>1, <1>2, <2>1 DEF n
      <3> QED
        BY <1>2, <2>1, <3>1, <3>2, <3>3 DEF Deciding
    <2>3. n \notin Deciding(d) /\ IsFiniteSet(Deciding(d))
      <3>1. IsFiniteSet((since + 1)..Len(rows))
        BY <1>1, <2>1, FS_Interval
      <3>2. Deciding(d) \subseteq (since + 1)..Len(rows) /\ n \notin (since + 1)..Len(rows)
        BY <1>1, <2>1 DEF Deciding, n
      <3> QED
        BY <3>1, <3>2, FS_Subset
    <2>4. Cardinality(Deciding(d) \cup {n}) = Cardinality(Deciding(d)) + 1
      BY <2>3, FS_AddElement
    <2>5. counters'[<<"decisions", d>>] = IF d = k.decision THEN counters[<<"decisions", d>>] + 1
                                                            ELSE counters[<<"decisions", d>>]
      BY <1>1, CountedOnce DEF Counted
    <2> QED
      BY <2>2, <2>4, <2>5 DEF ForwardInv, SomewhereCounted
  <1>7. counters' \in [CounterNames -> 0..MaxEmits] /\ \A c \in CounterNames : counters'[c] <= n
    <2>1. \A c \in CounterNames : counters[c] \in Nat /\ counters[c] <= Len(rows)
      BY DEF ForwardInv, ForwardTypeOK, SomewhereCounted
    <2>2. \A c \in CounterNames : (IF c \in CountersOf(k) THEN counters[c] + 1 ELSE counters[c]) \in 0..n
      BY <1>1, <2>1 DEF n
    <2> QED
      BY <1>1, <2>2 DEF Counted
  <1>8. SomewhereCounted'
    <2>1. 1..n = (1..Len(rows)) \cup {n}
      BY <1>1 DEF n
    <2>2. 1..n = {collected[i].row : i \in DOMAIN collected} \cup gone'
                 \cup Elements(queued') \cup ({sending} \ {0})
      BY <1>4, <2>1 DEF ForwardInv, SomewhereCounted
    <2>3. since <= n /\ n <= MaxEmits
      BY <1>1 DEF ForwardInv, ForwardTypeOK, SomewhereCounted, n
    <2>4. 1..Len(rows') = {collected'[i].row : i \in DOMAIN collected'} \cup gone'
                          \cup Elements(queued') \cup ({sending'} \ {0})
      BY <1>1, <1>2, <2>2
    <2>5. \A m \in CounterNames : counters'[m] <= Len(rows')
      BY <1>2, <1>7
    <2>6. since' <= Len(rows') /\ Len(rows') <= MaxEmits
      BY <1>1, <1>2, <2>3
    <2>7. Elements(queued)' = Elements(queued')
      BY DEF Elements
    <2> QED
      BY <1>6, <2>4, <2>5, <2>6, <2>7, Zenon DEF SomewhereCounted
  <1>9. ForwardTypeOK'
    <2>1. gone' \subseteq 1..MaxEmits
      BY <1>1 DEF ForwardInv, ForwardTypeOK
    <2> QED
      BY <1>1, <1>2, <1>3, <1>7, <2>1 DEF ForwardInv, ForwardTypeOK
  <1> QED
    BY <1>5, <1>8, <1>9 DEF ForwardInv

(* The sender takes the first row of the queue.                              *)
LEMMA TakeKept ==
  ASSUME ForwardInv, TakeRow
  PROVE  ForwardInv'
  <1>1. /\ sending = 0 /\ queued # <<>> /\ sending' = Head(queued) /\ queued' = Tail(queued)
        /\ UNCHANGED <<rows, collected, errored, counters, since, gone>>
        /\ queued \in Seq(1..MaxEmits) /\ Len(queued) <= QueueSize
    BY DEF TakeRow, ForwardInv, ForwardTypeOK
  <1>2. /\ sending' = queued[1] /\ queued' \in Seq(1..MaxEmits) /\ Len(queued') = Len(queued) - 1
        /\ 1 \in DOMAIN queued
        /\ \A i \in DOMAIN queued' : i + 1 \in DOMAIN queued /\ queued'[i] = queued[i + 1]
        /\ Elements(queued) = {sending'} \cup Elements(queued')
    BY <1>1, HeadElements
  <1>3. DOMAIN queued = 1..Len(queued) /\ DOMAIN queued' = 1..Len(queued') /\ Len(queued) \in Nat
    BY <1>1, <1>2, LenProperties
  <1>4. /\ sending' \in 1..Len(rows) /\ \A i \in DOMAIN queued : queued[i] \in 1..Len(rows)
        /\ \A i, j \in DOMAIN queued : i < j => queued[i] < queued[j]
    BY <1>2 DEF ForwardInv, Ascending
  <1>5. \A i \in DOMAIN queued' : queued'[i] \in 1..Len(rows) /\ sending' < queued'[i]
    <2> SUFFICES ASSUME NEW i \in DOMAIN queued' PROVE queued'[i] \in 1..Len(rows) /\ sending' < queued'[i]
      OBVIOUS
    <2>1. i + 1 \in DOMAIN queued /\ queued'[i] = queued[i + 1] /\ 1 < i + 1
      BY <1>2, <1>3
    <2> QED
      BY <1>2, <1>4, <2>1
  <1>6. ASSUME NEW i \in DOMAIN queued', NEW j \in DOMAIN queued', i < j PROVE queued'[i] < queued'[j]
    <2>1. i + 1 < j + 1
      BY <1>3, <1>6
    <2> QED
      BY <1>2, <1>4, <2>1
  <1>7. ASSUME NEW i \in DOMAIN collected
        PROVE  collected[i].row < sending' /\ \A j \in DOMAIN queued' : collected[i].row < queued'[j]
    BY <1>2 DEF ForwardInv, Ascending
  <1>8. Ascending'
    <2>1. sending' <= Len(rows)
      BY <1>4
    <2> QED
      BY <1>1, <1>5, <1>6, <1>7, <2>1 DEF ForwardInv, Ascending
  <1>9. SomewhereCounted'
    <2>1. sending' # 0
      BY <1>4
    <2>2. Elements(queued) \cup ({sending} \ {0}) = Elements(queued') \cup ({sending'} \ {0})
      BY <1>1, <1>2, <2>1
    <2>3. \A d : Deciding(d)' = Deciding(d)
      BY <1>1 DEF Deciding
    <2>4. 1..Len(rows) = {collected[i].row : i \in DOMAIN collected} \cup gone
                         \cup (Elements(queued) \cup ({sending} \ {0}))
      BY DEF ForwardInv, SomewhereCounted
    <2>5. 1..Len(rows) = {collected[i].row : i \in DOMAIN collected} \cup gone
                         \cup Elements(queued') \cup ({sending'} \ {0})
      BY <2>2, <2>4
    <2> QED
      BY <1>1, <2>3, <2>5 DEF ForwardInv, SomewhereCounted, Elements
  <1>10. ForwardTypeOK'
    <2>1. sending' \in 0..MaxEmits
      BY <1>1, <1>2, <1>4, ForwardAssumption DEF ForwardInv, SomewhereCounted
    <2>2. Len(queued') <= QueueSize
      BY <1>1, <1>2, <1>3, ForwardAssumption
    <2> QED
      BY <1>1, <1>2, <2>1, <2>2 DEF ForwardInv, ForwardTypeOK
  <1> QED
    BY <1>8, <1>9, <1>10 DEF ForwardInv

(* The sender lets go of a row: it is at the collector, or gone.             *)
LEMMA SentKept ==
  ASSUME ForwardInv, SendRow \/ SendFails
  PROVE  ForwardInv'
  <1>1. /\ sending # 0 /\ sending' = 0 /\ UNCHANGED <<rows, queued, counters, since>> /\ errored' \in BOOLEAN
        /\ (Collects /\ gone' = gone) \/ (gone' = gone \cup {sending} /\ collected' = collected)
    BY DEF SendRow, SendFails, ForwardInv, ForwardTypeOK
  <1> DEFINE At(c) == {c[i].row : i \in DOMAIN c}
  <1>2. /\ collected' \in Seq([row : 1..MaxEmits, event : {Shipped(k) : k \in RowKinds}])
        /\ \A i \in DOMAIN collected' :
              /\ collected'[i].row \in 1..Len(rows)
              /\ collected'[i].event = Shipped(rows[collected'[i].row])
              /\ \A j \in DOMAIN queued : collected'[i].row < queued[j]
        /\ \A i, j \in DOMAIN collected' : i < j => collected'[i].row < collected'[j].row
        /\ \A i \in DOMAIN collected : i \in DOMAIN collected' /\ collected'[i] = collected[i]
        /\ \A i \in DOMAIN collected' : \/ i \in DOMAIN collected /\ collected'[i] = collected[i]
                                        \/ sending # 0 /\ collected'[i].row = sending
        /\ sending # 0 /\ Collects => \E i \in DOMAIN collected' : collected'[i].row = sending
    BY <1>1, CollectedIs
  <1>3. At(collected') \cup gone' = At(collected) \cup gone \cup {sending}
    <2>1. At(collected) \subseteq At(collected') /\ At(collected') \subseteq At(collected) \cup {sending}
      BY <1>2
    <2>2. Collects => sending \in At(collected')
      BY <1>1, <1>2
    <2> HIDE DEF At
    <2> QED
      BY <1>1, <2>1, <2>2
  <1>4. Ascending'
    BY <1>1, <1>2 DEF ForwardInv, Ascending
  <1>5. SomewhereCounted'
    <2>1. 1..Len(rows) = At(collected) \cup gone \cup Elements(queued) \cup ({sending} \ {0})
      BY DEF ForwardInv, SomewhereCounted
    <2>2. 1..Len(rows) = At(collected') \cup gone' \cup Elements(queued) \cup ({sending'} \ {0})
      <3> HIDE DEF At
      <3> QED
        BY <1>1, <1>3, <2>1
    <2>3. \A d : Deciding(d)' = Deciding(d)
      BY <1>1 DEF Deciding
    <2> QED
      BY <1>1, <2>2, <2>3 DEF ForwardInv, SomewhereCounted, Elements
  <1>6. ForwardTypeOK'
    <2>1. gone' \subseteq 1..MaxEmits /\ sending' \in 0..MaxEmits
      <3>1. sending \in 1..MaxEmits /\ gone \subseteq 1..MaxEmits /\ 0 \in 0..MaxEmits
        BY <1>1, ForwardAssumption DEF ForwardInv, ForwardTypeOK
      <3>2. gone' \subseteq gone \cup {sending}
        BY <1>1
      <3> QED
        BY <1>1, <3>1, <3>2
    <2> QED
      BY <1>1, <1>2, <2>1 DEF ForwardInv, ForwardTypeOK
  <1> QED
    BY <1>4, <1>5, <1>6 DEF ForwardInv

(* What was on its way when the process ended is gone.                       *)
LEMMA RestartKept ==
  ASSUME ForwardInv, Restarted
  PROVE  ForwardInv'
  <1> DEFINE At(c) == {c[i].row : i \in DOMAIN c}
  <1>1. /\ sending' = 0 /\ queued' = <<>> /\ UNCHANGED rows /\ errored' = FALSE
        /\ counters' = NoCounts /\ since' = Len(rows)
        /\ gone' = gone \cup Elements(queued) \cup (IF sending = 0 THEN {} ELSE {sending})
        /\ collected' = collected \/ (sending # 0 /\ Collects)
    BY DEF Restarted, Elements
  <1>2. /\ collected' \in Seq([row : 1..MaxEmits, event : {Shipped(k) : k \in RowKinds}])
        /\ \A i \in DOMAIN collected' :
              /\ collected'[i].row \in 1..Len(rows)
              /\ collected'[i].event = Shipped(rows[collected'[i].row])
        /\ \A i, j \in DOMAIN collected' : i < j => collected'[i].row < collected'[j].row
        /\ \A i \in DOMAIN collected : i \in DOMAIN collected' /\ collected'[i] = collected[i]
        /\ \A i \in DOMAIN collected' : \/ i \in DOMAIN collected /\ collected'[i] = collected[i]
                                        \/ sending # 0 /\ collected'[i].row = sending
    BY <1>1, CollectedIs
  <1>3. Len(rows) \in 0..MaxEmits
    BY ForwardAssumption DEF ForwardInv, ForwardTypeOK, SomewhereCounted
  <1>4. Ascending'
    BY <1>1, <1>2 DEF Ascending
  <1>5. SomewhereCounted'
    <2>1. 1..Len(rows) = At(collected) \cup gone \cup Elements(queued) \cup ({sending} \ {0})
      BY DEF ForwardInv, SomewhereCounted
    <2>2. At(collected) \subseteq At(collected') /\ At(collected') \subseteq At(collected) \cup ({sending} \ {0})
      BY <1>2
    <2>3. 1..Len(rows) = At(collected') \cup gone' \cup {} \cup ({sending'} \ {0})
      <3> HIDE DEF At
      <3> QED
        BY <1>1, <2>1, <2>2
    <2>4. Elements(queued') = {}
      BY <1>1 DEF Elements
    <2>5. \A d : Deciding(d)' = {}
      BY <1>1, <1>3 DEF Deciding
    <2>6. Cardinality({}) = 0
      BY FS_EmptySet
    <2>7. \A c \in CounterNames : counters'[c] = 0
      BY <1>1 DEF NoCounts
    <2>8. \A d \in RowDecisions : counters'[<<"decisions", d>>] = Cardinality(Deciding(d)')
      <3> SUFFICES ASSUME NEW d \in RowDecisions PROVE counters'[<<"decisions", d>>] = Cardinality(Deciding(d)')
        OBVIOUS
      <3>1. <<"decisions", d>> \in CounterNames
        BY DEF CounterNames
      <3> QED
        BY <2>5, <2>6, <2>7, <3>1
    <2> QED
      BY <1>1, <1>3, <2>3, <2>4, <2>7, <2>8 DEF SomewhereCounted, Elements
  <1>6. ForwardTypeOK'
    <2>1. gone' \subseteq 1..MaxEmits
      <3>1. Elements(queued) \subseteq 1..MaxEmits
        <4>1. queued \in [1..Len(queued) -> 1..MaxEmits] /\ DOMAIN queued = 1..Len(queued)
          BY LenProperties DEF ForwardInv, ForwardTypeOK
        <4> QED
          BY <4>1 DEF Elements
      <3>2. sending # 0 => sending \in 1..MaxEmits
        BY ForwardAssumption DEF ForwardInv, ForwardTypeOK
      <3>3. gone \subseteq 1..MaxEmits
        BY DEF ForwardInv, ForwardTypeOK
      <3> QED
        BY <1>1, <3>1, <3>2, <3>3
    <2>2. queued' \in Seq(1..MaxEmits) /\ Len(queued') <= QueueSize /\ sending' \in 0..MaxEmits
      BY <1>1, ForwardAssumption
    <2>3. counters' \in [CounterNames -> 0..MaxEmits]
      BY <1>1, ForwardAssumption DEF NoCounts
    <2> QED
      BY <1>1, <1>2, <1>3, <2>1, <2>2, <2>3 DEF ForwardInv, ForwardTypeOK
  <1> QED
    BY <1>4, <1>5, <1>6 DEF ForwardInv

(* The invariant holds at every step.                                        *)
LEMMA RowsHold == ForwardSpec => []ForwardInv
  <1>1. FwdInit => ForwardInv
    <2> SUFFICES ASSUME FwdInit PROVE ForwardInv
      OBVIOUS
    <2>1. ForwardTypeOK
      <3>1. \A S : <<>> \in Seq(S)
        BY EmptySeq
      <3>2. 0 \in 0..MaxEmits /\ Len(<<>>) <= QueueSize
        BY ForwardAssumption
      <3>3. counters \in [CounterNames -> 0..MaxEmits]
        BY <3>2 DEF FwdInit, NoCounts
      <3> DEFINE Event == [row : 1..MaxEmits, event : {Shipped(k) : k \in RowKinds}]
      <3>4. rows \in Seq(RowKinds) /\ queued \in Seq(1..MaxEmits) /\ collected \in Seq(Event)
        <4> HIDE DEF Event
        <4> QED
          BY <3>1 DEF FwdInit
      <3>5. Len(queued) <= QueueSize /\ sending \in 0..MaxEmits /\ since \in 0..MaxEmits
            /\ errored \in BOOLEAN /\ gone \subseteq 1..MaxEmits
        BY <3>2 DEF FwdInit
      <3> QED
        BY <3>3, <3>4, <3>5 DEF ForwardTypeOK
    <2>2. Ascending
      BY DEF FwdInit, Ascending
    <2>3. \A d : Deciding(d) = {}
      BY DEF FwdInit, Deciding
    <2>4. Cardinality({}) = 0
      BY FS_EmptySet
    <2>5. \A d \in RowDecisions : counters[<<"decisions", d>>] = Cardinality(Deciding(d))
      <3> SUFFICES ASSUME NEW d \in RowDecisions PROVE counters[<<"decisions", d>>] = 0
        BY <2>3, <2>4
      <3> QED
        BY DEF FwdInit, NoCounts, CounterNames
    <2>6. /\ 1..Len(rows) = {collected[i].row : i \in DOMAIN collected} \cup gone
                            \cup Elements(queued) \cup ({sending} \ {0})
          /\ \A c \in CounterNames : counters[c] <= Len(rows)
          /\ since <= Len(rows) /\ Len(rows) <= MaxEmits
      BY ForwardAssumption DEF FwdInit, NoCounts, Elements
    <2> QED
      BY <2>1, <2>2, <2>5, <2>6 DEF ForwardInv, SomewhereCounted
  <1>2. ForwardInv /\ [FwdNext]_fwdVars => ForwardInv'
    <2>1. ASSUME ForwardInv, UNCHANGED fwdVars PROVE ForwardInv'
      BY <2>1 DEF fwdVars, ForwardInv, ForwardTypeOK, Ascending, SomewhereCounted, Deciding, Elements
    <2> QED
      BY <2>1, RowEmitKept, TakeKept, SentKept, RestartKept DEF FwdNext, Thread
  <1> QED
    BY <1>1, <1>2, PTL DEF ForwardSpec

(* For any queue and rows: the collector gets rows at most once, in the      *)
(* order of the file, and no refusal as an allowed call (forward.py:4).      *)
THEOREM CopiesInOrder == ForwardSpec => []CopyInOrder
  <1>1. ForwardInv => CopyInOrder
    <2> SUFFICES ASSUME ForwardInv, Format = "ocsf", NEW i \in DOMAIN collected,
                        rows[collected[i].row].decision \in {"deny", "denied", "hold"}
                 PROVE  collected[i].event.disposition \in {"Blocked", "Delayed"}
      BY DEF CopyInOrder, ForwardInv, Ascending
    <2>1. collected[i].event = OcsfEvent(rows[collected[i].row])
      BY DEF ForwardInv, Ascending, Shipped
    <2> QED
      BY <2>1 DEF OcsfEvent, Disposition
  <1> QED
    BY <1>1, RowsHold, PTL

(* Every row is at the collector, on its way or dropped for a reason, and    *)
(* every row since the start is counted (forward.py:5, metrics.py:3).        *)
THEOREM RowsAccounted == ForwardSpec => []Accounted
  <1>1. ForwardInv => Accounted
    BY DEF ForwardInv, SomewhereCounted, Accounted, Elements, Deciding
  <1> QED
    BY <1>1, RowsHold, PTL

-----------------------------------------------------------------------------
(* The document of approval requests.                                        *)

(* A second going by.                                                        *)
LEMMA SecondType == \A n \in Nat : Sooner(n) \in Nat /\ Sooner(n) <= n
  BY DEF Sooner

(* A second going by keeps the order of two expiries.                        *)
LEMMA SecondMonotone == \A m, n \in Nat : m <= n => Sooner(m) <= Sooner(n)
  BY DEF Sooner

(* A document a second later is a document.                                  *)
LEMMA AgedType ==
  ASSUME NEW doc \in Document
  PROVE  DocumentAged(doc) \in Document
  BY SecondType DEF DocumentAged, Document, Entry

(* Putting an entry in a copy of the document leaves every state well-formed. *)
LEMMA LoadsType ==
  ASSUME ApprovalsTypeOK, NEW p \in Deciders, NEW i \in Requests, NEW e \in Entry, LoadsDocument(p, i, e)
  PROVE  /\ doing' \in [Deciders -> Work \cup {AtRest}]
         /\ doing'[p].copy = [approvals[PlaceOf(p)] EXCEPT ![i] = e]
         /\ \A q \in Deciders : q # p => doing'[q] = doing[q]
<1>1. PlaceOf(p) \in Places
  BY ApprovalsAssumption DEF PlaceOf, Places
<1>2. [approvals[PlaceOf(p)] EXCEPT ![i] = e] \in Document
  BY <1>1 DEF ApprovalsTypeOK, Document
<1> QED
  BY <1>2 DEF LoadsDocument, ApprovalsTypeOK, Work

(* A process that is not idle has a copy of the document.                    *)
LEMMA BusyIs ==
  ASSUME ApprovalsTypeOK, NEW p \in Deciders, doing[p].busy
  PROVE  doing[p] \in Work /\ doing[p].copy \in Document
<1>1. doing[p] \in Work \cup {AtRest}
  BY DEF ApprovalsTypeOK
<1>2. doing[p] # AtRest
  BY DEF AtRest
<1>3. doing[p] \in Work
  BY <1>1, <1>2
<1> QED
  BY <1>3 DEF Work

(* The copy it has is replaced by a document.                                *)
LEMMA WorkType ==
  ASSUME NEW w \in Work, NEW doc \in Document
  PROVE  [w EXCEPT !.copy = doc] \in Work /\ [w EXCEPT !.copy = doc].copy = doc
  BY DEF Work

(* The entry an operation is about stays an entry.                           *)
LEMMA EntryType ==
  ASSUME ApprovalsTypeOK, NEW p \in Deciders, NEW i \in Requests
  PROVE  /\ Current(p, i) \in Entry
         /\ Asked(Current(p, i)) \in Entry
         /\ \A a \in Approvers : DeniedBy(Current(p, i), a) \in Entry
         /\ \A a \in Approvers, ttl \in Lifetimes : ApprovedBy(Current(p, i), a, ttl) \in Entry
<1>1. Current(p, i) \in Entry
  BY ApprovalsAssumption DEF ApprovalsTypeOK, Current, PlaceOf, Places, Document
<1> QED
  BY <1>1, ApprovalsAssumption DEF Entry, Asked, DeniedBy, ApprovedBy

(* Over any interleaving of operations the state is well-formed.             *)
THEOREM ApprovalsTyped == ApprovalsSpec => []ApprovalsTypeOK
<1>1. ApprovalsInit => ApprovalsTypeOK
  BY DEF ApprovalsInit, ApprovalsTypeOK, Document, Entry, NoEntry
<1>2. ApprovalsTypeOK /\ [ApprovalsNext]_approvalsVars => ApprovalsTypeOK'
  <2> SUFFICES ASSUME ApprovalsTypeOK, [ApprovalsNext]_approvalsVars PROVE ApprovalsTypeOK'
    OBVIOUS
  <2>1. ASSUME NEW p \in Deciders, NEW i \in Requests, Request(p, i) PROVE ApprovalsTypeOK'
    BY <2>1, LoadsType, EntryType DEF Request, ApprovalsTypeOK
  <2>2. ASSUME NEW p \in Deciders, NEW i \in Requests, NEW a \in Approvers, DenyRequest(p, i, a)
        PROVE  ApprovalsTypeOK'
    BY <2>2, LoadsType, EntryType DEF DenyRequest, ApprovalsTypeOK
  <2>3. ASSUME NEW p \in Deciders, NEW i \in Requests, NEW a \in Approvers, NEW ttl \in Lifetimes,
               ApproveRequest(p, i, a, ttl)
        PROVE  ApprovalsTypeOK'
    <3>1. doing' \in [Deciders -> Work \cup {AtRest}]
      BY <2>3, LoadsType, EntryType DEF ApproveRequest
    <3>2. allowance' \in [Requests -> [Approvers -> Nat]]
      BY <2>3, ApprovalsAssumption DEF ApproveRequest, ApprovalsTypeOK
    <3> QED
      BY <2>3, <3>1, <3>2 DEF ApproveRequest, ApprovalsTypeOK
  <2>4. ASSUME NEW p \in Deciders, SaveDocument(p) PROVE ApprovalsTypeOK'
    <3>1. doing[p].copy \in Document
      BY <2>4, BusyIs DEF SaveDocument
    <3> QED
      BY <2>4, <3>1 DEF SaveDocument, ApprovalsTypeOK
  <2>5. ASSUME NEW p \in Deciders, DeciderEnds(p) PROVE ApprovalsTypeOK'
    BY <2>5 DEF DeciderEnds, ApprovalsTypeOK
  <2>6. ASSUME NEW p \in Proxies, NEW u \in Askers, SyncApprovals(p, u) PROVE ApprovalsTypeOK'
    <3>1. PlaceOf(p) \in Places
      BY ApprovalsAssumption DEF PlaceOf, Places
    <3>2. SyncedGrants(approvals[PlaceOf(p)], u, grants[p]) \in [Requests -> Nat]
      BY <3>1 DEF SyncedGrants, GrantOf, ApprovalsTypeOK, Document, Entry
    <3> QED
      BY <2>6, <3>2 DEF SyncApprovals, ApprovalsTypeOK
  <2>7. CASE ApprovalsTick
    <3>1. approvals' \in [Places -> Document]
      BY <2>7, AgedType DEF ApprovalsTick, ApprovalsTypeOK
    <3>2. doing' \in [Deciders -> Work \cup {AtRest}]
      <4> SUFFICES ASSUME NEW p \in Deciders
                   PROVE  (IF doing[p].busy THEN [doing[p] EXCEPT !.copy = DocumentAged(@)]
                           ELSE AtRest) \in Work \cup {AtRest}
        BY <2>7 DEF ApprovalsTick
      <4> QED
        BY BusyIs, AgedType, WorkType
    <3>3. grants' \in [Proxies -> [Requests -> Nat]]
      BY <2>7, SecondType DEF ApprovalsTick, ApprovalsTypeOK
    <3>4. allowance' \in [Requests -> [Approvers -> Nat]]
      BY <2>7, SecondType DEF ApprovalsTick, ApprovalsTypeOK
    <3> QED
      BY <3>1, <3>2, <3>3, <3>4 DEF ApprovalsTypeOK
  <2>8. CASE UNCHANGED approvalsVars
    BY <2>8 DEF approvalsVars, ApprovalsTypeOK
  <2> QED
    BY <2>1, <2>2, <2>3, <2>4, <2>5, <2>6, <2>7, <2>8 DEF ApprovalsNext
<1> QED
  BY <1>1, <1>2, PTL DEF ApprovalsSpec

-----------------------------------------------------------------------------
(* What approvers gave can only have grown in a step that is not a second.   *)
Ghost == [Requests -> [Approvers -> Nat]]

Grew(gs, hs) == \A i \in Requests, a \in Approvers : gs[i][a] <= hs[i][a]

(* An approval that was given stays given while more are.                    *)
LEMMA GivenGrows ==
  ASSUME NEW doc \in Document, NEW gs \in Ghost, NEW hs \in Ghost,
         GivenIn(doc, gs), Grew(gs, hs)
  PROVE  GivenIn(doc, hs)
<1> SUFFICES ASSUME NEW i \in Requests, doc[i].status = "approved", doc[i].left > 0
             PROVE  doc[i].by \in Approvers /\ doc[i].left <= hs[i][doc[i].by]
  BY DEF GivenIn, IsGiven
<1>1. doc[i].by \in Approvers /\ doc[i].left <= gs[i][doc[i].by]
  BY DEF GivenIn, IsGiven
<1>2. /\ doc[i].left \in Nat
      /\ gs[i][doc[i].by] \in Nat /\ hs[i][doc[i].by] \in Nat
      /\ gs[i][doc[i].by] <= hs[i][doc[i].by]
  BY <1>1 DEF Document, Entry, Ghost, Grew
<1> QED
  BY <1>1, <1>2

(* A second ages an approval and what was given alike.                       *)
LEMMA GivenAges ==
  ASSUME NEW doc \in Document, NEW gs \in Ghost, NEW hs, GivenIn(doc, gs),
         hs = [i \in Requests |-> [a \in Approvers |-> Sooner(gs[i][a])]]
  PROVE  GivenIn(DocumentAged(doc), hs)
<1> SUFFICES ASSUME NEW i \in Requests,
                    DocumentAged(doc)[i].status = "approved", DocumentAged(doc)[i].left > 0
             PROVE  DocumentAged(doc)[i].by \in Approvers
                    /\ DocumentAged(doc)[i].left <= hs[i][DocumentAged(doc)[i].by]
  BY DEF GivenIn, IsGiven
<1>1. /\ DocumentAged(doc)[i].status = doc[i].status /\ DocumentAged(doc)[i].by = doc[i].by
      /\ DocumentAged(doc)[i].left = Sooner(doc[i].left) /\ doc[i].left \in Nat
  BY DEF DocumentAged, Document, Entry
<1>2. doc[i].left > 0
  BY <1>1 DEF Sooner
<1>3. doc[i].by \in Approvers /\ doc[i].left <= gs[i][doc[i].by]
  BY <1>1, <1>2 DEF GivenIn, IsGiven
<1>4. gs[i][doc[i].by] \in Nat /\ hs[i][doc[i].by] = Sooner(gs[i][doc[i].by])
  BY <1>3 DEF Ghost
<1> QED
  BY <1>1, <1>3, <1>4, SecondMonotone

(* Starting an operation leaves a copy in which everything was given, for    *)
(* the starting process and for all others.                                  *)
LEMMA LoadsGiven ==
  ASSUME ApprovalsTypeOK, ApprovalsTypeOK', ApprovalsAreGiven, CopiesAreGiven,
         NEW p \in Deciders, NEW i \in Requests, NEW e \in Entry, LoadsDocument(p, i, e),
         Grew(allowance, allowance'), IsGiven(e, allowance'[i])
  PROVE  CopiesAreGiven'
<1> SUFFICES ASSUME NEW q \in Deciders, doing'[q].busy PROVE GivenIn(doing'[q].copy, allowance')
  BY DEF CopiesAreGiven
<1>1. allowance \in Ghost /\ allowance' \in Ghost
  BY DEF ApprovalsTypeOK, Ghost
<1>2. CASE q = p
  <2>1. PlaceOf(p) \in Places
    BY ApprovalsAssumption DEF PlaceOf, Places
  <2>2. approvals[PlaceOf(p)] \in Document /\ GivenIn(approvals[PlaceOf(p)], allowance)
    BY <2>1 DEF ApprovalsTypeOK, ApprovalsAreGiven
  <2>3. GivenIn(approvals[PlaceOf(p)], allowance')
    BY <1>1, <2>2, GivenGrows
  <2>4. GivenIn([approvals[PlaceOf(p)] EXCEPT ![i] = e], allowance')
    BY <2>2, <2>3 DEF GivenIn, Document
  <2> QED
    BY <1>2, <2>4, LoadsType
<1>3. CASE q # p
  <2>1. doing'[q] = doing[q]
    BY <1>3, LoadsType
  <2>2. doing[q].copy \in Document /\ GivenIn(doing[q].copy, allowance)
    BY <2>1, BusyIs DEF CopiesAreGiven
  <2> QED
    BY <1>1, <2>1, <2>2, GivenGrows
<1> QED
  BY <1>2, <1>3

(* What is in the documents, in the copies that operations hold, and what is *)
(* granted from them was given, at every step.                               *)
LEMMA GivenHolds == ApprovalsSpec => []AllGiven
<1>1. ApprovalsInit => AllGiven
  BY DEF ApprovalsInit, AllGiven, ApprovalsAreGiven, CopiesAreGiven, GrantsAreGiven, GivenIn, IsGiven,
         NoEntry, AtRest
<1>2. ApprovalsTypeOK /\ ApprovalsTypeOK' /\ AllGiven /\ [ApprovalsNext]_approvalsVars => AllGiven'
  <2> SUFFICES ASSUME ApprovalsTypeOK, ApprovalsTypeOK', AllGiven, [ApprovalsNext]_approvalsVars PROVE AllGiven'
    OBVIOUS
  <2> USE DEF AllGiven
  <2>0. /\ allowance \in Ghost /\ allowance' \in Ghost
        /\ Grew(allowance, allowance)
    BY DEF ApprovalsTypeOK, Ghost, Grew
  <2>1. ASSUME NEW p \in Deciders, NEW i \in Requests, Request(p, i) PROVE AllGiven'
    <3>1. IsGiven(Asked(Current(p, i)), allowance'[i])
      BY DEF IsGiven, Asked
    <3>2. CopiesAreGiven'
      BY <2>0, <2>1, <3>1, LoadsGiven, EntryType DEF Request
    <3> QED
      BY <2>1, <3>2 DEF Request, ApprovalsAreGiven, GrantsAreGiven
  <2>2. ASSUME NEW p \in Deciders, NEW i \in Requests, NEW a \in Approvers, DenyRequest(p, i, a)
        PROVE  AllGiven'
    <3>1. IsGiven(DeniedBy(Current(p, i), a), allowance'[i])
      BY EntryType DEF IsGiven, DeniedBy, Entry
    <3>2. CopiesAreGiven'
      BY <2>0, <2>2, <3>1, LoadsGiven, EntryType DEF DenyRequest
    <3> QED
      BY <2>2, <3>2 DEF DenyRequest, ApprovalsAreGiven, GrantsAreGiven
  <2>3. ASSUME NEW p \in Deciders, NEW i \in Requests, NEW a \in Approvers, NEW ttl \in Lifetimes,
               ApproveRequest(p, i, a, ttl)
        PROVE  AllGiven'
    <3>1. Grew(allowance, allowance')
      BY <2>3, ApprovalsAssumption DEF ApproveRequest, Grew, ApprovalsTypeOK
    <3>2. IsGiven(ApprovedBy(Current(p, i), a, ttl), allowance'[i])
      BY <2>3, ApprovalsAssumption DEF ApproveRequest, IsGiven, ApprovedBy, ApprovalsTypeOK
    <3>3. CopiesAreGiven'
      BY <2>3, <3>1, <3>2, LoadsGiven, EntryType DEF ApproveRequest
    <3>4. ApprovalsAreGiven'
      <4> SUFFICES ASSUME NEW pl \in Places PROVE GivenIn(approvals'[pl], allowance')
        BY DEF ApprovalsAreGiven
      <4>1. approvals[pl] \in Document /\ GivenIn(approvals[pl], allowance) /\ approvals' = approvals
        BY <2>3 DEF ApprovalsTypeOK, ApprovalsAreGiven, ApproveRequest
      <4> QED
        BY <2>0, <3>1, <4>1, GivenGrows
    <3>5. GrantsAreGiven'
      <4> SUFFICES ASSUME NEW q \in Proxies, NEW j \in Requests, grants'[q][j] > 0
                   PROVE  \E b \in Approvers : grants'[q][j] <= allowance'[j][b]
        BY DEF GrantsAreGiven
      <4>1. grants' = grants
        BY <2>3 DEF ApproveRequest
      <4>2. PICK b \in Approvers : grants[q][j] <= allowance[j][b]
        BY <4>1 DEF GrantsAreGiven
      <4>3. /\ grants[q][j] \in Nat /\ allowance[j][b] \in Nat /\ allowance'[j][b] \in Nat
            /\ allowance[j][b] <= allowance'[j][b]
        BY <3>1 DEF ApprovalsTypeOK, Grew
      <4> QED
        BY <4>1, <4>2, <4>3
    <3> QED
      BY <3>3, <3>4, <3>5
  <2>4. ASSUME NEW p \in Deciders, SaveDocument(p) PROVE AllGiven'
    <3>1. GivenIn(doing[p].copy, allowance) /\ allowance' = allowance /\ grants' = grants
      BY <2>4 DEF SaveDocument, CopiesAreGiven
    <3>2. ApprovalsAreGiven'
      BY <2>4, <3>1 DEF SaveDocument, ApprovalsAreGiven, ApprovalsTypeOK
    <3>3. CopiesAreGiven'
      BY <2>4, <3>1 DEF SaveDocument, CopiesAreGiven, ApprovalsTypeOK, AtRest
    <3> QED
      BY <3>1, <3>2, <3>3 DEF GrantsAreGiven
  <2>5. ASSUME NEW p \in Deciders, DeciderEnds(p) PROVE AllGiven'
    <3>1. CopiesAreGiven'
      BY <2>5 DEF DeciderEnds, CopiesAreGiven, ApprovalsTypeOK, AtRest
    <3>2. GrantsAreGiven'
      BY <2>5 DEF DeciderEnds, GrantsAreGiven, ApprovalsTypeOK
    <3> QED
      BY <2>5, <3>1, <3>2 DEF DeciderEnds, ApprovalsAreGiven
  <2>6. ASSUME NEW p \in Proxies, NEW u \in Askers, SyncApprovals(p, u) PROVE AllGiven'
    <3>1. approvals[PlaceOf(p)] \in Document /\ GivenIn(approvals[PlaceOf(p)], allowance)
      BY ApprovalsAssumption DEF PlaceOf, Places, ApprovalsTypeOK, ApprovalsAreGiven
    <3>2. ASSUME NEW j \in Requests, SyncedGrants(approvals[PlaceOf(p)], u, grants[p])[j] > 0
          PROVE  \E b \in Approvers : SyncedGrants(approvals[PlaceOf(p)], u, grants[p])[j] <= allowance[j][b]
      BY <3>1, <3>2 DEF SyncedGrants, GrantOf, GivenIn, IsGiven, GrantsAreGiven
    <3>3. GrantsAreGiven'
      BY <2>6, <3>2 DEF SyncApprovals, GrantsAreGiven
    <3> QED
      BY <2>6, <3>3 DEF SyncApprovals, ApprovalsAreGiven, CopiesAreGiven
  <2>7. CASE ApprovalsTick
    <3>1. allowance' = [i \in Requests |-> [a \in Approvers |-> Sooner(allowance[i][a])]]
      BY <2>7 DEF ApprovalsTick
    <3>2. ApprovalsAreGiven'
      BY <2>0, <2>7, <3>1, GivenAges DEF ApprovalsTick, ApprovalsAreGiven, ApprovalsTypeOK
    <3>3. CopiesAreGiven'
      <4> SUFFICES ASSUME NEW p \in Deciders, doing'[p].busy
                   PROVE  GivenIn(doing'[p].copy, allowance')
        BY DEF CopiesAreGiven
      <4>1. doing[p].busy
        BY <2>7 DEF ApprovalsTick, AtRest
      <4>2. doing[p] \in Work /\ doing[p].copy \in Document
        BY <4>1, BusyIs
      <4>3. doing'[p].copy = DocumentAged(doing[p].copy)
        BY <2>7, <4>1, <4>2, AgedType, WorkType DEF ApprovalsTick
      <4> QED
        BY <2>0, <3>1, <4>1, <4>2, <4>3, GivenAges DEF CopiesAreGiven
    <3>4. GrantsAreGiven'
      <4> SUFFICES ASSUME NEW q \in Proxies, NEW j \in Requests, grants'[q][j] > 0
                   PROVE  \E b \in Approvers : grants'[q][j] <= allowance'[j][b]
        BY DEF GrantsAreGiven
      <4>1. grants'[q][j] = Sooner(grants[q][j]) /\ grants[q][j] \in Nat
        BY <2>7 DEF ApprovalsTick, ApprovalsTypeOK
      <4>2. PICK b \in Approvers : grants[q][j] <= allowance[j][b]
        BY <4>1 DEF Sooner, GrantsAreGiven
      <4>3. allowance[j][b] \in Nat /\ allowance'[j][b] = Sooner(allowance[j][b])
        BY <3>1 DEF ApprovalsTypeOK
      <4> QED
        BY <4>1, <4>2, <4>3, SecondMonotone
    <3> QED
      BY <3>2, <3>3, <3>4
  <2>8. CASE UNCHANGED approvalsVars
    BY <2>8 DEF approvalsVars, ApprovalsAreGiven, CopiesAreGiven, GrantsAreGiven
  <2> QED
    BY <2>1, <2>2, <2>3, <2>4, <2>5, <2>6, <2>7, <2>8 DEF ApprovalsNext
<1> QED
  BY <1>1, <1>2, ApprovalsTyped, PTL DEF ApprovalsSpec

(* Over any interleaving of asking, deciding, saving and crashing, every     *)
(* approval in force was given by the approver it names and for no longer    *)
(* (approvals.py:114).                                                       *)
THEOREM NothingForged == ApprovalsSpec => []ApprovalsAreGiven
<1>1. AllGiven => ApprovalsAreGiven
  BY DEF AllGiven
<1> QED
  BY <1>1, GivenHolds, PTL

(* And no purpose grant that a proxy makes of one (proxy.py:522) outlives    *)
(* what was given for it.                                                    *)
THEOREM NothingOutlives == ApprovalsSpec => []GrantsAreGiven
<1>1. AllGiven => GrantsAreGiven
  BY DEF AllGiven
<1> QED
  BY <1>1, GivenHolds, PTL
=============================================================================
