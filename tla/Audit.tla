------------------------------- MODULE Audit --------------------------------
(* The audit log: a file of one row per line, each carrying the hash of the  *)
(* row before it.  One process at a time appends; it may stop at any moment, *)
(* its writes may fail or be cut short, and others may change the file.      *)
(*                                                                           *)
(* The hash of a row is modelled as the sequence of the bodies up to it: a   *)
(* different value for every history, as of a hash without collisions.       *)
EXTENDS Naturals, FiniteSets, Sequences, SequencesExt

CONSTANTS Bodies,        \* what a row may say
          MaxRows,       \* bound on the different rows ever emitted
          MaxLines,      \* bound on the lines of the file and those to come
          MaxChanges     \* bound on the changes made to it after the fact

ASSUME AuditAssumption ==
    MaxRows \in Nat /\ MaxLines \in Nat /\ MaxChanges \in Nat

VARIABLES lines,     \* the whole lines of the file, rows or Torn
          rest,      \* what follows the last newline: parts of rows
          log,       \* the Audit object of the process, if it runs
          emitted,   \* ghost: the hash of every row ever emitted
          changes,   \* ghost: how often the file was changed after the fact
          harm       \* ghost: the first line that was changed or cut, or where a
                     \* row was lost, or 0

auditVars == <<lines, rest, log, emitted, changes, harm>>

Histories == Seq(Bodies)
Genesis   == <<>>

Row  == [prev : Histories, body : Bodies, hash : Histories]
Torn == [prev |-> Genesis]                 \* a line that is not JSON

Digest(prev, body) == Append(prev, body)
Chained(prev, body) == [prev |-> prev, body |-> body, hash |-> Digest(prev, body)]

NotRunning == [up |-> FALSE]

(* A row that emit has chained stays in pending, the buffer of the file      *)
(* object, until its newline is in the file or the buffer does not take it;  *)
(* the first of them may be in the file in part (begun).                     *)
Running == [up : {TRUE}, prev : Histories, pending : Seq(Row), begun : BOOLEAN, does : {"wait", "write", "exit"}]

AuditTypeOK ==
    /\ lines \in Seq(Row \cup {Torn}) /\ rest \in Seq(Row)
    /\ log \in Running \cup {NotRunning}
    /\ emitted \subseteq Histories /\ changes \in 0..MaxChanges
    /\ harm \in Nat

AuditInit == lines = <<>> /\ rest = <<>> /\ log = NotRunning /\ emitted = {} /\ changes = 0 /\ harm = 0

Harmed(i) == IF harm = 0 \/ i < harm THEN i ELSE harm

-----------------------------------------------------------------------------
(* The process.                                                              *)

(* Mutant of LastHash: a restart that begins a chain of its own.             *)
LastHashGenesis == Genesis

Readable == {i \in DOMAIN lines : lines[i] # Torn}

(* Mutant of LastHash: the wrong field of the last row.                      *)
LastBody == IF Readable = {} THEN Genesis ELSE lines[Max(Readable)].body

(* _last_hash: the hash of the last line that can be read.                   *)
LastHash == IF Readable = {} THEN Genesis ELSE lines[Max(Readable)].hash

StartLog ==
    /\ log = NotRunning
    /\ log' = [up |-> TRUE, prev |-> LastHash, pending |-> <<>>, begun |-> FALSE, does |-> "wait"]
    /\ UNCHANGED <<lines, rest, emitted, changes, harm>>

(* emit: the row is chained and its hash kept, then written behind what is   *)
(* still buffered ...                                                        *)
Emit(body) ==
    LET row == Chained(log.prev, body) IN
    /\ log.up /\ log.does = "wait"
    /\ Len(lines) + Len(rest) + Len(log.pending) < MaxLines
    /\ emitted' = emitted \cup {row.hash} /\ Cardinality(emitted') <= MaxRows
    /\ log' = [log EXCEPT !.prev = row.hash, !.pending = Append(@, row), !.does = "write"]
    /\ UNCHANGED <<lines, rest, changes, harm>>

(* ... of which the file gets a part of a row, which others may then find    *)
(* there, and the rest of it with its newline.                               *)
WriteSome ==
    LET row == Head(log.pending) IN
    /\ log.up /\ log.does # "wait" /\ log.pending # <<>>
    /\ \/ /\ ~log.begun
          /\ rest' = Append(rest, row) /\ UNCHANGED lines
          /\ log' = [log EXCEPT !.begun = TRUE]
       \/ /\ log.begun
          /\ lines' = Append(lines, IF rest = <<row>> THEN row ELSE Torn) /\ rest' = <<>>
          /\ log' = [log EXCEPT !.begun = FALSE, !.pending = Tail(@)]
    /\ UNCHANGED <<emitted, changes, harm>>

(* Mutant of EmitEnds: a failed write throws away what was buffered.         *)
EmitEndsEmpty ==
    /\ log.up /\ log.does = "write"
    /\ log' = [log EXCEPT !.does = "wait", !.pending = <<>>, !.begun = FALSE]
    /\ UNCHANGED <<lines, rest, emitted, changes, harm>>

(* emit returns, and the row goes to the forwarder and the metrics; or the   *)
(* write failed, it raises before that, and what is not written stays.  A    *)
(* full buffer (8 KB: sizes are left out) that cannot be emptied, or a row   *)
(* larger than it, loses the row instead, whose hash is kept all the same.   *)
EmitEnds ==
    /\ log.up /\ log.does = "write"
    /\ \/ log' = [log EXCEPT !.does = "wait"] /\ UNCHANGED harm
       \/ /\ log.pending # <<>>
          /\ log' = [log EXCEPT !.does = "wait", !.pending = Front(@), !.begun = @ /\ Len(log.pending) > 1]
          /\ harm' = Harmed(Len(lines) + Len(log.pending))
    /\ UNCHANGED <<lines, rest, emitted, changes>>

(* The process is about to end, and writes of its buffer what there is time  *)
(* for ...                                                                   *)
ExitLog ==
    /\ log.up /\ log.does = "wait" /\ log.pending # <<>>
    /\ log' = [log EXCEPT !.does = "exit"]
    /\ UNCHANGED <<lines, rest, emitted, changes, harm>>

(* ... and is gone, here or anywhere else.  A row that was lost behind the   *)
(* last line leaves no gap: the next process goes on from what is there.     *)
StopLog ==
    /\ log.up
    /\ log' = NotRunning
    /\ harm' = IF harm \in DOMAIN lines THEN harm ELSE IF rest = <<>> THEN 0 ELSE Len(lines) + 1
    /\ UNCHANGED <<lines, rest, emitted, changes>>

-----------------------------------------------------------------------------
(* Changes after the fact, by whoever can write to the file.                 *)

Edit(i, body) ==
    /\ lines[i] # Torn /\ body # lines[i].body
    /\ lines' = [lines EXCEPT ![i].body = body]

Delete(i) == lines' = RemoveAt(lines, i)

(* Line j once more, before line i.                                          *)
Insert(i, j) ==
    /\ i # j /\ Len(lines) < MaxLines
    /\ lines' = InsertAt(lines, i, lines[j])

Change(i) ==
    /\ changes < MaxChanges
    /\ changes' = changes + 1
    /\ \/ \E body \in Bodies : Edit(i, body)
       \/ Delete(i)
       \/ \E j \in DOMAIN lines : Insert(i, j)
    /\ harm' = Harmed(i)
    /\ UNCHANGED <<rest, log, emitted>>

AuditNext ==
    \/ StartLog \/ ExitLog \/ StopLog
    \/ (\E body \in Bodies : Emit(body)) \/ WriteSome \/ EmitEnds
    \/ \E i \in DOMAIN lines : Change(i)

AuditSpec == AuditInit /\ [][AuditNext]_auditVars

-----------------------------------------------------------------------------
(* The verifier.                                                             *)

FileLines == IF rest = <<>> THEN lines ELSE Append(lines, Torn)

(* Mutant of Verifies: a row is only checked against its own hash.           *)
VerifiesAlone(file, i) == file[i] # Torn /\ Digest(file[i].prev, file[i].body) = file[i].hash

Verifies(file, i) ==
    LET prev == IF i = 1 THEN Genesis ELSE file[i - 1].hash IN
    file[i] # Torn /\ file[i].prev = prev /\ Digest(prev, file[i].body) = file[i].hash

(* verify_chain: the first line that does not verify, or 0.  A line is only  *)
(* looked at when those before it verify.                                    *)
FirstBad ==
    LET file == FileLines
        Bad(i) == ~Verifies(file, i) IN
    IF \E i \in DOMAIN file : Bad(i)
    THEN CHOOSE i \in DOMAIN file : Bad(i) /\ \A j \in 1..i - 1 : ~Bad(j)
    ELSE 0

-----------------------------------------------------------------------------
(* What verifies is a record that was once made, row for row and in order:   *)
(* whatever lines were edited, removed or repeated since, and however the    *)
(* process stopped, the lines before the first bad one are the first rows    *)
(* of a history that was emitted (audit.py:4, a change "cannot be hidden").  *)
(* Lines cut off the end leave such a record, too, and are not found.        *)
GenuineUntilBroken ==
    LET good == IF FirstBad = 0 THEN Len(FileLines) ELSE FirstBad - 1 IN
    good > 0 => [i \in 1..good |-> lines[i].body] \in emitted

(* The verifier accuses nobody for a restart, or for a write that failed     *)
(* and was made good later: a line is bad only if it, or one before it, was  *)
(* changed, was cut by a process that ended in the middle of it, or stands   *)
(* where a row was lost by a failed write, or is being written.              *)
BlamesHarm ==
    \/ FirstBad = 0
    \/ 0 < harm /\ harm <= FirstBad
    \/ log.up /\ rest # <<>> /\ FirstBad = Len(lines) + 1
=============================================================================
