------------------------------ MODULE Forward ------------------------------
(* Audit rows on their way out of the process: the bounded queue and its     *)
(* thread, which ships them to a collector (forward.py), and the counters    *)
(* derived from them (metrics.py).  The rows of the file are those of Audit; *)
(* here a row is its number and what its decision was.                       *)
EXTENDS Naturals, Sequences, FiniteSets

CONSTANTS RowKinds,    \* the rows emitted: subset of RowKind
          QueueSize,   \* maxsize of the queue
          Format,      \* what the collector gets: "raw", "otlp" or "ocsf"
          MaxEmits      \* bound: rows emitted

RowDecisions == {"allow", "deny", "hold", "input_required", "approved", "denied", "alert", "block"}

RowKind == [decision : RowDecisions, redacted : BOOLEAN, alerts : BOOLEAN]

ASSUME ForwardAssumption ==
    /\ RowKinds \subseteq RowKind
    /\ QueueSize \in Nat \ {0} /\ MaxEmits \in Nat
    /\ Format \in {"raw", "otlp", "ocsf"}

VARIABLES rows,        \* the rows whose emit returned, in order
          queued,      \* Forwarder.q, row numbers
          sending,     \* the row in the thread's hands, 0 for none
          collected,   \* what has reached the collector
          errored,     \* has a failure been reported (_errored)
          counters,    \* Metrics._counters since the process started
          since,       \* rows emitted before it started
          gone         \* ghost: rows dropped, failed to be sent or ended with the process

fwdVars == <<rows, queued, sending, collected, errored, counters, since, gone>>
-----------------------------------------------------------------------------
(* What a row looks like at the collector.                                   *)

(* _OCSF_DECISION, with its default, and the correction of a masked result.  *)
Disposition(k) ==
    CASE k.decision \in {"deny", "denied"}                -> "Blocked"
      [] k.decision = "hold"                              -> "Delayed"
      [] k.decision = "allow" /\ k.redacted               -> "Corrected"
      [] OTHER                                            -> "Allowed"

OcsfEvent(k) == [disposition |-> Disposition(k),
                 alert |-> k.decision \in {"deny", "hold"} \/ k.alerts]

OtlpRecord(k) == [warn |-> k.decision \in {"deny", "hold"}]

Shipped(k) == CASE Format = "raw"  -> k
                [] Format = "otlp" -> OtlpRecord(k)
                [] Format = "ocsf" -> OcsfEvent(k)

(* The counters that Metrics.observe raises for a row.                       *)
CounterNames == ({"decisions"} \X RowDecisions) \cup ({"rule_hits"} \X RowDecisions)
                \cup {<<"alerts", "">>, <<"redactions", "">>}

CountersOf(k) ==
    {<<"decisions", k.decision>>}
    \cup (IF k.decision \in {"deny", "hold", "approved", "denied"} THEN {<<"rule_hits", k.decision>>} ELSE {})
    \cup (IF k.alerts THEN {<<"alerts", "">>} ELSE {})
    \cup (IF k.redacted THEN {<<"redactions", "">>} ELSE {})

Counted(c, k) == [n \in CounterNames |-> IF n \in CountersOf(k) THEN c[n] + 1 ELSE c[n]]

NoCounts == [n \in CounterNames |-> 0]
-----------------------------------------------------------------------------
ForwardTypeOK ==
    /\ rows \in Seq(RowKinds)
    /\ queued \in Seq(1..MaxEmits) /\ Len(queued) <= QueueSize
    /\ sending \in 0..MaxEmits
    /\ collected \in Seq([row : 1..MaxEmits, event : {Shipped(k) : k \in RowKinds}])
    /\ errored \in BOOLEAN
    /\ counters \in [CounterNames -> 0..MaxEmits]
    /\ since \in 0..MaxEmits
    /\ gone \subseteq 1..MaxEmits

FwdInit ==
    /\ rows = <<>> /\ queued = <<>> /\ sending = 0 /\ collected = <<>>
    /\ errored = FALSE /\ counters = NoCounts /\ since = 0 /\ gone = {}

(* Mutant of EmitRow: a row that finds the queue full is not counted.        *)
EmitRowSentOnly(k) ==
    LET n == Len(rows) + 1 IN
    /\ Len(rows) < MaxEmits
    /\ rows' = Append(rows, k)
    /\ IF Len(queued) < QueueSize
       THEN queued' = Append(queued, n) /\ counters' = Counted(counters, k) /\ UNCHANGED gone
       ELSE gone' = gone \cup {n} /\ UNCHANGED <<queued, counters>>
    /\ UNCHANGED <<sending, collected, errored, since>>

(* Audit.emit once the line is written: the row is put in the queue or, when *)
(* that is full, dropped; and it is counted.  (An emit that raises in the    *)
(* write gets no further: no row here.)                                      *)
EmitRow(k) ==
    LET n == Len(rows) + 1 IN
    /\ Len(rows) < MaxEmits
    /\ rows' = Append(rows, k)
    /\ IF Len(queued) < QueueSize
       THEN queued' = Append(queued, n) /\ UNCHANGED gone
       ELSE gone' = gone \cup {n} /\ UNCHANGED queued
    /\ counters' = Counted(counters, k)
    /\ UNCHANGED <<sending, collected, errored, since>>

(* The thread: q.get ...                                                     *)
TakeRow ==
    /\ sending = 0 /\ queued # <<>>
    /\ sending' = Head(queued) /\ queued' = Tail(queued)
    /\ UNCHANGED <<rows, collected, errored, counters, since, gone>>

Collects == collected' = Append(collected, [row |-> sending, event |-> Shipped(rows[sending])])

(* ... and the sink, which may fail before or after the collector has got    *)
(* the row; it is not sent again either way.                                 *)
SendRow ==
    /\ sending # 0
    /\ sending' = 0
    /\ Collects
    /\ UNCHANGED <<rows, queued, errored, counters, since, gone>>

(* Mutants of SendFails: the row goes back into the queue; and it is tried   *)
(* until the collector answers.                                              *)
SendFailsRequeued ==
    /\ sending # 0 /\ Len(queued) < QueueSize
    /\ sending' = 0 /\ queued' = Append(queued, sending)
    /\ errored' = TRUE
    /\ UNCHANGED <<rows, collected, counters, since, gone>>

SendFailsAgain ==
    /\ sending # 0
    /\ errored' = ~errored
    /\ UNCHANGED <<rows, queued, sending, collected, counters, since, gone>>

SendFails ==
    /\ sending # 0
    /\ sending' = 0
    /\ errored' = TRUE
    /\ \/ Collects /\ UNCHANGED gone
       \/ gone' = gone \cup {sending} /\ UNCHANGED collected
    /\ UNCHANGED <<rows, queued, counters, since>>

(* The thread is a daemon and nothing flushes it: what it has not sent ends  *)
(* with the process, perhaps after reaching the collector.                   *)
Restarted ==
    /\ gone' = gone \cup {queued[i] : i \in DOMAIN queued}
                    \cup (IF sending = 0 THEN {} ELSE {sending})
    /\ queued' = <<>> /\ sending' = 0 /\ errored' = FALSE
    /\ (sending # 0 /\ Collects) \/ UNCHANGED collected
    /\ counters' = NoCounts /\ since' = Len(rows)
    /\ UNCHANGED rows

Thread == TakeRow \/ SendRow \/ SendFails

FwdNext == (\E k \in RowKinds : EmitRow(k)) \/ Thread \/ Restarted

ForwardSpec == FwdInit /\ [][FwdNext]_fwdVars /\ WF_fwdVars(Thread)
-----------------------------------------------------------------------------
(* "The local hash-chained audit.jsonl stays the system of record; this is a *)
(* copy on the wire" (forward.py:4): through failures, lost replies, a full  *)
(* queue and restarts, the collector gets rows at most once, in the order of *)
(* the file, and no refusal or hold as an allowed call.                      *)
CopyInOrder ==
    /\ \A i, j \in DOMAIN collected : i < j => collected[i].row < collected[j].row
    /\ Format = "ocsf" =>
          \A i \in DOMAIN collected :
              rows[collected[i].row].decision \in {"deny", "denied", "hold"} =>
                  collected[i].event.disposition \in {"Blocked", "Delayed"}

(* "Best-effort" (forward.py:5) goes no further than it must: a row is at    *)
(* the collector, on its way there, or was dropped by a full queue, a failed *)
(* send or the end of the process; and every row since the start is counted  *)
(* (metrics.py:3), whatever became of it on the wire.                        *)
Accounted ==
    /\ 1..Len(rows) = {collected[i].row : i \in DOMAIN collected} \cup gone
                      \cup {queued[i] : i \in DOMAIN queued} \cup ({sending} \ {0})
    /\ \A d \in RowDecisions :
          counters[<<"decisions", d>>] = Cardinality({n \in (since + 1)..Len(rows) : rows[n].decision = d})

(* Neither a down nor a slow collector stops the queue ("will keep trying",  *)
(* forward.py:62): every row leaves the process, one way or another.         *)
RowsLeave == \A n \in 1..MaxEmits : (n = sending \/ \E i \in DOMAIN queued : queued[i] = n)
                                       ~> (n # sending /\ \A i \in DOMAIN queued : queued[i] # n)
=============================================================================
