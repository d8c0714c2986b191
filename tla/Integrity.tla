----------------------------- MODULE Integrity -----------------------------
(* Tool integrity (integrity.py and its use in proxy.py): the first          *)
(* definition seen of a tool is pinned in a JSON file, later ones are held   *)
(* against the pin, and the verdict is kept for call_tool.  An operator may  *)
(* re-pin a tool from another process, which rewrites the same file.  Both   *)
(* rewrite it in place: truncate, then write.  A reader in between, and one  *)
(* of a file cut short, finds no pins at all.                                *)
EXTENDS Naturals

CONSTANTS PinTools,       \* tools the upstreams list
          Defs,           \* what a description and a schema can say
          Changing,       \* bound: the tools that change and are re-pinned
          NoPin,
          PoisonedDefs,   \* definitions whose description matches a pattern
          ScanPoison, OnChange, OnPoison    \* the tool_integrity: configuration

ASSUME IntegrityAssumption ==
    /\ NoPin \notin Defs /\ Changing \subseteq PinTools
    /\ PoisonedDefs \subseteq Defs
    /\ ScanPoison \in BOOLEAN
    /\ OnChange \in {"alert", "block"} /\ OnPoison \in {"alert", "block"}

VARIABLES toolDef,    \* tool -> what its upstream lists it as now
          pinFile,    \* the pin file, as a reader finds it
          pins,       \* PinStore._pins of the running proxy
          stale,      \* is the file's mtime another than the proxy remembers
          saving,     \* has the proxy truncated the file and not written it yet
          running,
          flag,       \* tool -> the cached verdict (tool_flags)
          operator,   \* the re-pin under way in another process
          trusted,    \* ghost: tool -> first definition seen, or the last re-pinned
          lost        \* ghost: tools whose pin an accident with the file may have cost

pinVars == <<toolDef, pinFile, pins, stale, saving, running, flag, operator, trusted, lost>>

Pins   == [PinTools -> Defs \cup {NoPin}]
NoPins == [t \in PinTools |-> NoPin]

NoRepin   == [pc |-> "idle"]
RepinType == [pc : {"loaded", "writing"}, tool : PinTools, pins : Pins, raced : BOOLEAN]

Verdicts == {"unseen", "clean", "alert", "block"}

IntegrityTypeOK ==
    /\ toolDef \in [PinTools -> Defs]
    /\ pinFile \in Pins /\ pins \in Pins /\ trusted \in Pins
    /\ stale \in BOOLEAN /\ saving \in BOOLEAN /\ running \in BOOLEAN
    /\ flag \in [PinTools -> Verdicts]
    /\ operator \in RepinType \cup {NoRepin}
    /\ lost \subseteq PinTools

PinInit ==
    /\ toolDef \in [PinTools -> Defs]
    /\ pinFile = NoPins /\ pins = NoPins /\ trusted = NoPins
    /\ stale = FALSE /\ saving = FALSE /\ running = TRUE
    /\ flag = [t \in PinTools |-> "unseen"]
    /\ operator = NoRepin /\ lost = {}

Seen       == {t \in PinTools : trusted[t] # NoPin}
HalfWriting == operator.pc = "writing"
-----------------------------------------------------------------------------
(* Mutant of Verdict: a change is looked for, and not counted.               *)
VerdictOfPoison(changed, d) ==
    IF ~(ScanPoison /\ d \in PoisonedDefs) THEN "clean" ELSE OnPoison

(* evaluate: both faults are looked for, and either may block.               *)
Verdict(changed, d) ==
    LET poisoned == ScanPoison /\ d \in PoisonedDefs IN
    IF ~changed /\ ~poisoned THEN "clean"
    ELSE IF (changed /\ OnChange = "block") \/ (poisoned /\ OnPoison = "block") THEN "block"
    ELSE "alert"

(* Mutant of Reloaded: the pins are read at the start only.                  *)
ReloadedNever == pins

(* _maybe_reload: the file is read again only when its mtime has changed.    *)
Reloaded == IF stale THEN pinFile ELSE pins

(* A tool listed with the definition that is pinned, or with another one.    *)
CheckPinned(t) ==
    /\ running /\ ~saving
    /\ Reloaded[t] # NoPin
    /\ pins' = Reloaded /\ stale' = FALSE
    /\ flag' = [flag EXCEPT ![t] = Verdict(Reloaded[t] # toolDef[t], toolDef[t])]
    /\ lost' = IF stale /\ HalfWriting THEN lost \cup Seen ELSE lost
    /\ UNCHANGED <<toolDef, pinFile, saving, running, operator, trusted>>

(* A tool listed for the first time, or so it seems: its definition is       *)
(* pinned, and the file rewritten.  An OSError is swallowed.                 *)
CheckNew(t) ==
    LET torn == IF stale /\ HalfWriting THEN Seen ELSE {} IN
    /\ running /\ ~saving
    /\ Reloaded[t] = NoPin
    /\ pins' = [Reloaded EXCEPT ![t] = toolDef[t]]
    /\ flag' = [flag EXCEPT ![t] = Verdict(FALSE, toolDef[t])]
    /\ trusted' = IF trusted[t] = NoPin THEN [trusted EXCEPT ![t] = toolDef[t]] ELSE trusted
    /\ stale' = FALSE
    /\ \/ /\ pinFile' = NoPins /\ saving' = TRUE         \* opened, and so truncated
          /\ operator' = IF operator = NoRepin THEN NoRepin ELSE [operator EXCEPT !.raced = TRUE]
          /\ lost' = lost \cup torn
       \/ /\ lost' = lost \cup torn \cup {x \in PinTools : pins'[x] # pinFile[x]}
          /\ UNCHANGED <<pinFile, saving, operator>>     \* it cannot be opened
    /\ UNCHANGED <<toolDef, running>>

(* _save, its second half; afterwards the proxy remembers the mtime ...      *)
SavePins ==
    /\ saving
    /\ pinFile' = pins /\ saving' = FALSE /\ stale' = FALSE
    /\ UNCHANGED <<toolDef, pins, running, flag, operator, trusted, lost>>

(* ... unless the write fails: the next check will read what there is.       *)
SaveFails ==
    /\ saving
    /\ saving' = FALSE /\ stale' = TRUE
    /\ lost' = lost \cup Seen
    /\ UNCHANGED <<toolDef, pinFile, pins, running, flag, operator, trusted>>

Stop ==
    /\ running
    /\ running' = FALSE /\ saving' = FALSE
    /\ lost' = IF saving THEN lost \cup Seen ELSE lost
    /\ UNCHANGED <<toolDef, pinFile, pins, stale, flag, operator, trusted>>

(* PinStore() of a new process.  The scan at startup is CheckPinned and      *)
(* CheckNew of each tool, and of none where the listing fails.               *)
Start ==
    /\ ~running
    /\ running' = TRUE
    /\ pins' = pinFile /\ stale' = FALSE
    /\ flag' = [t \in PinTools |-> "unseen"]
    /\ lost' = IF HalfWriting THEN lost \cup Seen ELSE lost
    /\ UNCHANGED <<toolDef, pinFile, saving, operator, trusted>>
-----------------------------------------------------------------------------
(* repin, in a process of the operator's: load, set, save.                   *)
RepinLoad(t) ==
    /\ operator = NoRepin
    /\ operator' = [pc |-> "loaded", tool |-> t, pins |-> [pinFile EXCEPT ![t] = toolDef[t]],
                    raced |-> saving]
    /\ UNCHANGED <<toolDef, pinFile, pins, stale, saving, running, flag, trusted, lost>>

RepinOpen ==
    /\ operator.pc = "loaded"
    /\ operator' = [operator EXCEPT !.pc = "writing"]
    /\ pinFile' = NoPins /\ stale' = TRUE
    /\ UNCHANGED <<toolDef, pins, saving, running, flag, trusted, lost>>

(* A write within one tick of the file's clock looks like none; one in the   *)
(* middle of the proxy's own save is written over; and what the proxy pinned *)
(* since the load is undone.                                                 *)
RepinWrite ==
    LET t == operator.tool IN
    /\ operator.pc = "writing"
    /\ pinFile' = operator.pins /\ operator' = NoRepin
    /\ trusted' = [trusted EXCEPT ![t] = operator.pins[t]]
    /\ stale' \in {TRUE, stale}
    /\ lost' = (lost \ {t})
               \cup (IF saving \/ ~stale' THEN {t} ELSE {})
               \cup (IF operator.raced THEN {x \in PinTools : operator.pins[x] # trusted'[x]} ELSE {})
    /\ UNCHANGED <<toolDef, pins, saving, running, flag>>

RepinCut ==
    /\ operator.pc = "writing"
    /\ operator' = NoRepin
    /\ lost' = lost \cup Seen
    /\ UNCHANGED <<toolDef, pinFile, pins, stale, saving, running, flag, trusted>>

(* The upstream lists a tool with another description or schema.             *)
ChangeTool(t, d) ==
    /\ toolDef' = [toolDef EXCEPT ![t] = d]
    /\ UNCHANGED <<pinFile, pins, stale, saving, running, flag, operator, trusted, lost>>

PinNext ==
    \/ \E t \in PinTools : CheckPinned(t) \/ CheckNew(t)
    \/ \E t \in Changing : RepinLoad(t) \/ \E d \in Defs : ChangeTool(t, d)
    \/ SavePins \/ SaveFails \/ Stop \/ Start
    \/ RepinOpen \/ RepinWrite \/ RepinCut

IntegritySpec == PinInit /\ [][PinNext]_pinVars
-----------------------------------------------------------------------------
(* "Pins persist to a JSON file so the check survives restarts"              *)
(* (integrity.py:15) and a re-pin "takes effect on the running proxy without *)
(* a restart" (:63): as long as no save is cut short, fails or meets another *)
(* one, what the next check of a tool is held against, in the memory of the  *)
(* proxy or in the file that it will read, is the first definition it was    *)
(* seen with or the last one re-pinned.                                      *)
PinsAreTrusted ==
    \A t \in PinTools \ lost :
        /\ running /\ ~stale => pins[t] = trusted[t]
        /\ ~saving /\ ~HalfWriting => pinFile[t] = trusted[t]

(* "A 'changed' tool is left pinned to its original value so the change      *)
(* keeps firing" (integrity.py:99): a tool whose definition is not the       *)
(* trusted one is never found clean, however often it is looked at and       *)
(* whatever was restarted in between, and a change accepted by a re-pin is   *)
(* not held against it any more.                                             *)
ChangeShows ==
    [][\A t \in PinTools \ lost' :
        ((CheckPinned(t) \/ CheckNew(t)) /\ trusted[t] # NoPin) =>
            (flag'[t] = "clean" <=> toolDef[t] = trusted[t]
                                    /\ ~(ScanPoison /\ toolDef[t] \in PoisonedDefs))]_pinVars
=============================================================================
