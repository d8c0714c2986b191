----------------------------- MODULE PackSwitch -----------------------------
(* The on/off switches of the packs, as the processes that share their file  *)
(* see them (pack_state; policy.py).  A process keeps the overrides in       *)
(* memory and reads the file again when its mtime is another one; a switch   *)
(* is thrown by reading, changing and rewriting the whole file.  What an     *)
(* override does to a decision is in Policy, where packs are the ones on.    *)
CONSTANTS SwitchProcs,   \* the engines that share the file
          PackIds,
          DefaultOn,     \* packs that are on unless overridden
          Throws         \* bound: <<process, pack, position>> that may be set

ASSUME PackSwitchAssumption == DefaultOn \subseteq PackIds

VARIABLES packFile,    \* what a reader finds in the file
          overrides,   \* process -> _overrides
          current,     \* processes whose _overrides_mtime is the file's
          setting,     \* process -> the set_pack under way there
          wanted,      \* ghost: what was last set, by pack
          harmed       \* ghost: packs an accident may have taken a switch from

switchVars == <<packFile, overrides, current, setting, wanted, harmed>>

Positions == {"unset", "on", "off"}
Switches  == [PackIds -> Positions]
NoSwitch  == [k \in PackIds |-> "unset"]
CutShort  == [not |-> "JSON"]

NoSetting   == [pc |-> "idle"]
SettingType == [pc : {"loaded", "opened", "written"}, pack : PackIds, state : Switches, raced : BOOLEAN]

PackSwitchTypeOK ==
    /\ packFile = CutShort \/ packFile \in Switches
    /\ overrides \in [SwitchProcs -> Switches]
    /\ current \subseteq SwitchProcs
    /\ setting \in [SwitchProcs -> SettingType \cup {NoSetting}]
    /\ wanted \in Switches /\ harmed \subseteq PackIds

SwitchInit ==
    /\ packFile = NoSwitch
    /\ overrides = [p \in SwitchProcs |-> NoSwitch] /\ current = {}
    /\ setting = [p \in SwitchProcs |-> NoSetting]
    /\ wanted = NoSwitch /\ harmed = {}
-----------------------------------------------------------------------------
(* _load_overrides: a file that is not JSON is no overrides, and is read     *)
(* again next time.                                                          *)
FileSays == IF packFile = CutShort THEN NoSwitch ELSE packFile

CurrentAfter(p) == IF packFile = CutShort THEN current ELSE current \cup {p}

(* Mutant of OverridesNow: the file is read at the start only.               *)
OverridesAtStart(p) == overrides[p]

OverridesNow(p) == IF p \in current THEN overrides[p] ELSE FileSays

Loads(p) ==
    /\ overrides' = [overrides EXCEPT ![p] = OverridesNow(p)]
    /\ current' = CurrentAfter(p)

(* pack_enabled, in a decision.                                              *)
PackOn(p, k) == LET o == OverridesNow(p)[k] IN IF o = "unset" THEN k \in DefaultOn ELSE o = "on"

Consult(p) ==
    /\ setting[p] = NoSetting
    /\ Loads(p)
    /\ UNCHANGED <<packFile, setting, wanted, harmed>>

(* set_pack: read, and change one entry ...                                  *)
SetPackLoads(p, k, pos) ==
    LET others == {q \in SwitchProcs : setting[q] # NoSetting} IN
    /\ setting[p] = NoSetting
    /\ Loads(p)
    /\ setting' = [q \in SwitchProcs |->
          IF q = p THEN [pc |-> "loaded", pack |-> k, state |-> [OverridesNow(p) EXCEPT ![k] = pos],
                         raced |-> others # {}]
          ELSE IF q \in others THEN [setting[q] EXCEPT !.raced = TRUE] ELSE setting[q]]
    /\ UNCHANGED <<packFile, wanted, harmed>>

(* The file gets another mtime, which processes that have read it within the *)
(* same tick of its clock cannot tell from theirs (same).                    *)
Touch(p, pc, same) ==
    LET fooled == (current \cap same) \ {p} IN
    /\ current' = current \cap same
    /\ harmed' = IF fooled = {} THEN harmed ELSE PackIds
    /\ setting' = [setting EXCEPT ![p].pc = pc, ![p].raced = @ \/ fooled # {}]

(* ... open it, which empties it ...                                         *)
SetPackOpens(p) ==
    /\ setting[p].pc = "loaded"
    /\ packFile' = CutShort
    /\ \E same \in SUBSET SwitchProcs : Touch(p, "opened", same)
    /\ UNCHANGED <<overrides, wanted>>

(* ... write it, which can leave the end of another writer's text behind ... *)
SetPackWrites(p) ==
    LET s == setting[p] IN
    /\ s.pc = "opened"
    /\ packFile' \in {s.state} \cup (IF s.raced THEN {CutShort} ELSE {})
    /\ overrides' = [overrides EXCEPT ![p] = s.state]
    /\ wanted' = [wanted EXCEPT ![s.pack] = s.state[s.pack]]
    /\ \E same \in SUBSET SwitchProcs : Touch(p, "written", same)

(* What a finished set_pack leaves to be excused: it sets its own pack right. *)
HarmOf(s) == IF s.raced THEN PackIds ELSE harmed \ {s.pack}

(* ... and remember its mtime, whoever wrote it last.                        *)
SetPackEnds(p) ==
    /\ setting[p].pc = "written"
    /\ current' = current \cup {p}
    /\ setting' = [setting EXCEPT ![p] = NoSetting]
    /\ harmed' = HarmOf(setting[p])
    /\ UNCHANGED <<packFile, overrides, wanted>>

(* A process ends, in the middle of set_pack or not, and another is started. *)
SwitchRestart(p) ==
    LET s == setting[p] IN
    /\ overrides' = [overrides EXCEPT ![p] = FileSays]
    /\ current' = IF packFile = CutShort THEN current \ {p} ELSE current \cup {p}
    /\ setting' = [setting EXCEPT ![p] = NoSetting]
    /\ harmed' = CASE s.pc = "opened"  -> PackIds
                   [] s.pc = "written" -> HarmOf(s)
                   [] OTHER            -> harmed
    /\ UNCHANGED <<packFile, wanted>>

SwitchNext ==
    \E p \in SwitchProcs :
        \/ Consult(p)
        \/ \E k \in PackIds, pos \in {"on", "off"} : <<p, k, pos>> \in Throws /\ SetPackLoads(p, k, pos)
        \/ SetPackOpens(p) \/ SetPackWrites(p) \/ SetPackEnds(p)
        \/ SwitchRestart(p)

PackSwitchSpec == SwitchInit /\ [][SwitchNext]_switchVars
-----------------------------------------------------------------------------
(* "A toggle takes effect without a restart" (policy.py:198), and with one:  *)
(* whenever nobody is at the file, every process decides by what was last    *)
(* set of each pack, and a switch thrown in one process takes no other one   *)
(* back, unless two were thrown at once, the file was changed within a tick  *)
(* of its clock or a process ended while writing it.                         *)
PackSwitched ==
    (\A q \in SwitchProcs : setting[q] = NoSetting) =>
        \A p \in SwitchProcs, k \in PackIds \ harmed :
            PackOn(p, k) <=> (wanted[k] = "on" \/ (wanted[k] = "unset" /\ k \in DefaultOn))
=============================================================================
