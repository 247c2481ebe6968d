-------------------------- MODULE HardwareRegistry --------------------------
(***************************************************************************)
(* Which boards a device really has. Administrators verify, correct and    *)
(* freeze the record of a device, each change made to the revision that    *)
(* they looked at; reports of the device that contradict a verified record *)
(* put it in conflict. Every change counts the revision up and is written  *)
(* to an audit in the same transaction, which holds the lock of the row:   *)
(* so a transaction is one step. A compatibility window permits a firmware *)
(* for one revision of one device.                                         *)
(*                                                                         *)
(* A device is named by the row of the file it may be imported from, its   *)
(* modules by one board. Left out: what the modules' own revisions count,  *)
(* evidence and reasons, the expiry of windows, and the deletion of a      *)
(* draft, of which there is no window. The firmware is one.                *)
(***************************************************************************)
EXTENDS Integers, Sequences, FiniteSets

CONSTANTS
    Serials,        \* devices, as numbers of rows
    Boards,         \* types of boards
    MaxReport,      \* bound: times at which a device can have reported
    MaxChanges,     \* bound: revisions of all devices together
    MaxWindows      \* bound: windows

ASSUME HardwareAssumption ==
    /\ Serials \subseteq Nat /\ IsFiniteSet(Serials)
    /\ "none" \notin Boards
    /\ {MaxReport, MaxChanges, MaxWindows} \subseteq Nat

VARIABLES
    boardTypes,   \* hardware_board_types
    registry,     \* registry[d]: row of device_hardware_registry, with its board
    history,      \* history[d]: rows of device_hardware_history
    latest,       \* latest[d]: newest time in device_hardware_observations, 0 without one
    firmware,     \* release_status and firmware_board_types of the firmware
    windows       \* ota_compatibility_windows

registryVars == <<boardTypes, registry, history, latest>>
hardwareVars == <<registryVars, firmware, windows>>

\* A device without a row reads as a fresh one.
Fresh == [state |-> "unverified", revision |-> 0, frozen |-> FALSE, board |-> "none"]

HardwareInit ==
    /\ boardTypes = {}
    /\ registry = [d \in Serials |-> Fresh]
    /\ history = [d \in Serials |-> <<>>]
    /\ latest = [d \in Serials |-> 0]
    /\ firmware = [status |-> "draft", scope |-> {}]
    /\ windows = {}

-----------------------------------------------------------------------------
(* The record and its audit.                                               *)

\* The changes that were made, of all devices.
Changes == UNION {{d} \X DOMAIN history[d] : d \in Serials}

\* Devices get new rows, new[d], and an entry in the audit each, in one transaction. The
\* entry keeps the revision seen[d] that the change was asked for.
Audited(action, seen, new) ==
    /\ Cardinality(Changes) + Cardinality(DOMAIN new) <= MaxChanges
    /\ registry' = [d \in Serials |-> IF d \in DOMAIN new THEN new[d] ELSE registry[d]]
    /\ history' = [d \in Serials |->
                      IF d \in DOMAIN new
                      THEN Append(history[d], [action |-> action, seen |-> seen[d], after |-> new[d]])
                      ELSE history[d]]

Revisions == [d \in Serials |-> registry[d].revision]

\* Mutant: the expected revision is not compared.
ExpectedAny(d, seen) == TRUE

\* mutateHardware compares the revision the administrator saw.
Expected(d, seen) == registry[d].revision = seen

\* The row with its identity verified to be board b.
Verified(d, b) ==
    [registry[d] EXCEPT !.state = "verified", !.revision = @ + 1, !.board = b]

Eligible(action, d) ==
    CASE action = "verify"         -> registry[d].state = "unverified"
      [] action = "correction"     -> registry[d].revision > 0
      [] action = "service_change" -> registry[d].revision > 0 /\ registry[d].frozen

\* Verify, Correct and ServiceChange, of an administrator who saw some earlier revision.
SetIdentity(d, action, seen, b) ==
    /\ Expected(d, seen) /\ Eligible(action, d) /\ b \in boardTypes
    /\ Audited(action, [x \in {d} |-> seen], [x \in {d} |-> Verified(x, b)])
    /\ UNCHANGED <<boardTypes, latest, firmware, windows>>

\* Freeze sets frozen or takes it back, the latter for a verified identity only.
Freeze(d, seen, frozen) ==
    /\ Expected(d, seen)
    /\ frozen \/ registry[d].state = "verified"
    /\ Audited("freeze", [x \in {d} |-> seen],
               [x \in {d} |-> [registry[x] EXCEPT !.frozen = frozen, !.revision = @ + 1]])
    /\ UNCHANGED <<boardTypes, latest, firmware, windows>>

CreateBoardType(b) ==
    /\ b \notin boardTypes /\ boardTypes' = boardTypes \cup {b}
    /\ UNCHANGED <<registry, history, latest, firmware, windows>>

-----------------------------------------------------------------------------
(* What devices report.                                                    *)

\* Mutant: a conflict does not count as a revision.
ConflictedUncounted(d) == [registry[d] EXCEPT !.state = "conflict"]

Conflicted(d) == [registry[d] EXCEPT !.state = "conflict", !.revision = @ + 1]

\* Observe keeps the report. One that is newer than all before it and names another
\* board than the verified one puts the record in conflict. Old ones may come late.
Observe(d, b, time) ==
    /\ latest' = [latest EXCEPT ![d] = IF time > @ THEN time ELSE @]
    /\ IF registry[d].state = "verified" /\ time > latest[d] /\ b \notin {"none", registry[d].board}
       THEN Audited("observation_conflict", Revisions, [x \in {d} |-> Conflicted(x)])
       ELSE UNCHANGED <<registry, history>>
    /\ UNCHANGED <<boardTypes, firmware, windows>>

\* RecordIdentityConflict: a session of the device sent the number of another one.
SessionConflict(d) ==
    /\ registry[d].state # "conflict"
    /\ Audited("session_identity_conflict", Revisions, [x \in {d} |-> Conflicted(x)])
    /\ UNCHANGED <<boardTypes, latest, firmware, windows>>

-----------------------------------------------------------------------------
(* The firmware and its windows.                                           *)

\* SetFirmwareBoards, under the lock of the firmware: the boards of a release are set
\* once, and those of a draft as often as one likes.
SetFirmwareBoards(codes) ==
    /\ codes # {} /\ codes \subseteq boardTypes /\ codes # firmware.scope
    /\ \/ firmware.status = "draft"
       \/ (firmware.status = "published" /\ firmware.scope = {})
    /\ firmware' = [firmware EXCEPT !.scope = codes]
    /\ UNCHANGED <<registryVars, windows>>

\* PublishFirmware and DisableFirmware, from any status.
Release(status) ==
    /\ firmware.status # status
    /\ firmware' = [firmware EXCEPT !.status = status]
    /\ UNCHANGED <<registryVars, windows>>

\* CreateCompatibilityWindow, under the lock of the record.
CreateWindow(d, seen) ==
    /\ registry[d].state = "verified" /\ ~registry[d].frozen /\ Expected(d, seen)
    /\ firmware.status = "published" /\ registry[d].board \in firmware.scope
    /\ Cardinality(windows) < MaxWindows
    /\ windows' = windows \cup {[sn |-> d, revision |-> seen]}
    /\ UNCHANGED <<registryVars, firmware>>

-----------------------------------------------------------------------------
\* What changes the record of a device, except for its reports.
RecordNext ==
    \/ \E b \in Boards : CreateBoardType(b)
    \/ \E d \in Serials :
          \/ \E seen \in 0 .. registry[d].revision :
                \/ \E action \in {"verify", "correction", "service_change"}, b \in Boards :
                      SetIdentity(d, action, seen, b)
                \/ \E frozen \in BOOLEAN : Freeze(d, seen, frozen)
          \/ SessionConflict(d)

HardwareNext ==
    \/ RecordNext
    \/ \E d \in Serials, b \in Boards \cup {"none"}, time \in 1 .. MaxReport : Observe(d, b, time)
    \/ \E codes \in SUBSET Boards : SetFirmwareBoards(codes)
    \/ \E status \in {"published", "disabled"} : Release(status)
    \/ \E d \in Serials : \E seen \in 0 .. registry[d].revision : CreateWindow(d, seen)

HardwareSpec == HardwareInit /\ [][HardwareNext]_hardwareVars

-----------------------------------------------------------------------------
\* The values the state can take.
HardwareTypeOK ==
    LET Rows == [state : {"unverified", "verified", "conflict"}, revision : 0 .. MaxChanges,
                 frozen : BOOLEAN, board : Boards \cup {"none"}]
    IN /\ boardTypes \subseteq Boards
       /\ registry \in [Serials -> Rows]
       /\ \A d \in Serials : \A i \in DOMAIN history[d] : history[d][i].after \in Rows
       /\ latest \in [Serials -> 0 .. MaxReport]
       /\ firmware \in [status : {"draft", "published", "disabled"}, scope : SUBSET Boards]
       /\ windows \subseteq [sn : Serials, revision : 0 .. MaxChanges]

\* The row before entry i of the audit.
Before(d, i) == IF i = 1 THEN Fresh ELSE history[d][i - 1].after

\* The audit tells how each record came to be what it is: its revisions follow one
\* another without a gap, whoever writes at once; each was made to the revision its
\* author saw; an identity that was verified or disputed is replaced by a correction or,
\* while frozen, by a service change, and by nothing else.
RecordIsAudited ==
    \A d \in Serials :
        /\ registry[d] = Before(d, Len(history[d]) + 1)
        /\ \A i \in DOMAIN history[d] :
              LET old == Before(d, i)
                  new == history[d][i].after
              IN /\ new.revision = i /\ history[d][i].seen = i - 1
                 /\ (/\ old.state # "unverified"
                     /\ (old.board # new.board \/ (old.state = "conflict" /\ new.state = "verified")))
                    => \/ history[d][i].action = "correction"
                       \/ (history[d][i].action = "service_change" /\ old.frozen)

\* As long as a record has the revision a window was made for, the window is right: the
\* record is verified, not frozen, and its board is one of the firmware's, whatever was
\* reported, corrected, frozen, released or withdrawn meanwhile.
WindowIsLawful ==
    \A w \in windows :
        LET r == registry[w.sn]
        IN r.revision = w.revision =>
               r.state = "verified" /\ ~r.frozen /\ r.board \in firmware.scope
=============================================================================
