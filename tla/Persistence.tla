---------------------------- MODULE Persistence ----------------------------
(***************************************************************************)
(* The data file and its rolling backups: Store of                         *)
(* suaegi-core/src/persistence.rs.  load() trusts the main file, else the  *)
(* newest intact backup; save() writes a temporary file, rotates the       *)
(* backups and renames the temporary file over the main one.               *)
(*                                                                         *)
(* Every system call that changes a file is a step: between any two of     *)
(* them the process may die or the call may fail.  A file's content is its *)
(* kind and, when intact, a stamp that grows with each changed state, so   *)
(* that stamps order the copies by age.  While the program is off the disk *)
(* may damage a file and a newer version of the program may write the main *)
(* one.                                                                    *)
(*                                                                         *)
(* Definitions marked "Slip" are the wrong variants the mutants put in     *)
(* place of the definition after them; Next uses none of them.             *)
(***************************************************************************)
EXTENDS Naturals, FiniteSets, FiniteSetsExt

CONSTANTS Slots,      \* number of backups (BACKUP_SLOTS = 5 in the code)
          Damages,    \* what the disk may do to a file
          MaxStamp,   \* bound on the changed states
          MaxDamage   \* bound on damages and on files of a newer version

ASSUME PersistenceAssumption ==
    /\ Slots \in Nat \ {0, 1}
    /\ Damages \subseteq {"corrupt", "unreadable"}
    /\ MaxStamp \in Nat /\ MaxDamage \in Nat

VARIABLES
    main,        \* the data file
    bak,         \* bak[i] is data.json.bak.i
    fresh,       \* bak.0 is younger than backup_min_interval
    on,          \* the program runs
    hash,        \* last_written_hash: the content it stands for, or Absent
    guard,       \* future_schema_guard
    mem,         \* stamp of the state in memory
    pc,          \* the step save() is at
    slot,        \* the slot rotate_backups fills next
    target,      \* the content of the temporary file
    saved,       \* history: the content the last successful save wrote
    overridden,  \* history: the user has lifted the guard since load
    stamps,      \* history: stamps given out
    damages      \* history: damages and newer files so far

files   == <<main, bak, fresh>>
program == <<on, hash, guard, mem>>
saving  == <<pc, slot, target>>
history == <<saved, overridden, stamps, damages>>
vars == <<files, program, saving, history>>

Good(n) == [kind |-> "good", stamp |-> n]
Bad(kind) == [kind |-> kind, stamp |-> 0]
Absent == Bad("absent")
Newer  == Bad("newer")      \* intact, of a newer schema than ours
Torn   == Bad("corrupt")    \* a copy that broke off

Slot == 0..(Slots - 1)
Exists(content)  == content # Absent
Trusted(content) == content.kind = "good"

Init ==
    /\ main = Absent /\ bak = [i \in Slot |-> Absent] /\ fresh = FALSE
    /\ on = FALSE /\ hash = Absent /\ guard = FALSE /\ mem = 0
    /\ pc = "idle" /\ slot = 0 /\ target = Absent
    /\ saved = Absent /\ overridden = FALSE /\ stamps = 0 /\ damages = 0

-----------------------------------------------------------------------------
(* load()                                                                  *)

\* The slots load_from_backups reads: up to the first it can trust.
SlotsRead == {i \in Slot : \A j \in Slot : j < i => ~Trusted(bak[j])}
Recovered == {bak[i] : i \in {j \in SlotsRead : Trusted(bak[j])}}

\* Slip: a backup of a newer version is passed over like a corrupt one.
GuardAtMainOnly == main = Newer
GuardAtLoad == main = Newer \/ \E i \in SlotsRead : bak[i] = Newer

\* Slip: what was recovered counts as written.
HashAtLoadRecovered ==
    IF Trusted(main) THEN main
    ELSE IF Recovered = {} THEN Absent ELSE CHOOSE content \in Recovered : TRUE
HashAtLoad == IF Trusted(main) THEN main ELSE Absent

\* Slip: the slots are read from the oldest on.
StampAtLoadOldest ==
    LET intact == {bak[i].stamp : i \in {j \in Slot : Trusted(bak[j])}} IN
    IF Trusted(main) THEN main.stamp
    ELSE IF intact = {} THEN 0 ELSE Min(intact)
StampAtLoad ==
    IF Trusted(main) THEN main.stamp
    ELSE Max({0} \cup {content.stamp : content \in Recovered})

Load ==
    /\ ~on
    /\ on' = TRUE
    /\ hash' = HashAtLoad
    /\ guard' = (~Trusted(main) /\ GuardAtLoad)
    /\ mem' = StampAtLoad
    /\ overridden' = FALSE
    /\ UNCHANGED <<files, saving, saved, stamps, damages>>

-----------------------------------------------------------------------------
(* save().  A save the guard refuses, and one of the content that was      *)
(* written last, touch nothing and are no steps here; neither is a failure *)
(* to write the temporary file.                                            *)

Change ==
    /\ on /\ pc = "idle"
    /\ stamps < MaxStamp
    /\ stamps' = stamps + 1
    /\ mem' = stamps + 1
    /\ UNCHANGED <<files, on, hash, guard, saving, saved, overridden, damages>>

WriteTemp ==
    /\ on /\ pc = "idle"
    /\ ~guard
    /\ Good(mem) # hash
    /\ target' = Good(mem)
    /\ pc' = "rotate"
    /\ UNCHANGED <<files, program, slot, history>>

RotationDue == Exists(main) /\ ~(Exists(bak[0]) /\ fresh)

SkipRotation ==
    /\ pc = "rotate" /\ ~RotationDue
    /\ pc' = "persist"
    /\ UNCHANGED <<files, program, slot, target, history>>

RemoveOldest ==
    /\ pc = "rotate" /\ RotationDue
    /\ bak' = [bak EXCEPT ![Slots - 1] = Absent]
    /\ pc' = "shift" /\ slot' = Slots - 1
    /\ UNCHANGED <<main, fresh, program, target, history>>

Shift ==
    /\ pc = "shift"
    /\ slot > 0
    /\ slot' = slot - 1
    /\ bak' = IF Exists(bak[slot - 1])
              THEN [bak EXCEPT ![slot] = bak[slot - 1], ![slot - 1] = Absent]
              ELSE bak
    /\ UNCHANGED <<main, fresh, program, pc, target, history>>

\* Slip: move the main file instead of copying it.
CopyByMoving ==
    /\ pc = "shift" /\ slot = 0
    /\ main.kind # "unreadable"
    /\ bak' = [bak EXCEPT ![0] = main] /\ fresh' = TRUE
    /\ main' = Absent
    /\ pc' = "persist"
    /\ UNCHANGED <<program, slot, target, history>>
Copy ==
    /\ pc = "shift" /\ slot = 0
    /\ main.kind # "unreadable"
    /\ bak' = [bak EXCEPT ![0] = main] /\ fresh' = TRUE
    /\ pc' = "persist"
    /\ UNCHANGED <<main, program, slot, target, history>>

\* Any of the calls fails, opening the main file to copy it included, and
\* save() returns the error.
Fail ==
    /\ pc # "idle"
    /\ pc' = "idle"
    /\ UNCHANGED <<files, program, slot, target, history>>

\* The copy fails half-way; what it wrote stays.
CopyFails ==
    /\ pc = "shift" /\ slot = 0
    /\ main.kind # "unreadable"
    /\ bak' = [bak EXCEPT ![0] = Torn] /\ fresh' = TRUE
    /\ pc' = "idle"
    /\ UNCHANGED <<main, program, slot, target, history>>

Persist ==
    /\ pc = "persist"
    /\ main' = target /\ hash' = target /\ saved' = target
    /\ pc' = "idle"
    /\ UNCHANGED <<bak, fresh, on, guard, mem, slot, target, overridden, stamps, damages>>

Override ==
    /\ on /\ pc = "idle" /\ guard
    /\ guard' = FALSE /\ overridden' = TRUE
    /\ UNCHANGED <<files, on, hash, mem, saving, saved, stamps, damages>>

-----------------------------------------------------------------------------
(* The world around the program.                                           *)

Crash ==
    /\ on
    /\ on' = FALSE /\ pc' = "idle"
    /\ hash' = Absent /\ guard' = FALSE /\ mem' = 0
    /\ UNCHANGED <<files, slot, target, history>>

CrashInCopy ==
    /\ on
    /\ pc = "shift" /\ slot = 0
    /\ main.kind # "unreadable"
    /\ bak' = [bak EXCEPT ![0] = Torn] /\ fresh' = TRUE
    /\ on' = FALSE /\ pc' = "idle"
    /\ hash' = Absent /\ guard' = FALSE /\ mem' = 0
    /\ UNCHANGED <<main, slot, target, history>>

AnHourPasses ==
    /\ fresh
    /\ fresh' = FALSE
    /\ UNCHANGED <<main, bak, program, saving, history>>

Damage(content) ==
    /\ ~on /\ damages < MaxDamage
    /\ damages' = damages + 1
    /\ \/ Exists(main) /\ main' = content /\ UNCHANGED bak
       \/ \E i \in Slot : Exists(bak[i]) /\ bak' = [bak EXCEPT ![i] = content] /\ UNCHANGED main
    /\ UNCHANGED <<fresh, program, saving, saved, overridden, stamps>>

Next ==
    \/ Load \/ Change \/ WriteTemp \/ SkipRotation \/ RemoveOldest \/ Shift
    \/ Copy \/ CopyFails \/ Persist \/ Fail \/ Override
    \/ Crash \/ CrashInCopy \/ AnHourPasses
    \/ \E kind \in Damages \cup {"newer"} : Damage(Bad(kind))

Spec == Init /\ [][Next]_vars

-----------------------------------------------------------------------------
(* Properties                                                              *)

\* The intact copies are ordered by age: no backup is newer than the main
\* file, no later slot newer than an earlier one.  It is what entitles load()
\* to take the first intact copy it finds for the newest one.
NewestFirst ==
    /\ \A i \in Slot : Trusted(main) /\ Trusted(bak[i]) => bak[i].stamp <= main.stamp
    /\ \A i, j \in Slot : i < j /\ Trusted(bak[i]) /\ Trusted(bak[j])
                             => bak[j].stamp <= bak[i].stamp

\* SkippedUnchanged is true: a content save() skips is in the main file.
HashTellsMain == hash # Absent => main = hash

\* What load() would find, and what stands behind it.
Durable == INSTANCE DataFile WITH
    durable <- StampAtLoad, running <- on, memory <- mem,
    exposed <- Exists(main) /\ ~Trusted(main)

\* A start finds what the last successful save wrote, whatever crashed or
\* failed in a later save; a damaged main file costs at most the newest states,
\* and more only if a save fails before one has succeeded.
StartsFindTheLastSave == Durable!Spec

\* With an undamaged disk the main file holds what the last successful save
\* wrote, at every step of a later save and after a crash at any of them.
MainIsLastSave == damages = 0 => main = saved

\* The first copy, in load()'s order, that is neither missing nor damaged is a
\* newer version's.
NewestIsNewer ==
    \/ main = Newer
    \/ /\ ~Trusted(main)
       /\ \E i \in SlotsRead : bak[i] = Newer

\* As long as the user has not agreed, the program leaves all files alone when
\* a newer version has written what it would have to recover from.
NewerDataIsLeftAlone ==
    [][on /\ ~overridden /\ NewestIsNewer => UNCHANGED <<main, bak>>]_vars

Copies == {main} \cup {bak[i] : i \in Slot}

\* A save, successful, failed or broken off, never takes away the last intact
\* copy of the user's data.
LastCopyIsKept ==
    [][on /\ (\E content \in Copies : Trusted(content))
           => \E content \in Copies' : Trusted(content)]_vars
=============================================================================
