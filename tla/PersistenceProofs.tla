------------------------- MODULE PersistenceProofs -------------------------
(* The order of the backups and the guard of newer data, for any number of   *)
(* backups, saves, crashes and damages.                                      *)
EXTENDS Persistence, TLAPS, WellFoundedInduction

Content == [kind : {"good", "absent", "corrupt", "unreadable", "newer"}, stamp : Nat]

\* What the variables hold; a save runs in a program and writes its state.
FilesType ==
    /\ main \in Content /\ bak \in [Slot -> Content]
    /\ on \in BOOLEAN /\ guard \in BOOLEAN /\ overridden \in BOOLEAN
    /\ mem \in Nat /\ stamps \in Nat /\ damages \in Nat /\ slot \in Slot
    /\ pc \in {"idle", "rotate", "shift", "persist"}
    /\ pc # "idle" => on /\ ~guard /\ target = Good(mem)
    /\ hash # Absent => on

\* The state in memory is at least as new as every copy it can be saved over,
\* and a changed state is newer than all copies.
MemIsNewest ==
    /\ Trusted(main) => main.stamp <= stamps
    /\ \A i \in Slot : Trusted(bak[i]) => bak[i].stamp <= stamps
    /\ mem <= stamps
    /\ on => /\ Trusted(main) => main.stamp <= mem
             /\ \A i \in Slot : Trusted(bak[i]) => bak[i].stamp <= mem

\* rotate_backups renames into a slot that is free.
SlotIsFree == pc = "shift" => bak[slot] = Absent

\* An unguarded program has nothing of a newer version in front of what load()
\* would take.
NothingNewerInFront ==
    on /\ ~overridden /\ ~guard =>
        /\ main # Newer
        /\ \/ Trusted(main)
           \/ \A i \in Slot : bak[i] = Newer => \E k \in Slot : k < i /\ Trusted(bak[k])

FilesInv ==
    /\ FilesType /\ MemIsNewest /\ SlotIsFree /\ NothingNewerInFront
    /\ NewestFirst /\ HashTellsMain /\ MainIsLastSave

-----------------------------------------------------------------------------
\* The contents the program and the disk write.
LEMMA Contents ==
    /\ Absent \in Content /\ Newer \in Content /\ Torn \in Content
    /\ ~Trusted(Absent) /\ ~Trusted(Newer) /\ ~Trusted(Torn) /\ Absent # Newer
    /\ Torn # Newer /\ Torn # Absent
    /\ \A n \in Nat : /\ Good(n) \in Content /\ Trusted(Good(n)) /\ Good(n).stamp = n
                      /\ Good(n) # Absent /\ Good(n) # Newer
    /\ \A kind \in Damages \cup {"newer"} : Bad(kind) \in Content /\ ~Trusted(Bad(kind))
  BY PersistenceAssumption DEF Absent, Newer, Torn, Bad, Good, Trusted, Content

\* A set of slots that is not empty has a first one.
LEMMA First ==
  ASSUME NEW T, T \subseteq Nat, T # {}
  PROVE  \E x \in T : \A y \in T : x <= y
<1>1. PICK x \in T : \A y \in T : ~(<<y, x>> \in OpToRel(<, Nat))
  BY NatLessThanWellFounded, WFMin
<1>2. \A y \in T : ~(y < x)
  BY <1>1 DEF OpToRel
<1> QED
  BY <1>2

\* load() takes the first intact copy, which is the newest.
LEMMA LoadedIsNewest ==
  ASSUME FilesInv
  PROVE  /\ StampAtLoad \in Nat /\ StampAtLoad <= stamps
         /\ Trusted(main) => main.stamp <= StampAtLoad
         /\ \A i \in Slot : Trusted(bak[i]) => bak[i].stamp <= StampAtLoad
<1> DEFINE T == {i \in Slot : Trusted(bak[i])}
<1> USE PersistenceAssumption DEF Slot
<1>1. CASE Trusted(main)
  BY <1>1 DEF FilesInv, FilesType, MemIsNewest, NewestFirst, StampAtLoad, Content
<1>2. CASE ~Trusted(main) /\ T = {}
  <2>1. Recovered = {}
    BY <1>2 DEF Recovered, SlotsRead
  <2>2. {0} \cup {content.stamp : content \in Recovered} = {0}
    BY <2>1
  <2>3. StampAtLoad = 0
    BY <1>2, <2>2 DEF StampAtLoad, Max
  <2> QED
    BY <1>2, <2>3 DEF FilesInv, FilesType
<1>3. CASE ~Trusted(main) /\ T # {}
  <2>1. PICK k \in T : \A j \in T : k <= j
    BY <1>3, First, T \subseteq Nat
  <2>2. Recovered = {bak[k]}
    BY <2>1 DEF Recovered, SlotsRead
  <2>3. bak[k].stamp \in Nat
    BY <2>1 DEF FilesInv, FilesType, Content
  <2>4. Max({0} \cup {content.stamp : content \in {bak[k]}}) = bak[k].stamp
    <3>1. {0} \cup {content.stamp : content \in {bak[k]}} = {0, bak[k].stamp}
      OBVIOUS
    <3>2. Max({0, bak[k].stamp}) \in {0, bak[k].stamp}
          /\ \A y \in {0, bak[k].stamp} : Max({0, bak[k].stamp}) >= y
      BY <2>3 DEF Max
    <3> QED BY <2>3, <3>1, <3>2
  <2>5. StampAtLoad = bak[k].stamp
    BY <1>3, <2>2, <2>4 DEF StampAtLoad
  <2> QED
    BY <1>3, <2>1, <2>3, <2>5 DEF FilesInv, FilesType, MemIsNewest, NewestFirst, Content
<1> QED
  BY <1>1, <1>2, <1>3

-----------------------------------------------------------------------------
\* The files start out absent.
LEMMA InitFiles == Init => FilesInv
<1> SUFFICES ASSUME Init PROVE FilesInv
  OBVIOUS
<1>1. /\ main = Absent /\ \A i \in Slot : bak[i] = Absent
      /\ ~on /\ hash = Absent /\ pc = "idle" /\ mem = 0 /\ stamps = 0
      /\ saved = Absent
  BY DEF Init
<1>2. FilesType
  <2>1. slot \in Slot /\ main \in Content /\ bak \in [Slot -> Content]
    BY Contents, PersistenceAssumption DEF Init, Slot
  <2>2. /\ on \in BOOLEAN /\ guard \in BOOLEAN /\ overridden \in BOOLEAN
        /\ mem \in Nat /\ stamps \in Nat /\ damages \in Nat
    BY DEF Init
  <2> QED
    BY <1>1, <2>1, <2>2 DEF FilesType
<1>3. MemIsNewest /\ NewestFirst
  BY <1>1, Contents DEF MemIsNewest, NewestFirst
<1> QED
  BY <1>1, <1>2, <1>3
  DEF FilesInv, SlotIsFree, NothingNewerInFront, HashTellsMain, MainIsLastSave

\* After load() the state in memory is as new as any copy, and the program is
\* guarded when a newer version's file comes before the copy it took.
LEMMA LoadKeeps ==
  ASSUME FilesInv, Load
  PROVE  FilesInv'
<1>1. /\ StampAtLoad \in Nat /\ StampAtLoad <= stamps
      /\ Trusted(main) => main.stamp <= StampAtLoad
      /\ \A i \in Slot : Trusted(bak[i]) => bak[i].stamp <= StampAtLoad
  BY LoadedIsNewest
<1>2. /\ main' = main /\ bak' = bak /\ on' = TRUE /\ overridden' = FALSE
      /\ mem' = StampAtLoad /\ stamps' = stamps /\ damages' = damages
      /\ pc' = pc /\ slot' = slot /\ target' = target /\ saved' = saved
      /\ hash' = HashAtLoad /\ guard' = (~Trusted(main) /\ GuardAtLoad)
      /\ pc = "idle"
  BY DEF Load, FilesInv, FilesType, files, saving
<1>3. FilesType'
  BY <1>1, <1>2 DEF FilesInv, FilesType, Trusted
<1>4. MemIsNewest'
  BY <1>1, <1>2 DEF FilesInv, MemIsNewest, Trusted
<1>5. NothingNewerInFront'
  <2>1. CASE Trusted(main)
    BY <1>2, <2>1, Contents DEF NothingNewerInFront, Trusted
  <2>2. CASE ~Trusted(main) /\ ~guard'
    <3>1. main # Newer /\ \A i \in SlotsRead : bak[i] # Newer
      BY <1>2, <2>2 DEF GuardAtLoad
    <3>2. \A i \in Slot : bak[i] = Newer => \E k \in Slot : k < i /\ Trusted(bak[k])
      BY <3>1 DEF SlotsRead
    <3> QED
      BY <1>2, <3>1, <3>2 DEF NothingNewerInFront, Trusted
  <2> QED
    BY <1>2, <2>1, <2>2 DEF NothingNewerInFront
<1> QED
  BY <1>2, <1>3, <1>4, <1>5
  DEF FilesInv, SlotIsFree, NewestFirst, HashTellsMain, HashAtLoad, MainIsLastSave, Trusted

\* A changed state is newer than every copy.
LEMMA ChangeKeeps ==
  ASSUME FilesInv, Change
  PROVE  FilesInv'
<1>1. /\ main' = main /\ bak' = bak /\ on' = on /\ hash' = hash /\ guard' = guard
      /\ pc' = pc /\ slot' = slot /\ target' = target /\ saved' = saved
      /\ overridden' = overridden /\ damages' = damages
      /\ on /\ pc = "idle" /\ stamps' = stamps + 1 /\ mem' = stamps + 1
  BY DEF Change, files, saving
<1>2. FilesType'
  BY <1>1 DEF FilesInv, FilesType
<1>3. MemIsNewest'
  <2>1. /\ main \in Content /\ \A i \in Slot : bak[i] \in Content
        /\ stamps \in Nat
    BY DEF FilesInv, FilesType
  <2>2. \A n \in Nat : n <= stamps => n <= stamps + 1
    BY <2>1
  <2> QED
    BY <1>1, <2>1, <2>2 DEF FilesInv, MemIsNewest, Trusted, Content
<1> QED
  BY <1>1, <1>2, <1>3
  DEF FilesInv, SlotIsFree, NothingNewerInFront, NewestFirst, HashTellsMain,
      MainIsLastSave, Trusted

\* Steps that touch no file, no state in memory and no slot keep the files in
\* order.
LEMMA FilesUntouched ==
  ASSUME FilesInv, FilesType',
         main' = main, bak' = bak, mem' = mem, stamps' = stamps, saved' = saved,
         damages' = damages, slot' = slot, on' = on, hash' = hash,
         pc' # "shift" \/ pc' = pc,
         (guard' = guard /\ overridden' = overridden) \/ overridden' = TRUE
  PROVE  FilesInv'
<1>1. NothingNewerInFront'
  BY DEF FilesInv, NothingNewerInFront, Trusted
<1> QED
  BY <1>1 DEF FilesInv, MemIsNewest, SlotIsFree, NewestFirst, HashTellsMain,
              MainIsLastSave, Trusted

\* Steps of save() and of the user that touch no file.
LEMMA QuietKeeps ==
  ASSUME FilesInv, WriteTemp \/ SkipRotation \/ Fail \/ Override \/ AnHourPasses \/ UNCHANGED vars
  PROVE  FilesInv'
<1>1. CASE WriteTemp
  <2>1. FilesType'
    BY <1>1 DEF WriteTemp, FilesInv, FilesType, files, program, history
  <2> QED
    BY <1>1, <2>1, FilesUntouched DEF WriteTemp, files, program, history
<1>2. CASE SkipRotation
  <2>1. FilesType'
    BY <1>2 DEF SkipRotation, FilesInv, FilesType, files, program, history
  <2> QED
    BY <1>2, <2>1, FilesUntouched DEF SkipRotation, files, program, history
<1>3. CASE Fail
  <2>1. FilesType'
    BY <1>3 DEF Fail, FilesInv, FilesType, files, program, history
  <2> QED
    BY <1>3, <2>1, FilesUntouched DEF Fail, files, program, history
<1>4. CASE Override
  <2>1. FilesType'
    BY <1>4 DEF Override, FilesInv, FilesType, files, saving
  <2> QED
    BY <1>4, <2>1, FilesUntouched DEF Override, files, saving
<1>5. CASE AnHourPasses
  <2>1. FilesType'
    BY <1>5 DEF AnHourPasses, FilesInv, FilesType, program, saving, history
  <2> QED
    BY <1>5, <2>1, FilesUntouched DEF AnHourPasses, program, saving, history
<1>6. CASE UNCHANGED vars
  <2>1. FilesType'
    BY <1>6 DEF vars, FilesInv, FilesType, files, program, saving, history
  <2> QED
    BY <1>6, <2>1, FilesUntouched DEF vars, files, program, saving, history
<1> QED
  BY <1>1, <1>2, <1>3, <1>4, <1>5, <1>6

\* When the program dies nothing is left of its memory.
LEMMA CrashKeeps ==
  ASSUME FilesInv, Crash
  PROVE  FilesInv'
<1>1. /\ main' = main /\ bak' = bak /\ on' = FALSE /\ hash' = Absent /\ guard' = FALSE
      /\ mem' = 0 /\ pc' = "idle" /\ slot' = slot /\ stamps' = stamps
      /\ overridden' = overridden /\ saved' = saved /\ damages' = damages
  BY DEF Crash, files, history
<1>2. FilesType'
  BY <1>1 DEF FilesInv, FilesType
<1>3. MemIsNewest'
  BY <1>1 DEF FilesInv, FilesType, MemIsNewest, Trusted
<1> QED
  BY <1>1, <1>2, <1>3
  DEF FilesInv, SlotIsFree, NothingNewerInFront, NewestFirst, HashTellsMain,
      MainIsLastSave, Trusted

\* The backups in order, after a step that only moves, drops or breaks copies:
\* each intact copy comes from a slot that was not in front of it.
LEMMA FewerCopies ==
  ASSUME FilesInv, NEW from \in [Slot -> Slot],
         \A i, j \in Slot : i < j => from[i] <= from[j],
         main' = main \/ ~Trusted(main'), mem' = mem \/ ~on', stamps' = stamps, on' \in BOOLEAN, on' => on,
         mem' <= stamps,
         \A i \in Slot : Trusted(bak'[i]) => bak'[i] = bak[from[i]]
  PROVE  MemIsNewest' /\ NewestFirst'
<1> USE PersistenceAssumption DEF Slot
<1>1. MemIsNewest'
  BY DEF FilesInv, MemIsNewest, Trusted
<1>2. \A i, j \in Slot : i <= j /\ Trusted(bak[i]) /\ Trusted(bak[j]) => bak[j].stamp <= bak[i].stamp
  BY DEF FilesInv, NewestFirst, FilesType, Content
<1>3. ASSUME NEW i \in Slot, Trusted(main'), Trusted(bak'[i])
      PROVE  bak'[i].stamp <= main'.stamp
  BY <1>3 DEF FilesInv, NewestFirst
<1>4. ASSUME NEW i \in Slot, NEW j \in Slot, i < j, Trusted(bak'[i]), Trusted(bak'[j])
      PROVE  bak'[j].stamp <= bak'[i].stamp
  <2>1. from[i] \in Slot /\ from[j] \in Slot /\ from[i] <= from[j]
    BY <1>4
  <2> QED
    BY <1>2, <1>4, <2>1
<1>5. NewestFirst'
  BY <1>3, <1>4 DEF NewestFirst, Trusted
<1> QED
  BY <1>1, <1>5

\* rotate_backups frees the last slot.
LEMMA RemoveOldestKeeps ==
  ASSUME FilesInv, RemoveOldest
  PROVE  FilesInv'
<1> USE PersistenceAssumption
<1>1. /\ main' = main /\ on' = on /\ hash' = hash /\ guard' = guard /\ mem' = mem
      /\ pc = "rotate" /\ pc' = "shift" /\ slot' = Slots - 1 /\ target' = target
      /\ saved' = saved /\ overridden' = overridden /\ stamps' = stamps /\ damages' = damages
      /\ bak' = [bak EXCEPT ![Slots - 1] = Absent]
  BY DEF RemoveOldest, program, history
<1>2. /\ Slots - 1 \in Slot /\ bak'[Slots - 1] = Absent
      /\ \A i \in Slot : i # Slots - 1 => bak'[i] = bak[i]
      /\ bak' \in [Slot -> Content]
  BY <1>1, Contents DEF FilesInv, FilesType, Slot
<1>3. FilesType'
  BY <1>1, <1>2 DEF FilesInv, FilesType
<1>4. MemIsNewest' /\ NewestFirst'
  <2> DEFINE same == [i \in Slot |-> i]
  <2>1. same \in [Slot -> Slot] /\ \A i, j \in Slot : i < j => same[i] <= same[j]
    BY DEF Slot
  <2>2. \A i \in Slot : Trusted(bak'[i]) => bak'[i] = bak[same[i]]
    BY <1>2, Contents
  <2>3. mem <= stamps /\ on \in BOOLEAN
    BY DEF FilesInv, MemIsNewest, FilesType
  <2> HIDE DEF same
  <2> QED
    BY <1>1, <2>1, <2>2, <2>3, FewerCopies
<1>5. NothingNewerInFront'
  <2>1. \A i, k \in Slot : k < i => k # Slots - 1
    BY DEF Slot
  <2> QED
    BY <1>1, <1>2, <2>1, Contents DEF FilesInv, NothingNewerInFront, Trusted
<1> QED
  BY <1>1, <1>2, <1>3, <1>4, <1>5 DEF FilesInv, SlotIsFree, HashTellsMain, MainIsLastSave

\* A copy moves into the free slot behind it and leaves its own free.
LEMMA ShiftKeeps ==
  ASSUME FilesInv, Shift
  PROVE  FilesInv'
<1> USE PersistenceAssumption
<1>1. /\ main' = main /\ on' = on /\ hash' = hash /\ guard' = guard /\ mem' = mem
      /\ pc = "shift" /\ pc' = pc /\ slot > 0 /\ slot' = slot - 1 /\ target' = target
      /\ saved' = saved /\ overridden' = overridden /\ stamps' = stamps /\ damages' = damages
  BY DEF Shift, program, history
<1>2. /\ slot \in Slot /\ slot - 1 \in Slot /\ bak[slot] = Absent
      /\ bak \in [Slot -> Content]
  BY <1>1 DEF FilesInv, FilesType, SlotIsFree, Slot
<1>3. /\ bak'[slot] = bak[slot - 1] /\ bak'[slot - 1] = Absent
      /\ \A i \in Slot : i # slot /\ i # slot - 1 => bak'[i] = bak[i]
      /\ bak' \in [Slot -> Content]
  <2>1. CASE Exists(bak[slot - 1])
    BY <1>2, <2>1, Contents DEF Shift, Slot
  <2>2. CASE ~Exists(bak[slot - 1])
    BY <1>2, <2>2 DEF Shift, Exists
  <2> QED
    BY <2>1, <2>2
<1>4. FilesType'
  BY <1>1, <1>2, <1>3 DEF FilesInv, FilesType
<1>5. MemIsNewest' /\ NewestFirst'
  <2> DEFINE back == [i \in Slot |-> IF i = slot THEN slot - 1 ELSE i]
  <2>1. back \in [Slot -> Slot] /\ \A i, j \in Slot : i < j => back[i] <= back[j]
    BY <1>2 DEF Slot
  <2>2. \A i \in Slot : Trusted(bak'[i]) => bak'[i] = bak[back[i]]
    BY <1>2, <1>3, Contents
  <2>3. mem <= stamps /\ on \in BOOLEAN
    BY DEF FilesInv, MemIsNewest, FilesType
  <2> HIDE DEF back
  <2> QED
    BY <1>1, <2>1, <2>2, <2>3, FewerCopies
<1>6. NothingNewerInFront'
  <2> SUFFICES ASSUME on, ~overridden, ~guard, ~Trusted(main),
                      NEW i \in Slot, bak'[i] = Newer
               PROVE  \E k \in Slot : k < i /\ Trusted(bak'[k])
    BY <1>1 DEF FilesInv, NothingNewerInFront, Trusted
  <2>1. CASE i = slot
    <3>1. PICK k \in Slot : k < slot - 1 /\ Trusted(bak[k])
      BY <1>2, <1>3, <2>1 DEF FilesInv, NothingNewerInFront
    <3> QED
      BY <1>3, <2>1, <3>1, <1>2 DEF Slot
  <2>2. CASE i # slot
    <3>1. i # slot - 1 /\ bak[i] = Newer
      BY <1>3, <2>2, Contents
    <3>2. PICK k \in Slot : k < i /\ Trusted(bak[k])
      BY <3>1 DEF FilesInv, NothingNewerInFront
    <3>3. k # slot
      BY <1>2, <3>2, Contents
    <3>4. CASE k = slot - 1
      BY <1>2, <1>3, <2>2, <3>1, <3>2, <3>4 DEF Slot
    <3>5. CASE k # slot - 1
      BY <1>3, <3>2, <3>3, <3>5
    <3> QED
      BY <3>4, <3>5
  <2> QED
    BY <2>1, <2>2
<1> QED
  BY <1>1, <1>3, <1>4, <1>5, <1>6 DEF FilesInv, SlotIsFree, HashTellsMain, MainIsLastSave

\* The copy of the main file goes into the free first slot.
LEMMA CopyKeeps ==
  ASSUME FilesInv, Copy
  PROVE  FilesInv'
<1> USE PersistenceAssumption
<1>1. /\ main' = main /\ on' = on /\ hash' = hash /\ guard' = guard /\ mem' = mem
      /\ pc = "shift" /\ pc' = "persist" /\ slot = 0 /\ slot' = slot /\ target' = target
      /\ saved' = saved /\ overridden' = overridden /\ stamps' = stamps /\ damages' = damages
      /\ bak' = [bak EXCEPT ![0] = main]
  BY DEF Copy, program, history
<1>2. /\ 0 \in Slot /\ bak[0] = Absent /\ bak'[0] = main
      /\ \A i \in Slot : i # 0 => bak'[i] = bak[i]
      /\ main \in Content /\ bak' \in [Slot -> Content]
  BY <1>1 DEF FilesInv, FilesType, SlotIsFree, Slot
<1>3. FilesType'
  BY <1>1, <1>2 DEF FilesInv, FilesType
<1>4. MemIsNewest'
  BY <1>1, <1>2 DEF FilesInv, MemIsNewest, Trusted
<1>5. NewestFirst'
  <2>1. main.stamp \in Nat /\ \A i, j \in Slot : i < j => j # 0
    BY <1>2 DEF Slot, Content
  <2> QED
    BY <1>1, <1>2, <2>1 DEF FilesInv, NewestFirst, Trusted
<1>6. NothingNewerInFront'
  BY <1>1, <1>2, Contents DEF FilesInv, NothingNewerInFront, Trusted
<1> QED
  BY <1>1, <1>3, <1>4, <1>5, <1>6 DEF FilesInv, SlotIsFree, HashTellsMain, MainIsLastSave

\* A copy that broke off is not intact, whether the program lives on or not.
LEMMA TornCopyKeeps ==
  ASSUME FilesInv, CopyFails \/ CrashInCopy
  PROVE  FilesInv'
<1> USE PersistenceAssumption
<1>1. /\ main' = main /\ pc = "shift" /\ pc' = "idle" /\ slot = 0 /\ slot' = slot
      /\ target' = target /\ saved' = saved /\ overridden' = overridden
      /\ stamps' = stamps /\ damages' = damages /\ bak' = [bak EXCEPT ![0] = Torn]
      /\ \/ on' = on /\ hash' = hash /\ guard' = guard /\ mem' = mem
         \/ on' = FALSE /\ hash' = Absent /\ guard' = FALSE /\ mem' = 0
  BY DEF CopyFails, CrashInCopy, program, history
<1>2. /\ 0 \in Slot /\ bak[0] = Absent /\ bak'[0] = Torn
      /\ \A i \in Slot : i # 0 => bak'[i] = bak[i]
      /\ bak' \in [Slot -> Content]
  BY <1>1, Contents DEF FilesInv, FilesType, SlotIsFree, Slot
<1>3. FilesType'
  <2>1. CASE on' = on /\ hash' = hash /\ guard' = guard /\ mem' = mem
    BY <1>1, <1>2, <2>1 DEF FilesInv, FilesType
  <2>2. CASE on' = FALSE /\ hash' = Absent /\ guard' = FALSE /\ mem' = 0
    BY <1>1, <1>2, <2>2 DEF FilesInv, FilesType
  <2> QED
    BY <1>1, <2>1, <2>2
<1>4. MemIsNewest' /\ NewestFirst'
  <2> DEFINE same == [i \in Slot |-> i]
  <2>1. same \in [Slot -> Slot] /\ \A i, j \in Slot : i < j => same[i] <= same[j]
    BY DEF Slot
  <2>2. \A i \in Slot : Trusted(bak'[i]) => bak'[i] = bak[same[i]]
    BY <1>2, Contents
  <2>3. mem <= stamps /\ on \in BOOLEAN /\ on /\ 0 <= stamps
    BY <1>1 DEF FilesInv, MemIsNewest, FilesType
  <2>4. mem' <= stamps /\ (mem' = mem \/ ~on') /\ on' \in BOOLEAN /\ (on' => on)
    BY <1>1, <2>3
  <2> HIDE DEF same
  <2> QED
    BY <1>1, <2>1, <2>2, <2>4, FewerCopies
<1>5. NothingNewerInFront'
  <2>1. CASE on' = on /\ guard' = guard
    BY <1>1, <1>2, <2>1, Contents DEF FilesInv, NothingNewerInFront, Trusted
  <2>2. CASE on' = FALSE
    BY <2>2 DEF NothingNewerInFront
  <2> QED
    BY <1>1, <2>1, <2>2
<1> QED
  BY <1>1, <1>2, <1>3, <1>4, <1>5 DEF FilesInv, SlotIsFree, HashTellsMain, MainIsLastSave

\* What is renamed over the main file is the state in memory.
LEMMA PersistKeeps ==
  ASSUME FilesInv, Persist
  PROVE  FilesInv'
<1>1. /\ main' = target /\ hash' = target /\ saved' = target
      /\ bak' = bak /\ on' = on /\ guard' = guard /\ mem' = mem
      /\ pc = "persist" /\ pc' = "idle" /\ slot' = slot /\ target' = target
      /\ overridden' = overridden /\ stamps' = stamps /\ damages' = damages
  BY DEF Persist
<1>2. /\ on /\ target = Good(mem) /\ mem \in Nat /\ target \in Content
      /\ Trusted(target) /\ target.stamp = mem /\ target # Newer
  BY <1>1, Contents DEF FilesInv, FilesType
<1>3. FilesType'
  BY <1>1, <1>2 DEF FilesInv, FilesType
<1>4. MemIsNewest' /\ NewestFirst'
  BY <1>1, <1>2 DEF FilesInv, MemIsNewest, NewestFirst, Trusted
<1> QED
  BY <1>1, <1>2, <1>3, <1>4
  DEF FilesInv, NothingNewerInFront, SlotIsFree, HashTellsMain, MainIsLastSave, Trusted

\* A damaged file, or a newer version's, is not one load() trusts.
LEMMA DamageKeeps ==
  ASSUME FilesInv, NEW kind \in Damages \cup {"newer"}, Damage(Bad(kind))
  PROVE  FilesInv'
<1>1. /\ ~on /\ on' = on /\ hash' = hash /\ guard' = guard /\ mem' = mem
      /\ pc' = pc /\ slot' = slot /\ target' = target /\ saved' = saved
      /\ overridden' = overridden /\ stamps' = stamps /\ damages' = damages + 1
  BY DEF Damage, program, saving
<1>2. /\ main' = main \/ main' = Bad(kind)
      /\ bak' = bak \/ \E i \in Slot : bak' = [bak EXCEPT ![i] = Bad(kind)]
  BY DEF Damage
<1>3. /\ Bad(kind) \in Content /\ ~Trusted(Bad(kind))
      /\ main \in Content /\ bak \in [Slot -> Content]
      /\ damages \in Nat /\ stamps \in Nat /\ mem <= stamps /\ pc = "idle" /\ hash = Absent
  BY <1>1, Contents DEF FilesInv, FilesType, MemIsNewest
<1>4. /\ main' \in Content /\ bak' \in [Slot -> Content]
      /\ main' = main \/ ~Trusted(main')
      /\ \A i \in Slot : Trusted(bak'[i]) => bak'[i] = bak[i]
  BY <1>2, <1>3 DEF Trusted
<1>5. FilesType'
  BY <1>1, <1>3, <1>4 DEF FilesInv, FilesType
<1>6. MemIsNewest' /\ NewestFirst'
  <2> DEFINE same == [i \in Slot |-> i]
  <2>1. same \in [Slot -> Slot] /\ \A i, j \in Slot : i < j => same[i] <= same[j]
    BY PersistenceAssumption DEF Slot
  <2>2. \A i \in Slot : Trusted(bak'[i]) => bak'[i] = bak[same[i]]
    BY <1>4
  <2>3. on' \in BOOLEAN /\ (on' => on)
    BY <1>1 DEF FilesInv, FilesType
  <2> HIDE DEF same
  <2> QED
    BY <1>1, <1>3, <1>4, <2>1, <2>2, <2>3, FewerCopies
<1> QED
  BY <1>1, <1>3, <1>5, <1>6
  DEF FilesInv, NothingNewerInFront, SlotIsFree, HashTellsMain, MainIsLastSave

-----------------------------------------------------------------------------
\* Every step keeps the files in order.
LEMMA Inductive == FilesInv /\ [Next]_vars => FilesInv'
<1> SUFFICES ASSUME FilesInv, [Next]_vars PROVE FilesInv'
  OBVIOUS
<1>1. CASE WriteTemp \/ SkipRotation \/ Fail \/ Override \/ AnHourPasses \/ UNCHANGED vars
  BY <1>1, QuietKeeps
<1>2. CASE Load
  BY <1>2, LoadKeeps
<1>3. CASE Change
  BY <1>3, ChangeKeeps
<1>4. CASE RemoveOldest
  BY <1>4, RemoveOldestKeeps
<1>5. CASE Shift
  BY <1>5, ShiftKeeps
<1>6. CASE Copy
  BY <1>6, CopyKeeps
<1>7. CASE CopyFails \/ CrashInCopy
  BY <1>7, TornCopyKeeps
<1>8. CASE Persist
  BY <1>8, PersistKeeps
<1>9. CASE Crash
  BY <1>9, CrashKeeps
<1>10. CASE \E kind \in Damages \cup {"newer"} : Damage(Bad(kind))
  BY <1>10, DamageKeeps
<1> QED
  BY <1>1, <1>2, <1>3, <1>4, <1>5, <1>6, <1>7, <1>8, <1>9, <1>10 DEF Next

\* The invariant holds throughout.
LEMMA Invariant == Spec => []FilesInv
  BY InitFiles, Inductive, PTL DEF Spec

\* However many backups are kept and wherever the saves break off, the intact
\* copies stay ordered by age: rotate_backups and load() agree on which copy
\* is the newest.
THEOREM BackupsAreOrdered == Spec => []NewestFirst
<1>1. FilesInv => NewestFirst
  BY DEF FilesInv
<1> QED
  BY <1>1, Invariant, PTL

\* What save() skips as unchanged is what the main file holds.
THEOREM SkippedIsOnDisk == Spec => []HashTellsMain
<1>1. FilesInv => HashTellsMain
  BY DEF FilesInv
<1> QED
  BY <1>1, Invariant, PTL

\* No crash and no failing call takes the last saved state out of the main
\* file.
THEOREM SavedStateStays == Spec => []MainIsLastSave
<1>1. FilesInv => MainIsLastSave
  BY DEF FilesInv
<1> QED
  BY <1>1, Invariant, PTL

\* A program that would recover from a newer version's file is guarded, and a
\* guarded program is not in the middle of a save.
THEOREM NewerVersionIsSafe == Spec => NewerDataIsLeftAlone
<1>1. ASSUME FilesInv, [Next]_vars, on, ~overridden, NewestIsNewer
      PROVE  UNCHANGED <<main, bak>>
  <2>1. guard
    BY <1>1, Contents DEF FilesInv, FilesType, NothingNewerInFront, NewestIsNewer, SlotsRead
  <2>2. pc = "idle"
    BY <2>1 , <1>1 DEF FilesInv, FilesType
  <2>3. CASE UNCHANGED vars
    BY <2>3 DEF vars, files
  <2>4. CASE Next
    BY <1>1, <2>1, <2>2, <2>4
    DEF Next, Load, Change, WriteTemp, SkipRotation, RemoveOldest, Shift, Copy, CopyFails,
        Persist, Fail, Override, Crash, CrashInCopy, AnHourPasses, Damage, files
  <2> QED
    BY <1>1, <2>3, <2>4
<1>2. FilesInv /\ [Next]_vars
        => [on /\ ~overridden /\ NewestIsNewer => UNCHANGED <<main, bak>>]_vars
  BY <1>1
<1> QED
  BY <1>2, Invariant, PTL DEF Spec, NewerDataIsLeftAlone

-----------------------------------------------------------------------------
(* Persistence implements DataFile.                                        *)

\* The slot load() takes when it cannot trust the main file.
IsFirst(k) == Trusted(bak[k]) /\ \A j \in Slot : j < k => ~Trusted(bak[j])

\* What load() finds: the main file, else the first intact backup, else nothing.
LoadFinds ==
    /\ StampAtLoad \in Nat
    /\ Trusted(main) => StampAtLoad = main.stamp
    /\ ~Trusted(main) =>
         \/ (\A i \in Slot : ~Trusted(bak[i])) /\ StampAtLoad = 0
         \/ \E k \in Slot : IsFirst(k)
    /\ ~Trusted(main) => \A k \in Slot : IsFirst(k) => StampAtLoad = bak[k].stamp

\* load() takes the first intact backup, and only one is the first.
LEMMA FirstIntactIsFound ==
  FilesInv => LoadFinds
<1> SUFFICES ASSUME FilesInv PROVE LoadFinds
  OBVIOUS
<1> DEFINE T == {i \in Slot : Trusted(bak[i])}
<1> USE PersistenceAssumption DEF Slot
<1>1. StampAtLoad \in Nat
  BY LoadedIsNewest
<1>2. Trusted(main) => StampAtLoad = main.stamp
  BY DEF StampAtLoad
<1>3. CASE ~Trusted(main) /\ T = {}
  <2>1. {0} \cup {content.stamp : content \in Recovered} = {0}
    BY <1>3 DEF Recovered, SlotsRead
  <2>2. StampAtLoad = 0
    BY <1>3, <2>1 DEF StampAtLoad, Max
  <2> QED
    BY <1>1, <1>3, <2>2 DEF LoadFinds, IsFirst
<1>4. CASE ~Trusted(main) /\ T # {}
  <2>1. PICK k \in T : \A j \in T : k <= j
    BY <1>4, First, T \subseteq Nat
  <2>2. Recovered = {bak[k]}
    BY <2>1 DEF Recovered, SlotsRead
  <2>3. bak[k].stamp \in Nat
    BY <2>1 DEF FilesInv, FilesType, Content
  <2>4. {0} \cup {content.stamp : content \in Recovered} = {0, bak[k].stamp}
    BY <2>2
  <2>5. Max({0, bak[k].stamp}) = bak[k].stamp
    BY <2>3 DEF Max
  <2>6. StampAtLoad = bak[k].stamp
    BY <1>4, <2>4, <2>5 DEF StampAtLoad
  <2>7. k \in Slot /\ IsFirst(k) /\ \A l \in Slot : IsFirst(l) => l = k
    BY <2>1 DEF IsFirst
  <2> QED
    BY <1>1, <1>4, <2>6, <2>7 DEF LoadFinds
<1> QED
  BY <1>1, <1>2, <1>3, <1>4 DEF LoadFinds

\* Backups are made of a main file: without one there is no intact copy.
NoOrphans == ~Exists(main) => \A i \in Slot : ~Trusted(bak[i])

\* No step makes a backup where there is no main file, and none removes it.
LEMMA OrphansKeep ==
  FilesInv /\ NoOrphans /\ [Next]_vars => NoOrphans'
<1> SUFFICES ASSUME FilesInv, NoOrphans, [Next]_vars, ~Exists(main') PROVE \A i \in Slot : ~Trusted(bak'[i])
  BY DEF NoOrphans, Exists, Trusted
<1> USE PersistenceAssumption
<1>1. ~Exists(main) => \A i \in Slot : ~Trusted(bak[i])
  BY DEF NoOrphans
<1>2. CASE main' = main /\ bak' = bak
  BY <1>1, <1>2 DEF Exists
<1>3. CASE RemoveOldest
  <2>1. main' = main /\ \A i \in Slot : bak'[i] = bak[i] \/ bak'[i] = Absent
    BY <1>3 DEF RemoveOldest, FilesInv, FilesType
  <2> QED
    BY <1>1, <2>1, Contents DEF Exists
<1>4. CASE Shift
  <2>1. main' = main /\ \A i \in Slot : bak'[i] \in {bak[i], Absent} \cup {bak[j] : j \in Slot}
    BY <1>4 DEF Shift, FilesInv, FilesType, Slot
  <2> QED
    BY <1>1, <2>1, Contents DEF Exists
<1>5. CASE Copy \/ CopyFails \/ CrashInCopy
  <2>1. main' = main /\ \A i \in Slot : bak'[i] \in {bak[i], main, Torn}
    BY <1>5 DEF Copy, CopyFails, CrashInCopy, FilesInv, FilesType, Slot
  <2> QED
    BY <1>1, <2>1, Contents DEF Exists
<1>6. CASE Persist
  <2>1. main' = target /\ target = Good(mem) /\ mem \in Nat
    BY <1>6 DEF Persist, FilesInv, FilesType
  <2> QED
    BY <2>1, Contents DEF Exists
<1>7. ASSUME NEW kind \in Damages \cup {"newer"}, Damage(Bad(kind)) PROVE \A i \in Slot : ~Trusted(bak'[i])
  <2>1. Bad(kind) # Absent /\ ~Trusted(Bad(kind))
    BY Contents, kind # "absent" DEF Absent, Bad
  <2>2. CASE main' = Bad(kind)
    BY <2>1, <2>2 DEF Exists
  <2>3. CASE main' = main /\ \E i \in Slot : bak' = [bak EXCEPT ![i] = Bad(kind)]
    <3>1. \A i \in Slot : bak'[i] \in {bak[i], Bad(kind)}
      BY <2>3 DEF FilesInv, FilesType
    <3> QED
      BY <1>1, <2>1, <2>3, <3>1 DEF Exists
  <2> QED
    BY <1>7, <2>2, <2>3 DEF Damage
<1>8. CASE Load \/ Change \/ WriteTemp \/ SkipRotation \/ Fail \/ Override \/ Crash \/ AnHourPasses
           \/ UNCHANGED vars
  <2>1. main' = main /\ bak' = bak
    BY <1>8 DEF Load, Change, WriteTemp, SkipRotation, Fail, Override, Crash, AnHourPasses, vars, files
  <2> QED
    BY <1>2, <2>1
<1> QED
  BY <1>3, <1>4, <1>5, <1>6, <1>7, <1>8 DEF Next

\* What load() finds is decided by the main file, or by the first intact backup:
\* it stays the same when that one only moves behind slots without one.
LEMMA SameIsFound ==
  ASSUME LoadFinds, LoadFinds', main' = main,
         \/ Trusted(main)
         \/ \A i \in Slot : ~Trusted(bak[i]) /\ ~Trusted(bak'[i])
         \/ \E k, l \in Slot : IsFirst(k) /\ IsFirst(l)' /\ bak'[l] = bak[k]
  PROVE  StampAtLoad' = StampAtLoad
<1>1. CASE Trusted(main)
  BY <1>1 DEF LoadFinds, Trusted
<1>2. CASE ~Trusted(main) /\ \A i \in Slot : ~Trusted(bak[i]) /\ ~Trusted(bak'[i])
  BY <1>2 DEF LoadFinds, Trusted, IsFirst
<1>3. CASE ~Trusted(main) /\ \E k, l \in Slot : IsFirst(k) /\ IsFirst(l)' /\ bak'[l] = bak[k]
  <2>1. PICK k \in Slot, l \in Slot : IsFirst(k) /\ IsFirst(l)' /\ bak'[l] = bak[k]
    BY <1>3
  <2>2. StampAtLoad = bak[k].stamp /\ StampAtLoad' = bak'[l].stamp
    BY <1>3, <2>1 DEF LoadFinds, Trusted
  <2> QED
    BY <2>1, <2>2
<1> QED
  BY <1>1, <1>2, <1>3

\* The steps of rotate_backups but the first leave what a start would find.
LEMMA RotationKeepsIt ==
  ASSUME FilesInv, LoadFinds, LoadFinds', Shift \/ Copy \/ CopyFails \/ CrashInCopy
  PROVE  StampAtLoad' = StampAtLoad
<1> USE PersistenceAssumption DEF Slot
<1>1. main' = main /\ pc = "shift" /\ bak[slot] = Absent /\ slot \in Slot
      /\ bak \in [Slot -> Content]
  BY DEF Shift, Copy, CopyFails, CrashInCopy, FilesInv, FilesType, SlotIsFree
<1>2. CASE ~Trusted(main) /\ (Copy \/ CopyFails \/ CrashInCopy)
  <2>1. slot = 0 /\ ~Trusted(bak'[0]) /\ \A i \in Slot : i # 0 => bak'[i] = bak[i]
    BY <1>1, <1>2, Contents DEF Copy, CopyFails, CrashInCopy
  <2>2. \A i \in Slot : (Trusted(bak'[i]) <=> Trusted(bak[i])) /\ (Trusted(bak[i]) => bak'[i] = bak[i])
    BY <1>1, <2>1, Contents
  <2>3. \A k \in Slot : IsFirst(k) => IsFirst(k)' /\ bak'[k] = bak[k]
    BY <2>2 DEF IsFirst, Trusted
  <2> QED
    BY <1>1, <1>2, <2>2, <2>3, SameIsFound DEF LoadFinds
<1>3. CASE ~Trusted(main) /\ Shift
  <2>1. /\ slot > 0 /\ slot - 1 \in Slot
        /\ bak'[slot] = bak[slot - 1] /\ bak'[slot - 1] = Absent
        /\ \A i \in Slot : i # slot /\ i # slot - 1 => bak'[i] = bak[i]
    <3>1. slot > 0 /\ slot - 1 \in Slot
      BY <1>1, <1>3 DEF Shift
    <3>2. CASE Exists(bak[slot - 1])
      BY <1>1, <1>3, <3>1, <3>2 DEF Shift
    <3>3. CASE ~Exists(bak[slot - 1])
      BY <1>1, <1>3, <3>1, <3>3 DEF Shift, Exists
    <3> QED
      BY <3>1, <3>2, <3>3
  <2>2. CASE \A i \in Slot : ~Trusted(bak[i])
    <3>1. \A i \in Slot : ~Trusted(bak'[i])
      BY <2>1, <2>2, Contents
    <3> QED
      BY <1>1, <2>2, <3>1, SameIsFound
  <2>3. ASSUME NEW k \in Slot, IsFirst(k)
        PROVE  \E l \in Slot : IsFirst(l)' /\ bak'[l] = bak[k]
    <3>1. k # slot
      BY <1>1, <2>3, Contents DEF IsFirst
    <3>2. CASE k = slot - 1
      <4>1. PICK l \in Slot : l = slot
        BY <1>1
      <4>2. IsFirst(l)'
        BY <1>1, <2>1, <2>3, <3>2, <4>1, Contents DEF IsFirst, Trusted
      <4> QED
        BY <1>1, <2>1, <3>2, <4>1, <4>2
    <3>3. CASE k < slot - 1
      <4>1. bak'[k] = bak[k] /\ \A j \in Slot : j < k => bak'[j] = bak[j]
        BY <2>1, <3>3
      <4>2. IsFirst(k)'
        BY <2>3, <4>1 DEF IsFirst, Trusted
      <4> QED
        BY <4>1, <4>2
    <3>4. CASE k > slot
      <4>1. bak'[k] = bak[k]
        BY <2>1, <3>4, <1>1
      <4>2. \A j \in Slot : j < k => ~Trusted(bak'[j])
        BY <1>1, <2>1, <2>3, <3>4, Contents DEF IsFirst
      <4>3. IsFirst(k)'
        BY <2>3, <4>1, <4>2 DEF IsFirst, Trusted
      <4> QED
        BY <4>1, <4>3
    <3> QED
      BY <3>1, <3>2, <3>3, <3>4, <1>1
  <2> QED
    BY <1>1, <1>3, <2>2, <2>3, SameIsFound DEF LoadFinds
<1> QED
  BY <1>1, <1>2, <1>3, SameIsFound

\* Making room in the last slot takes nothing else: a start finds the same, or
\* nothing if that slot had the only copy.
LEMMA RemovalKeepsItOrLoses ==
  ASSUME FilesInv, LoadFinds, LoadFinds', RemoveOldest
  PROVE  StampAtLoad' = StampAtLoad \/ (~Trusted(main) /\ StampAtLoad' = 0)
<1> USE PersistenceAssumption DEF Slot
<1>1. /\ main' = main /\ Slots - 1 \in Slot
      /\ ~Trusted(bak'[Slots - 1])
      /\ \A i \in Slot : i # Slots - 1 => bak'[i] = bak[i]
  BY Contents DEF RemoveOldest, FilesInv, FilesType
<1>2. CASE ~Trusted(main) /\ \A i \in Slot : ~Trusted(bak'[i])
  BY <1>1, <1>2 DEF LoadFinds, IsFirst, Trusted
<1>3. CASE ~Trusted(main) /\ \E i \in Slot : Trusted(bak'[i])
  <2>1. PICK k \in Slot : IsFirst(k)'
    BY <1>1, <1>3 DEF LoadFinds, Trusted
  <2>2. k # Slots - 1 /\ bak'[k] = bak[k] /\ \A j \in Slot : j < k => j # Slots - 1
    BY <1>1, <2>1 DEF IsFirst, Trusted
  <2>3. IsFirst(k)
    BY <1>1, <2>1, <2>2 DEF IsFirst, Trusted
  <2> QED
    BY <1>1, <2>1, <2>2, <2>3, SameIsFound
<1> QED
  BY <1>1, <1>2, <1>3, SameIsFound

\* Damage makes a start find the same or something older, and something older
\* only once the main file is damaged.
LEMMA DamageCostsTheNewest ==
  ASSUME FilesInv, NoOrphans, LoadFinds, LoadFinds',
         NEW kind \in Damages \cup {"newer"}, Damage(Bad(kind))
  PROVE  Durable!Damage
<1> USE PersistenceAssumption
<1>1. /\ ~on /\ on' = on /\ mem' = mem
      /\ Bad(kind) # Absent /\ ~Trusted(Bad(kind))
  BY Contents, kind # "absent" DEF Damage, program, Absent, Bad
<1>2. \A i \in Slot : bak[i].stamp \in Nat
  BY DEF FilesInv, FilesType, Content
<1>3. CASE Exists(main) /\ main' = Bad(kind) /\ bak' = bak
  <2>1. ~Trusted(main') /\ Exists(main')
    BY <1>1, <1>3 DEF Exists
  <2>2. StampAtLoad' <= StampAtLoad
    <3>1. CASE \A i \in Slot : ~Trusted(bak[i])
      <4>1. StampAtLoad' = 0
        BY <1>3, <2>1, <3>1 DEF LoadFinds, IsFirst, Trusted
      <4> QED
        BY <4>1 DEF LoadFinds
    <3>2. CASE \E i \in Slot : Trusted(bak[i])
      <4>1. PICK k \in Slot : IsFirst(k)'
        BY <1>3, <2>1, <3>2 DEF LoadFinds, Trusted
      <4>2. StampAtLoad' = bak[k].stamp /\ Trusted(bak[k]) /\ IsFirst(k)
        BY <1>3, <2>1, <4>1 DEF LoadFinds, IsFirst, Trusted
      <4>3. bak[k].stamp <= StampAtLoad
        BY <4>2, LoadedIsNewest
      <4> QED
        BY <4>2, <4>3
    <3> QED
      BY <3>1, <3>2
  <2>3. (Exists(main) /\ ~Trusted(main))'
    BY <2>1 DEF Trusted, Exists
  <2> QED
    BY <1>1, <2>2, <2>3 DEF Durable!Damage
<1>4. CASE main' = main /\ \E i \in Slot : Exists(bak[i]) /\ bak' = [bak EXCEPT ![i] = Bad(kind)]
  <2>1. \A i \in Slot : Trusted(bak'[i]) => bak'[i] = bak[i] /\ Trusted(bak[i])
    BY <1>1, <1>4 DEF FilesInv, FilesType, Trusted
  <2>2. StampAtLoad' <= StampAtLoad
    <3>1. CASE Trusted(main)
      BY <1>4, <3>1, SameIsFound DEF LoadFinds
    <3>2. CASE ~Trusted(main) /\ \A i \in Slot : ~Trusted(bak'[i])
      <4>1. StampAtLoad' = 0
        BY <1>4, <3>2 DEF LoadFinds, IsFirst, Trusted
      <4> QED
        BY <4>1 DEF LoadFinds
    <3>3. CASE ~Trusted(main) /\ \E i \in Slot : Trusted(bak'[i])
      <4>1. PICK k \in Slot : IsFirst(k)'
        BY <1>4, <3>3 DEF LoadFinds, Trusted
      <4>2. StampAtLoad' = bak'[k].stamp /\ Trusted(bak'[k])
        BY <1>4, <3>3, <4>1 DEF LoadFinds, IsFirst, Trusted
      <4>3. bak'[k].stamp <= StampAtLoad
        BY <2>1, <4>2, LoadedIsNewest
      <4> QED
        BY <4>2, <4>3
    <3> QED
      BY <3>1, <3>2, <3>3
  <2>3. StampAtLoad' # StampAtLoad => Exists(main) /\ ~Trusted(main)
    <3>1. CASE Trusted(main)
      BY <1>4, <3>1, SameIsFound
    <3>2. CASE ~Exists(main)
      BY <1>4, <2>1, <3>2, SameIsFound DEF NoOrphans
    <3> QED
      BY <3>1, <3>2
  <2>4. (Exists(main) /\ ~Trusted(main))' <=> (Exists(main) /\ ~Trusted(main))
    BY <1>4 DEF Exists, Trusted
  <2> QED
    BY <1>1, <2>2, <2>3, <2>4 DEF Durable!Damage
<1> QED
  BY <1>3, <1>4 DEF Damage

\* Every step of Persistence is one of DataFile or changes nothing of it.
LEMMA StepOfDataFile ==
  FilesInv /\ NoOrphans /\ LoadFinds /\ LoadFinds' /\ [Next]_vars
    => [Durable!Next]_(Durable!vars)
<1> SUFFICES ASSUME FilesInv, NoOrphans, LoadFinds, LoadFinds', [Next]_vars
             PROVE  Durable!Next \/ UNCHANGED Durable!vars
  OBVIOUS
<1> DEFINE exposed == Exists(main) /\ ~Trusted(main)
<1>1. ASSUME main' = main PROVE exposed' <=> exposed
  BY <1>1 DEF Exists, Trusted
<1>2. ASSUME main' = main, bak' = bak PROVE StampAtLoad' = StampAtLoad
  <2>1. ~Trusted(main) => \/ \A i \in Slot : ~Trusted(bak[i])
                          \/ \E k \in Slot : IsFirst(k)
    BY DEF LoadFinds
  <2>2. \A k \in Slot : IsFirst(k) => IsFirst(k)' /\ bak'[k] = bak[k]
    BY <1>2 DEF IsFirst, Trusted
  <2>3. (\A i \in Slot : ~Trusted(bak[i])) => \A i \in Slot : ~Trusted(bak'[i])
    BY <1>2
  <2> QED
    BY <1>2, <2>1, <2>2, <2>3, SameIsFound
<1>3. ASSUME main' = main, StampAtLoad' = StampAtLoad, on' = on, mem' = mem
      PROVE  UNCHANGED Durable!vars
  BY <1>1, <1>3, Zenon DEF Durable!vars
<1>4. CASE Load
  <2>1. main' = main /\ bak' = bak /\ ~on /\ on' = TRUE /\ mem' = StampAtLoad
    BY <1>4 DEF Load, files
  <2> QED
    BY <1>1, <1>2, <2>1 DEF Durable!Next, Durable!Start
<1>5. CASE Change
  <2>1. main' = main /\ bak' = bak /\ on /\ on' = on /\ mem' = stamps + 1
    BY <1>5 DEF Change, files
  <2>2. stamps \in Nat /\ mem \in Nat /\ mem <= stamps /\ StampAtLoad \in Nat /\ StampAtLoad <= stamps
    BY LoadedIsNewest DEF FilesInv, FilesType, MemIsNewest
  <2>3. mem' > mem /\ mem' > StampAtLoad
    BY <2>1, <2>2
  <2> QED
    BY <1>1, <1>2, <2>1, <2>3 DEF Durable!Next, Durable!Change
<1>6. CASE WriteTemp \/ SkipRotation \/ Fail \/ Override \/ AnHourPasses \/ UNCHANGED vars
  <2>1. main' = main /\ bak' = bak /\ on' = on /\ mem' = mem
    BY <1>6 DEF WriteTemp, SkipRotation, Fail, Override, AnHourPasses, vars, files, program
  <2> QED
    BY <1>2, <1>3, <2>1
<1>7. CASE RemoveOldest
  <2>1. main' = main /\ on' = on /\ mem' = mem /\ on /\ Exists(main)
    BY <1>7 DEF RemoveOldest, RotationDue, program, FilesInv, FilesType
  <2>2. CASE StampAtLoad' = StampAtLoad
    BY <1>3, <2>1, <2>2
  <2>3. CASE ~Trusted(main) /\ StampAtLoad' = 0
    BY <1>1, <2>1, <2>3 DEF Durable!Next, Durable!Lose
  <2> QED
    BY <1>7, <2>2, <2>3, RemovalKeepsItOrLoses
<1>8. CASE Shift \/ Copy \/ CopyFails
  <2>1. main' = main /\ on' = on /\ mem' = mem
    BY <1>8 DEF Shift, Copy, CopyFails, program
  <2> QED
    BY <1>3, <1>8, <2>1, RotationKeepsIt
<1>9. CASE CrashInCopy
  <2>1. main' = main /\ on /\ on' = FALSE /\ mem' = 0 /\ StampAtLoad' = StampAtLoad
    BY <1>9, RotationKeepsIt DEF CrashInCopy
  <2> QED
    BY <1>1, <2>1 DEF Durable!Next, Durable!Crash
<1>10. CASE Crash
  <2>1. main' = main /\ bak' = bak /\ on /\ on' = FALSE /\ mem' = 0
    BY <1>10 DEF Crash, files
  <2> QED
    BY <1>1, <1>2, <2>1 DEF Durable!Next, Durable!Crash
<1>11. CASE Persist
  <2>1. main' = Good(mem) /\ on /\ on' = on /\ mem' = mem /\ mem \in Nat
    BY <1>11 DEF Persist, FilesInv, FilesType
  <2>2. Trusted(main') /\ main'.stamp = mem
    BY <2>1, Contents
  <2>3. StampAtLoad' = mem /\ ~exposed'
    BY <2>2 DEF LoadFinds, Trusted
  <2> QED
    BY <2>1, <2>3 DEF Durable!Next, Durable!Save
<1>12. CASE \E kind \in Damages \cup {"newer"} : Damage(Bad(kind))
  BY <1>12, DamageCostsTheNewest DEF Durable!Next
<1> QED
  BY <1>4, <1>5, <1>6, <1>7, <1>8, <1>9, <1>10, <1>11, <1>12 DEF Next

\* Whatever crashes or fails in a save, a start finds what the last successful
\* save wrote; what the disk damages costs the newest states first; and nothing
\* else is lost unless a save fails while the main file is damaged.  For any
\* number of backups, states and damages.
THEOREM DataFileIsImplemented == Spec => StartsFindTheLastSave
<1>1. Init => Durable!Init /\ NoOrphans
  <2> SUFFICES ASSUME Init PROVE Durable!Init /\ NoOrphans
    OBVIOUS
  <2>1. main = Absent /\ (\A i \in Slot : bak[i] = Absent) /\ ~Trusted(Absent)
    BY Contents DEF Init
  <2>2. NoOrphans /\ ~(Exists(main) /\ ~Trusted(main))
    BY <2>1 DEF NoOrphans, Exists
  <2>3. StampAtLoad = 0
    BY <2>1, InitFiles, FirstIntactIsFound DEF LoadFinds, IsFirst
  <2>4. on = FALSE /\ mem = 0
    BY DEF Init
  <2> QED
    BY <2>2, <2>3, <2>4 DEF Durable!Init
<1>2. Spec => []NoOrphans
  BY <1>1, Invariant, OrphansKeep, PTL DEF Spec
<1>3. Spec => []LoadFinds
  BY Invariant, FirstIntactIsFound, PTL
<1> QED
  BY <1>1, <1>2, <1>3, Invariant, StepOfDataFile, PTL
  DEF Spec, StartsFindTheLastSave, Durable!Spec
=============================================================================
