---------------------------- MODULE MineDropPlan ----------------------------
(***************************************************************************)
(* MineDropPlan/MineDropPlanManager.cpp: the mine dropping plan lists, kept*)
(* in one file each and served from a cache.  One thread at a time uses it:*)
(* the main thread initialises it, after that only the DDS thread calls it.*)
(* Every operation of the class is an action, those no message reaches too;*)
(* the process may crash between any two accesses to the disk, and restart.*)
(***************************************************************************)
EXTENDS Naturals, Sequences, FiniteSets, SequencesExt

CONSTANTS
    Lists,         \* plan list numbers, 1..MAX_PLAN_LISTS in the code
    Plans,         \* the plans that are added, updated or sent
    Outlines,      \* of a plan: first character of its text, latitudes, longitudes
    Details,       \* of a plan: waypoints, depths, the rest of its text
    Invalid,       \* outlines and details with a position out of range
    MaxPlans,      \* MAX_PLANS_PER_LIST
    EditedLists,   \* the lists an operator sends, checked by nobody before
    Faults,        \* faults of the file system: "open", "copy", "full", "remove"
    Absent,        \* no file, no cache entry
    Garbled        \* a file that is cut off

ASSUME PlansAssumption ==
    /\ Plans \subseteq [planNumber : Nat, sListID : Nat, outline : Outlines, detail : Details]
    /\ EditedLists \subseteq Seq(Plans)
ASSUME MarksAssumption == {Absent, Garbled} \cap Seq(Plans) = {} /\ Absent # Garbled
ASSUME MaxPlansAssumption == MaxPlans \in Nat

\* A plan has two numbers.  ValidatePlan, GetPlan and the file go by sListID, and
\* UpdatePlan, AddPlan and RemovePlan by planNumber.
Numbers == {p.planNumber : p \in Plans}
Numbered(ps, n) == {i \in DOMAIN ps : ps[i].planNumber = n}
Distinct(ps) == \A i, j \in DOMAIN ps : ps[i].planNumber = ps[j].planNumber => i = j

\* WriteJsonToFile writes the outline of a plan and one of its numbers.
WrittenPlan == [sListID : Nat, outline : Outlines]
Written(ps) ==
    [i \in DOMAIN ps |-> [sListID |-> ps[i].sListID, outline |-> ps[i].outline]]

VARIABLES
    disk,          \* the file of each list
    backup,        \* the files in the backup directory
    backedUp,      \* the backup directory exists
    cache,         \* m_cachedPlans
    step,          \* where the calling thread is
    pending,       \* the lists that Initialize has still to load or create
    list, plans,   \* the list it saves or deletes, and what it saves
    lost           \* history: lists whose file went wrong since they were stored or loaded

files == <<disk, backup, backedUp>>
saving == <<list, plans>>
vars == <<files, cache, step, pending, saving, lost>>

NoFiles == [l \in Lists |-> Absent]
Files == [Lists -> Seq(WrittenPlan) \cup {Absent, Garbled}]

TypeOK ==
    /\ disk \in Files /\ backup \in Files
    /\ backedUp \in BOOLEAN /\ (~backedUp => backup = NoFiles)
    /\ cache \in [Lists -> Seq(Plans) \cup {Absent}]
    /\ step \in {"down", "initialize", "idle", "open", "write", "store", "erase", "copy",
                "reload"}
    /\ pending \in SUBSET Lists
    /\ (step = "initialize" => pending # {})
    /\ (pending # {} => step \in {"initialize", "open", "write", "store"} /\ plans = <<>>)
    /\ (step = "down" => cache = NoFiles)
    /\ (step = "write" => disk[list] = Garbled)
    /\ list \in Lists /\ plans \in Seq(Plans)
    /\ lost \in SUBSET Lists

\* Files of an earlier run may be there.
Init ==
    /\ disk \in [Lists -> {Absent, <<>>}]
    /\ backup = NoFiles /\ backedUp = FALSE
    /\ cache = NoFiles
    /\ step = "down" /\ pending = {}
    /\ list \in Lists /\ plans = <<>> /\ lost = {}

\* A file need not open: a restore that failed may have left no directory either.
MayNotOpen == Faults \cap {"open", "copy", "remove"} # {}

\* The lists whose file cannot be opened this time.
Unopened == SUBSET (IF MayNotOpen THEN Lists ELSE {})

\* Where the thread is when a list is saved or loaded: Initialize goes on with the
\* next one.
Back(left) == IF left = {} THEN "idle" ELSE "initialize"
----------------------------------------------------------------------------
\* ReadJsonFromFile opens the file, and never reads it.
ReadJsonFromFile(file) == <<>>

\* The cache entry that LoadPlanList leaves where its file can be opened.
Loaded(l) == IF disk[l] = Absent THEN Absent ELSE ReadJsonFromFile(disk[l])

Initialize ==
    /\ step = "down"
    /\ step' = "initialize" /\ pending' = Lists
    /\ UNCHANGED <<files, cache, saving, lost>>

\* The lists are loaded one after another, in whatever order ...
InitialLoad(l) ==
    /\ step = "initialize" /\ l \in pending /\ disk[l] # Absent
    /\ cache' = [cache EXCEPT ![l] = Loaded(l)] /\ lost' = lost \ {l}
    /\ pending' = pending \ {l} /\ step' = Back(pending')
    /\ UNCHANGED <<files, saving>>

\* ... or, where that fails, created: an empty one is saved.
InitialCreate(l) ==
    /\ step = "initialize" /\ l \in pending /\ (disk[l] = Absent \/ MayNotOpen)
    /\ list' = l /\ plans' = <<>> /\ step' = "open"
    /\ pending' = pending \ {l}
    /\ UNCHANGED <<files, cache, lost>>

GetPlanList(l) == IF cache[l] = Absent THEN <<>> ELSE cache[l]

ValidatePlan(p) == p.sListID # 0 /\ {p.outline, p.detail} \cap Invalid = {}

\* Faulty variant of SavePlanList: "<= MAX_PLANS_PER_LIST + 1".
SaveOneTooMany(l, ps) ==
    /\ step = "idle"
    /\ Len(ps) <= MaxPlans + 1 /\ \A i \in DOMAIN ps : ValidatePlan(ps[i])
    /\ list' = l /\ plans' = ps /\ step' = "open"
    /\ UNCHANGED <<files, cache, pending, lost>>

\* SavePlanList goes on to write the file, or refuses and changes nothing.
SavePlanList(l, ps) ==
    /\ step = "idle"
    /\ Len(ps) <= MaxPlans /\ \A i \in DOMAIN ps : ValidatePlan(ps[i])
    /\ list' = l /\ plans' = ps /\ step' = "open"
    /\ UNCHANGED <<files, cache, pending, lost>>

\* Faulty variant of OpenFile: the file is opened for appending.
OpenFileToAppend ==
    /\ step = "open"
    /\ \/ step' = "write" /\ UNCHANGED plans
       \/ MayNotOpen /\ step' = Back(pending) /\ plans' = <<>>
    /\ UNCHANGED <<files, cache, pending, list, lost>>

\* Faulty variant of OpenFile: a file that does not open is not noticed.
OpenFileUnchecked ==
    /\ step = "open"
    /\ \/ disk' = [disk EXCEPT ![list] = Garbled] /\ step' = "write"
       \/ MayNotOpen /\ step' = "store" /\ UNCHANGED disk
    /\ UNCHANGED <<backup, backedUp, cache, pending, saving, lost>>

\* WriteJsonToFile: opening truncates the file ...
OpenFile ==
    /\ step = "open"
    /\ \/ /\ disk' = [disk EXCEPT ![list] = Garbled]
          /\ step' = "write" /\ UNCHANGED plans
       \/ /\ MayNotOpen
          /\ step' = Back(pending) /\ plans' = <<>> /\ UNCHANGED disk
    /\ UNCHANGED <<backup, backedUp, cache, pending, list, lost>>

\* ... and what is written may not fit: the state of the stream is not checked.
WriteFile ==
    /\ step = "write"
    /\ \/ disk' = [disk EXCEPT ![list] = Written(plans)] /\ lost' = lost \ {list}
       \/ /\ "full" \in Faults
          /\ disk' = [disk EXCEPT ![list] = Garbled] /\ lost' = lost \cup {list}
    /\ step' = "store"
    /\ UNCHANGED <<backup, backedUp, cache, pending, saving>>

StoreInCache ==
    /\ step = "store"
    /\ cache' = [cache EXCEPT ![list] = plans]
    /\ step' = Back(pending) /\ plans' = <<>>
    /\ UNCHANGED <<files, pending, list, lost>>
----------------------------------------------------------------------------
(* The operations that change a list *)

UpdateFromEditedPlanList(l) == \E ps \in EditedLists : SavePlanList(l, ps)

CreateNewPlanList(l) == SavePlanList(l, <<>>)

UpdatePlan(l, p) ==
    /\ ValidatePlan(p)
    /\ LET ps == GetPlanList(l)
           same == Numbered(ps, p.planNumber)
       IN SavePlanList(l, IF same = {} THEN Append(ps, p)
                          ELSE [ps EXCEPT ![CHOOSE i \in same : \A j \in same : i <= j] = p])

\* Faulty variant of AddPlan: the number may be in use.
AddPlanTwice(l, p) ==
    /\ ValidatePlan(p)
    /\ Len(GetPlanList(l)) < MaxPlans
    /\ SavePlanList(l, Append(GetPlanList(l), p))

AddPlan(l, p) ==
    /\ ValidatePlan(p)
    /\ Len(GetPlanList(l)) < MaxPlans
    /\ Numbered(GetPlanList(l), p.planNumber) = {}
    /\ SavePlanList(l, Append(GetPlanList(l), p))

RemovePlan(l, n) ==
    LET same == Numbered(GetPlanList(l), n)
    IN /\ same # {}
       /\ SavePlanList(l, RemoveAt(GetPlanList(l), CHOOSE i \in same : \A j \in same : i <= j))

LoadPlanList(l) ==
    /\ step = "idle" /\ disk[l] # Absent
    /\ cache' = [cache EXCEPT ![l] = Loaded(l)] /\ lost' = lost \ {l}
    /\ UNCHANGED <<files, step, pending, saving>>

\* DeletePlanList removes the file, or cannot and changes nothing ...
DeletePlanList(l) ==
    /\ step = "idle"
    /\ disk' = [disk EXCEPT ![l] = Absent]
    /\ list' = l /\ step' = "erase"
    /\ UNCHANGED <<backup, backedUp, cache, pending, plans, lost>>

\* ... then the cache entry.
EraseFromCache ==
    /\ step = "erase"
    /\ cache' = [cache EXCEPT ![list] = Absent] /\ lost' = lost \ {list}
    /\ step' = "idle"
    /\ UNCHANGED <<files, pending, saving>>

\* The copy ends at the first file that is in the backup already.
BackupPlanData ==
    /\ step = "idle"
    /\ LET new == {l \in Lists : disk[l] # Absent /\ backup[l] = Absent}
           clash == \E l \in Lists : disk[l] # Absent /\ backup[l] # Absent
       IN \E copied \in (IF clash \/ "copy" \in Faults THEN SUBSET new ELSE {new}) :
            backup' = [l \in Lists |-> IF l \in copied THEN disk[l] ELSE backup[l]]
    /\ backedUp' = TRUE
    /\ UNCHANGED <<disk, cache, step, pending, saving, lost>>

\* RestorePlanData: everything is removed, or only some of it and the call fails with
\* the cache as it was ...
RestorePlanData ==
    /\ step = "idle" /\ backedUp
    /\ \/ disk' = NoFiles /\ step' = "copy" /\ UNCHANGED lost
       \/ /\ "remove" \in Faults
          /\ \E gone \in SUBSET Lists :
               /\ disk' = [l \in Lists |-> IF l \in gone THEN Absent ELSE disk[l]]
               /\ lost' = lost \cup gone
          /\ step' = "idle"
    /\ UNCHANGED <<backup, backedUp, cache, pending, saving>>

\* ... before the backup is copied; where that fails the cache is left as it was too.
CopyBackup ==
    /\ step = "copy"
    /\ \E copied \in (IF "copy" \in Faults THEN SUBSET Lists ELSE {Lists}) :
         /\ disk' = [l \in Lists |-> IF l \in copied THEN backup[l] ELSE Absent]
         /\ IF copied = Lists THEN step' = "reload" /\ UNCHANGED lost
                              ELSE step' = "idle" /\ lost' = Lists
    /\ UNCHANGED <<backup, backedUp, cache, pending, saving>>

\* The cache is cleared and every list loaded.
ReloadAll ==
    /\ step = "reload"
    /\ \E unread \in Unopened :
         cache' = [l \in Lists |-> IF l \in unread THEN Absent ELSE Loaded(l)]
    /\ step' = "idle" /\ lost' = {}
    /\ UNCHANGED <<files, pending, saving>>

\* The process ends, in the middle of whatever it does.
Crash ==
    /\ step # "down"
    /\ cache' = NoFiles
    /\ step' = "down" /\ pending' = {} /\ plans' = <<>> /\ lost' = {}
    /\ UNCHANGED <<files, list>>

Next ==
    \/ \E l \in Lists :
         \/ UpdateFromEditedPlanList(l) \/ CreateNewPlanList(l)
         \/ \E p \in Plans : UpdatePlan(l, p) \/ AddPlan(l, p)
         \/ \E n \in Numbers : RemovePlan(l, n)
         \/ LoadPlanList(l) \/ DeletePlanList(l)
         \/ InitialLoad(l) \/ InitialCreate(l)
    \/ Initialize \/ OpenFile \/ WriteFile \/ StoreInCache \/ EraseFromCache
    \/ BackupPlanData \/ RestorePlanData \/ CopyBackup \/ ReloadAll
    \/ Crash

Spec == Init /\ [][Next]_vars
----------------------------------------------------------------------------
(* Properties *)

\* Whatever is edited, added, restored or reloaded, a list that is served is
\* within MAX_PLANS_PER_LIST and holds validated plans only: every way into the
\* cache goes through SavePlanList or starts empty.
ServedIsValid ==
    \A l \in Lists : Len(GetPlanList(l)) <= MaxPlans
                     /\ \A i \in DOMAIN GetPlanList(l) : ValidatePlan(GetPlanList(l)[i])

\* A save brings two plans of one number into a list that had none only where an
\* operator sent them, which UpdateFromEditedPlanList lets pass: AddPlan, UpdatePlan
\* and RemovePlan, which build the list they save from the one that is served, never
\* do, nor does what was loaded or restored.
OnlyEditsDuplicate ==
    [][step = "idle" /\ step' = "open" /\ Distinct(GetPlanList(list')) =>
            Distinct(plans') \/ plans' \in EditedLists]_vars

\* Between two calls what the file of a served list holds is what was written of that
\* list, wherever the process crashed and whichever file did not open: the file is
\* written before the cache, and the cache is dropped with the process.  Only a disk
\* that was full when the list was saved, which nothing notices, and a restore that
\* failed, which the caller is told and the cache is not, leave it otherwise.
ServedIsStored ==
    step \in {"initialize", "idle"} =>
        \A l \in Lists \ lost : GetPlanList(l) # <<>> => disk[l] = Written(cache[l])
=============================================================================
