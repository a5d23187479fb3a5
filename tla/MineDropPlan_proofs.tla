------------------------- MODULE MineDropPlan_proofs -------------------------
(***************************************************************************)
(* Proofs about module MineDropPlan, for any number of lists and any limit *)
(* of their length, whatever lists are sent, with crashes and with every   *)
(* fault of the files.                                                     *)
(***************************************************************************)
EXTENDS MineDropPlan, SequenceLemmas, WellFoundedInduction

----------------------------------------------------------------------------
(* Plan lists *)

LEMMA PlanFields ==
    ASSUME NEW p \in Plans
    PROVE  p.planNumber \in Numbers /\ p.sListID \in Nat /\ p.outline \in Outlines
BY PlansAssumption DEF Numbers

\* A list that may be saved.
Sound(ps) ==
    /\ ps \in Seq(Plans)
    /\ Len(ps) <= MaxPlans /\ \A i \in DOMAIN ps : ValidatePlan(ps[i])

LEMMA EmptySound == Sound(<<>>) /\ Distinct(<<>>)
<1>1. <<>> \in Seq(Plans) /\ Len(<<>>) = 0 /\ DOMAIN <<>> = {}
  BY EmptySeq
<1> QED BY <1>1, MaxPlansAssumption DEF Sound, Distinct

\* What is written of a list.
LEMMA WrittenTyped ==
    ASSUME NEW ps \in Seq(Plans)
    PROVE  Written(ps) \in Seq(WrittenPlan)
<1>1. Len(ps) \in Nat /\ DOMAIN ps = 1..Len(ps) /\ \A i \in 1..Len(ps) : ps[i] \in Plans
  BY LenProperties, ElementOfSeq
<1>2. \A i \in 1..Len(ps) :
         [sListID |-> ps[i].sListID, outline |-> ps[i].outline] \in WrittenPlan
  BY <1>1, PlanFields DEF WrittenPlan
<1>3. Written(ps) \in [1..Len(ps) -> WrittenPlan]
  BY <1>1, <1>2 DEF Written
<1> QED BY <1>1, <1>3, SeqDef

\* The plan that UpdatePlan or RemovePlan finds: the first of that number.
First(same) == CHOOSE i \in same : \A j \in same : i <= j

LEMMA FirstLeast ==
    ASSUME NEW T, T \subseteq Nat, T # {}
    PROVE  First(T) \in T
<1> DEFINE R == {ss \in Nat \X Nat : ss[1] < ss[2]}
<1>1. IsWellFoundedOn(R, Nat)
  BY NatLessThanWellFounded DEF OpToRel
<1>2. PICK x \in T : \A y \in T : ~(<<y, x>> \in R)
  <2> HIDE DEF R
  <2> QED BY <1>1, WFMin, Zenon
<1>3. ASSUME NEW y \in T PROVE x <= y
  <2>1. x \in Nat /\ y \in Nat /\ ~(<<y, x>> \in R)
    BY <1>2
  <2>2. <<y, x>>[1] = y /\ <<y, x>>[2] = x
    OBVIOUS
  <2>3. ~(y < x)
    BY <2>1, <2>2
  <2> QED BY <2>1, <2>3
<1> QED BY <1>3 DEF First

LEMMA FirstFound ==
    ASSUME NEW ps \in Seq(Plans), NEW n, Numbered(ps, n) # {}
    PROVE  First(Numbered(ps, n)) \in 1..Len(ps) /\ ps[First(Numbered(ps, n))].planNumber = n
<1>1. DOMAIN ps = 1..Len(ps) /\ Len(ps) \in Nat
  BY LenProperties
<1>2. Numbered(ps, n) \subseteq Nat
  BY <1>1 DEF Numbered
<1>3. First(Numbered(ps, n)) \in Numbered(ps, n)
  BY <1>2, FirstLeast
<1> QED BY <1>1, <1>3 DEF Numbered

\* What the operations that change a list save: plans that are as valid, and as
\* different in their numbers, as those that were served.
LEMMA AppendSound ==
    ASSUME NEW ps, Sound(ps), NEW p \in Plans, ValidatePlan(p), Len(ps) < MaxPlans
    PROVE  /\ Sound(Append(ps, p))
           /\ Distinct(ps) /\ Numbered(ps, p.planNumber) = {} => Distinct(Append(ps, p))
<1> DEFINE new == Append(ps, p)
<1>1. /\ ps \in Seq(Plans) /\ Len(ps) \in Nat /\ DOMAIN ps = 1..Len(ps)
      /\ \A i \in 1..Len(ps) : ValidatePlan(ps[i])
  BY LenProperties DEF Sound
<1>2. /\ new \in Seq(Plans) /\ Len(new) = Len(ps) + 1
      /\ \A i \in 1..Len(ps) : new[i] = ps[i]
      /\ new[Len(ps) + 1] = p
  BY <1>1, AppendProperties
<1> HIDE DEF new
<1>3. DOMAIN new = 1..(Len(ps) + 1)
  BY <1>2, LenProperties
<1>4. \A i \in 1..(Len(ps) + 1) : i \in 1..Len(ps) \/ i = Len(ps) + 1
  BY <1>1
<1>5. \A i \in DOMAIN new : ValidatePlan(new[i])
  BY <1>1, <1>2, <1>3, <1>4
<1>6. ASSUME Distinct(ps), Numbered(ps, p.planNumber) = {} PROVE Distinct(new)
  <2>1. \A i \in 1..Len(ps) : ps[i].planNumber # p.planNumber
    BY <1>1, <1>6 DEF Numbered
  <2>2. \A i, j \in 1..Len(ps) : ps[i].planNumber = ps[j].planNumber => i = j
    BY <1>1, <1>6 DEF Distinct
  <2>3. \A i, j \in 1..(Len(ps) + 1) : new[i].planNumber = new[j].planNumber => i = j
    BY <1>2, <1>4, <2>1, <2>2
  <2> QED BY <1>3, <2>3 DEF Distinct
<1>7. Len(new) <= MaxPlans
  BY <1>1, <1>2, MaxPlansAssumption
<1> QED BY <1>2, <1>5, <1>6, <1>7 DEF Sound, new

LEMMA ReplaceSound ==
    ASSUME NEW ps, Sound(ps), NEW p \in Plans, ValidatePlan(p),
           NEW k \in 1..Len(ps), ps[k].planNumber = p.planNumber
    PROVE  /\ Sound([ps EXCEPT ![k] = p])
           /\ Distinct(ps) => Distinct([ps EXCEPT ![k] = p])
<1> DEFINE new == [ps EXCEPT ![k] = p]
<1>1. /\ ps \in Seq(Plans) /\ Len(ps) \in Nat /\ DOMAIN ps = 1..Len(ps)
      /\ \A i \in 1..Len(ps) : ValidatePlan(ps[i])
  BY LenProperties DEF Sound
<1>2. /\ new \in Seq(Plans) /\ Len(new) = Len(ps)
      /\ \A i \in 1..Len(ps) : new[i] = IF i = k THEN p ELSE ps[i]
  BY <1>1, ExceptSeq
<1> HIDE DEF new
<1>3. DOMAIN new = 1..Len(ps)
  BY <1>2, LenProperties
<1>4. \A i \in 1..Len(ps) : new[i].planNumber = ps[i].planNumber /\ ValidatePlan(new[i])
  BY <1>1, <1>2
<1>5. Distinct(ps) => Distinct(new)
  BY <1>1, <1>3, <1>4 DEF Distinct
<1>6. Sound(new)
  BY <1>2, <1>3, <1>4 DEF Sound
<1> QED BY <1>5, <1>6 DEF new

LEMMA RemoveSound ==
    ASSUME NEW ps, Sound(ps), NEW k \in 1..Len(ps)
    PROVE  Sound(RemoveAt(ps, k)) /\ (Distinct(ps) => Distinct(RemoveAt(ps, k)))
<1> DEFINE new == RemoveAt(ps, k)
           n == Len(ps) - 1
<1>1. /\ ps \in Seq(Plans) /\ Len(ps) \in Nat /\ DOMAIN ps = 1..Len(ps) /\ Len(ps) <= MaxPlans
      /\ \A i \in 1..Len(ps) : ValidatePlan(ps[i])
  BY LenProperties DEF Sound
<1>2. /\ new \in Seq(Plans) /\ Len(new) = n
      /\ \A i \in 1..n : new[i] = IF i < k THEN ps[i] ELSE ps[i + 1]
  BY <1>1, Removed
<1> HIDE DEF new
<1>3. DOMAIN new = 1..n
  BY <1>2, LenProperties
<1> DEFINE at(i) == IF i < k THEN i ELSE i + 1
<1>4. \A i \in 1..n : at(i) \in 1..Len(ps) /\ new[i] = ps[at(i)]
  BY <1>1, <1>2
<1>5. \A i, j \in 1..n : at(i) = at(j) => i = j
  BY <1>1
<1> HIDE DEF at
<1>6. Distinct(ps) => Distinct(new)
  BY <1>1, <1>3, <1>4, <1>5 DEF Distinct
<1>7. \A i \in DOMAIN new : ValidatePlan(new[i])
  BY <1>1, <1>3, <1>4
<1>8. Len(new) <= MaxPlans
  BY <1>1, <1>2, MaxPlansAssumption
<1> QED BY <1>2, <1>6, <1>7, <1>8 DEF Sound, new
----------------------------------------------------------------------------
(* The inductive invariant *)

\* Whatever is served from the cache or about to be stored there is sound.
ServedInv == \A l \in Lists : cache[l] = Absent \/ Sound(cache[l])

\* Plans are held only while they are saved.
SavingInv == step \notin {"open", "write", "store"} => plans = <<>>

IInv == TypeOK /\ ServedInv /\ SavingInv /\ Sound(plans)

LEMMA InitInv == Init => IInv
<1> SUFFICES ASSUME Init PROVE IInv
  OBVIOUS
<1>1. <<>> \in Seq(Plans) /\ <<>> \in Seq(WrittenPlan)
  BY EmptySeq
<1>2. /\ disk \in Files /\ backup \in Files
      /\ cache \in [Lists -> Seq(Plans) \cup {Absent}]
  BY <1>1 DEF Init, Files, NoFiles
<1>3. TypeOK
  BY <1>1, <1>2 DEF Init, TypeOK
<1>4. ServedInv /\ SavingInv
  BY DEF Init, ServedInv, SavingInv, NoFiles
<1> QED BY <1>3, <1>4, EmptySound DEF Init, IInv

\* A list that is served is sound, the empty one if there is no cache entry.
LEMMA ServedSound ==
    ASSUME IInv, NEW l \in Lists
    PROVE  Sound(GetPlanList(l))
BY EmptySound DEF IInv, ServedInv, GetPlanList

LEMMA SaveStep ==
    ASSUME IInv, NEW l \in Lists, NEW ps, Sound(ps), SavePlanList(l, ps)
    PROVE  IInv'
<1>1. TypeOK'
  BY DEF SavePlanList, files, IInv, TypeOK, Sound
<1>2. ServedInv' /\ SavingInv' /\ plans' = ps
  BY DEF SavePlanList, IInv, ServedInv, SavingInv
<1> QED BY <1>1, <1>2 DEF IInv, Sound

\* A step that changes a list saves a sound one, and one without two plans of one
\* number if the list that is served has none and no operator sent it.
LEMMA EditSaves ==
    ASSUME IInv, NEW l \in Lists,
           \/ UpdateFromEditedPlanList(l) \/ CreateNewPlanList(l)
           \/ \E p \in Plans : UpdatePlan(l, p) \/ AddPlan(l, p)
           \/ \E n \in Numbers : RemovePlan(l, n)
    PROVE  \E new : /\ Sound(new) /\ SavePlanList(l, new)
                    /\ Distinct(GetPlanList(l)) => Distinct(new) \/ new \in EditedLists
<1> DEFINE ps == GetPlanList(l)
<1>1. Sound(ps) /\ ps \in Seq(Plans) /\ Len(ps) \in Nat
  BY ServedSound, LenProperties DEF Sound
<1>2. CASE UpdateFromEditedPlanList(l)
  <2>1. PICK new \in EditedLists : SavePlanList(l, new)
    BY <1>2 DEF UpdateFromEditedPlanList
  <2>2. Sound(new)
    BY <2>1, PlansAssumption DEF SavePlanList, Sound
  <2> QED BY <2>1, <2>2
<1>3. CASE CreateNewPlanList(l)
  BY <1>3, EmptySound DEF CreateNewPlanList
<1>4. ASSUME NEW p \in Plans, UpdatePlan(l, p)
      PROVE  \E new : /\ Sound(new) /\ SavePlanList(l, new)
                      /\ Distinct(ps) => Distinct(new)
  <2> DEFINE same == Numbered(ps, p.planNumber)
  <2>1. /\ ValidatePlan(p)
        /\ SavePlanList(l, IF same = {} THEN Append(ps, p) ELSE [ps EXCEPT ![First(same)] = p])
    BY <1>4 DEF UpdatePlan, First
  <2>2. CASE same = {}
    <3>1. Len(Append(ps, p)) <= MaxPlans /\ Len(Append(ps, p)) = Len(ps) + 1
      BY <1>1, <2>1, <2>2, AppendProperties DEF SavePlanList
    <3>2. Sound(Append(ps, p)) /\ (Distinct(ps) => Distinct(Append(ps, p)))
      BY <1>1, <2>1, <2>2, <3>1, AppendSound, MaxPlansAssumption
    <3> QED BY <2>1, <2>2, <3>2
  <2>3. CASE same # {}
    <3> DEFINE k == First(same)
    <3>1. k \in 1..Len(ps) /\ ps[k].planNumber = p.planNumber
      BY <1>1, <2>3, FirstFound
    <3> HIDE DEF k
    <3>2. /\ Sound([ps EXCEPT ![k] = p])
          /\ Distinct(ps) => Distinct([ps EXCEPT ![k] = p])
      BY <1>1, <2>1, <3>1, ReplaceSound
    <3>3. SavePlanList(l, [ps EXCEPT ![k] = p])
      BY <2>1, <2>3 DEF k
    <3> QED BY <3>2, <3>3
  <2> QED BY <2>2, <2>3
<1>5. ASSUME NEW p \in Plans, AddPlan(l, p)
      PROVE  \E new : /\ Sound(new) /\ SavePlanList(l, new)
                      /\ Distinct(ps) => Distinct(new)
  <2>1. /\ ValidatePlan(p) /\ Len(ps) < MaxPlans /\ Numbered(ps, p.planNumber) = {}
        /\ SavePlanList(l, Append(ps, p))
    BY <1>5 DEF AddPlan
  <2>2. Sound(Append(ps, p)) /\ (Distinct(ps) => Distinct(Append(ps, p)))
    BY <1>1, <2>1, AppendSound
  <2> QED BY <2>1, <2>2
<1>6. ASSUME NEW n \in Numbers, RemovePlan(l, n)
      PROVE  \E new : /\ Sound(new) /\ SavePlanList(l, new)
                      /\ Distinct(ps) => Distinct(new)
  <2> DEFINE k == First(Numbered(ps, n))
  <2>1. Numbered(ps, n) # {} /\ SavePlanList(l, RemoveAt(ps, k))
    BY <1>6 DEF RemovePlan, First
  <2>2. k \in 1..Len(ps)
    BY <1>1, <2>1, FirstFound
  <2>3. Sound(RemoveAt(ps, k)) /\ (Distinct(ps) => Distinct(RemoveAt(ps, k)))
    BY <1>1, <2>2, RemoveSound
  <2> QED BY <2>1, <2>3
<1> QED BY <1>2, <1>3, <1>4, <1>5, <1>6

LEMMA EditStep ==
    ASSUME IInv, NEW l \in Lists,
           \/ UpdateFromEditedPlanList(l) \/ CreateNewPlanList(l)
           \/ \E p \in Plans : UpdatePlan(l, p) \/ AddPlan(l, p)
           \/ \E n \in Numbers : RemovePlan(l, n)
    PROVE  IInv'
BY EditSaves, SaveStep

\* Loading leaves an empty list or nothing in the cache.
LEMMA LoadedSound ==
    ASSUME NEW l \in Lists
    PROVE  Loaded(l) \in Seq(Plans) \cup {Absent} /\ (Loaded(l) = Absent \/ Sound(Loaded(l)))
BY EmptySound DEF Loaded, ReadJsonFromFile, Sound

LEMMA LoadStep ==
    ASSUME IInv, \/ \E l \in Lists : LoadPlanList(l) \/ InitialLoad(l) \/ InitialCreate(l)
                 \/ Initialize \/ ReloadAll
    PROVE  IInv'
<1>1. CASE \E l \in Lists : LoadPlanList(l) \/ InitialLoad(l)
  <2>1. PICK l \in Lists : LoadPlanList(l) \/ InitialLoad(l)
    BY <1>1
  <2>2. /\ cache' = [cache EXCEPT ![l] = Loaded(l)] /\ lost' = lost \ {l}
        /\ UNCHANGED <<files, saving>>
        /\ step \in {"idle", "initialize"} /\ pending' \in SUBSET Lists
        /\ step' = "idle" \/ (step' = "initialize" /\ pending' # {})
        /\ pending' # {} => step' = "initialize" /\ pending # {}
    BY <2>1 DEF LoadPlanList, InitialLoad, Back, IInv, TypeOK
  <2>3. TypeOK'
    BY <2>2, LoadedSound DEF IInv, TypeOK, files, saving
  <2>4. ServedInv' /\ SavingInv' /\ plans' = plans
    BY <2>2, LoadedSound DEF IInv, TypeOK, ServedInv, SavingInv, saving
  <2> QED BY <2>3, <2>4 DEF IInv
<1>2. CASE \E l \in Lists : InitialCreate(l)
  <2>1. TypeOK'
    BY <1>2, EmptySeq DEF InitialCreate, files, IInv, TypeOK
  <2>2. ServedInv' /\ SavingInv' /\ plans' = <<>>
    BY <1>2 DEF InitialCreate, IInv, ServedInv, SavingInv
  <2> QED BY <2>1, <2>2, EmptySound DEF IInv
<1>3. CASE Initialize
  <2>1. plans = <<>> /\ Lists # {}
    BY <1>3 DEF Initialize, IInv, SavingInv, TypeOK
  <2>2. TypeOK'
    BY <1>3, <2>1 DEF Initialize, files, saving, IInv, TypeOK
  <2>3. ServedInv' /\ SavingInv' /\ plans' = plans
    BY <1>3, <2>1 DEF Initialize, saving, IInv, ServedInv, SavingInv
  <2> QED BY <2>2, <2>3 DEF IInv
<1>4. CASE ReloadAll
  <2>1. PICK unread \in Unopened :
           cache' = [l \in Lists |-> IF l \in unread THEN Absent ELSE Loaded(l)]
    BY <1>4 DEF ReloadAll
  <2>2. TypeOK'
    BY <1>4, <2>1, LoadedSound DEF ReloadAll, files, saving, IInv, TypeOK
  <2>3. ServedInv' /\ SavingInv' /\ plans' = plans
    BY <1>4, <2>1, LoadedSound DEF ReloadAll, saving, IInv, ServedInv, SavingInv
  <2> QED BY <2>2, <2>3 DEF IInv
<1> QED BY <1>1, <1>2, <1>3, <1>4

LEMMA StoreStep ==
    ASSUME IInv, OpenFile \/ WriteFile \/ StoreInCache \/ EraseFromCache \/ Crash
    PROVE  IInv'
<1>1. CASE OpenFile
  <2>1. TypeOK'
    BY <1>1, EmptySeq DEF OpenFile, Back, IInv, TypeOK, Files
  <2>2. ServedInv' /\ SavingInv' /\ plans' \in {plans, <<>>}
    BY <1>1 DEF OpenFile, Back, IInv, ServedInv, SavingInv
  <2> QED BY <2>1, <2>2, EmptySound DEF IInv
<1>2. CASE WriteFile
  <2>1. TypeOK'
    BY <1>2, WrittenTyped DEF WriteFile, saving, IInv, TypeOK, Files
  <2>2. ServedInv' /\ SavingInv' /\ plans' = plans
    BY <1>2 DEF WriteFile, saving, IInv, ServedInv, SavingInv
  <2> QED BY <2>1, <2>2 DEF IInv
<1>3. CASE StoreInCache
  <2>1. TypeOK'
    BY <1>3, EmptySeq DEF StoreInCache, Back, files, IInv, TypeOK
  <2>2. ServedInv' /\ SavingInv' /\ plans' = <<>>
    BY <1>3 DEF StoreInCache, Back, IInv, TypeOK, ServedInv, SavingInv
  <2> QED BY <2>1, <2>2, EmptySound DEF IInv
<1>4. CASE EraseFromCache
  <2>1. TypeOK'
    BY <1>4 DEF EraseFromCache, files, saving, IInv, TypeOK
  <2>2. ServedInv' /\ SavingInv' /\ plans' = plans
    BY <1>4 DEF EraseFromCache, saving, IInv, TypeOK, ServedInv, SavingInv
  <2> QED BY <2>1, <2>2 DEF IInv
<1>5. CASE Crash
  <2>1. TypeOK'
    BY <1>5, EmptySeq DEF Crash, files, IInv, TypeOK, NoFiles
  <2>2. ServedInv' /\ SavingInv' /\ plans' = <<>>
    BY <1>5 DEF Crash, ServedInv, SavingInv, NoFiles
  <2> QED BY <2>1, <2>2, EmptySound DEF IInv
<1> QED BY <1>1, <1>2, <1>3, <1>4, <1>5

\* Files are removed or copied; the cache is left alone.
LEMMA FilesStep ==
    ASSUME IInv, \/ \E l \in Lists : DeletePlanList(l)
                 \/ BackupPlanData \/ RestorePlanData \/ CopyBackup
    PROVE  IInv'
<1>1. UNCHANGED <<cache, pending, plans>> /\ step \in {"idle", "copy"}
  BY DEF DeletePlanList, BackupPlanData, RestorePlanData, CopyBackup, saving
<1>2. ServedInv' /\ SavingInv'
  <2>1. step' \notin {"open", "write", "store"}
    BY DEF DeletePlanList, BackupPlanData, RestorePlanData, CopyBackup
  <2> QED BY <1>1, <2>1 DEF IInv, ServedInv, SavingInv
<1>3. CASE \E l \in Lists : DeletePlanList(l)
  BY <1>1, <1>2, <1>3 DEF DeletePlanList, IInv, TypeOK, Files
<1>4. CASE BackupPlanData
  <2>1. backup' \in Files
    BY <1>4 DEF BackupPlanData, IInv, TypeOK, Files
  <2> QED BY <1>1, <1>2, <1>4, <2>1 DEF BackupPlanData, saving, IInv, TypeOK
<1>5. CASE RestorePlanData
  <2>1. disk' \in Files
    BY <1>5 DEF RestorePlanData, IInv, TypeOK, NoFiles, Files
  <2> QED BY <1>1, <1>2, <1>5, <2>1 DEF RestorePlanData, saving, IInv, TypeOK
<1>6. CASE CopyBackup
  <2>1. disk' \in Files /\ step' \in {"reload", "idle"}
    BY <1>6 DEF CopyBackup, IInv, TypeOK, Files
  <2> QED BY <1>1, <1>2, <1>6, <2>1 DEF CopyBackup, saving, IInv, TypeOK
<1> QED BY <1>3, <1>4, <1>5, <1>6

LEMMA NextInv == IInv /\ [Next]_vars => IInv'
<1> SUFFICES ASSUME IInv, [Next]_vars PROVE IInv'
  OBVIOUS
<1>1. CASE UNCHANGED vars
  BY <1>1 DEF vars, files, saving, IInv, TypeOK, ServedInv, SavingInv
<1>2. CASE Next
  BY <1>2, EditStep, LoadStep, StoreStep, FilesStep DEF Next
<1> QED BY <1>1, <1>2

LEMMA Invariance == Spec => []IInv
BY InitInv, NextInv, PTL DEF Spec

\* The files, the cache and the locals of the call always have their types.
THEOREM TypeCorrect == Spec => []TypeOK
<1>1. IInv => TypeOK
  BY DEF IInv
<1> QED BY <1>1, Invariance, PTL

\* No operation, crash or failing file lets a list be served that is too long
\* or holds a plan that was not validated.
THEOREM ServedStaysValid == Spec => []ServedIsValid
<1>1. IInv => ServedIsValid
  BY ServedSound DEF ServedIsValid, Sound
<1> QED BY <1>1, Invariance, PTL

\* Adding, updating or removing a plan never brings two plans of one number into a
\* list that has none, whatever lists an operator sends; only those can.
THEOREM AddingKeepsNumbersUnique == Spec => OnlyEditsDuplicate
<1> DEFINE Saves == step = "idle" /\ step' = "open" /\ Distinct(GetPlanList(list'))
           A == Saves => Distinct(plans') \/ plans' \in EditedLists
<1>1. ASSUME IInv, [Next]_vars PROVE [A]_vars
  <2> SUFFICES ASSUME Next, Saves PROVE Distinct(plans') \/ plans' \in EditedLists
    BY <1>1
  <2>1. PICK l \in Lists :
           \/ UpdateFromEditedPlanList(l) \/ CreateNewPlanList(l)
           \/ \E p \in Plans : UpdatePlan(l, p) \/ AddPlan(l, p)
           \/ \E n \in Numbers : RemovePlan(l, n)
    BY DEF Next, LoadPlanList, DeletePlanList, InitialLoad, InitialCreate, Initialize,
       OpenFile, WriteFile, StoreInCache, EraseFromCache, BackupPlanData, RestorePlanData,
       CopyBackup, ReloadAll, Crash
  <2>2. PICK new : /\ SavePlanList(l, new)
                   /\ Distinct(GetPlanList(l)) => Distinct(new) \/ new \in EditedLists
    BY <1>1, <2>1, EditSaves
  <2>3. list' = l /\ plans' = new
    BY <2>2 DEF SavePlanList
  <2>4. Distinct(GetPlanList(l))
    BY <2>3
  <2> QED BY <2>2, <2>3, <2>4
<1> QED BY <1>1, Invariance, PTL DEF Spec, OnlyEditsDuplicate
----------------------------------------------------------------------------
(* What is served is stored *)

Synchronous(l) == GetPlanList(l) # <<>> => disk[l] = Written(cache[l])

\* A list is out of step with its file, behind the back of the program, where a disk
\* was full or a restore failed; and while it is saved or deleted, as all are while
\* the backup is copied.
StoredInv ==
    /\ step \in {"down", "initialize", "idle", "open"} =>
          \A l \in Lists \ lost : Synchronous(l)
    /\ step \in {"write", "store", "erase"} =>
          \A l \in Lists \ (lost \cup {list}) : Synchronous(l)
    /\ step = "store" /\ list \notin lost => disk[list] = Written(plans)

\* Between two calls what the file of a served list holds is what was written of that
\* list, with every fault and wherever the process crashed, but for a list whose disk
\* was full or whose restore failed since it was stored or loaded.
THEOREM ServedStaysStored == Spec => []ServedIsStored
<1>1. Init => StoredInv
  BY DEF Init, StoredInv, Synchronous, GetPlanList, NoFiles
<1>2. ASSUME IInv, StoredInv, [Next]_vars PROVE StoredInv'
  <2>1. ASSUME NEW l \in Lists, NEW ps, SavePlanList(l, ps) PROVE StoredInv'
    BY <1>2, <2>1 DEF SavePlanList, files, StoredInv, Synchronous, GetPlanList
  <2>2. ASSUME NEW l \in Lists,
               \/ UpdateFromEditedPlanList(l) \/ CreateNewPlanList(l)
               \/ \E p \in Plans : UpdatePlan(l, p) \/ AddPlan(l, p)
               \/ \E n \in Numbers : RemovePlan(l, n)
        PROVE  StoredInv'
    BY <2>1, <2>2 DEF UpdateFromEditedPlanList, CreateNewPlanList, UpdatePlan, AddPlan,
       RemovePlan
  <2>3. ASSUME NEW l \in Lists, LoadPlanList(l) \/ InitialLoad(l) PROVE StoredInv'
    <3>1. /\ cache' = [cache EXCEPT ![l] = Loaded(l)] /\ UNCHANGED disk /\ lost' = lost \ {l}
          /\ step \in {"idle", "initialize"} /\ step' \in {"idle", "initialize"}
      BY <2>3 DEF LoadPlanList, InitialLoad, Back, files
    <3>2. Loaded(l) \in {<<>>, Absent}
      BY DEF Loaded, ReadJsonFromFile
    <3> QED BY <1>2, <3>1, <3>2 DEF IInv, TypeOK, StoredInv, Synchronous, GetPlanList
  <2>4. ASSUME NEW l \in Lists, InitialCreate(l) PROVE StoredInv'
    BY <1>2, <2>4 DEF InitialCreate, files, StoredInv, Synchronous, GetPlanList
  <2>5. CASE Initialize
    BY <1>2, <2>5 DEF Initialize, files, StoredInv, Synchronous, GetPlanList
  <2>6. CASE OpenFile
    BY <1>2, <2>6 DEF OpenFile, Back, IInv, TypeOK, Files, StoredInv, Synchronous, GetPlanList
  <2>7. CASE WriteFile
    BY <1>2, <2>7 DEF WriteFile, saving, IInv, TypeOK, Files, StoredInv, Synchronous,
       GetPlanList
  <2>8. CASE StoreInCache
    BY <1>2, <2>8 DEF StoreInCache, Back, files, IInv, TypeOK, StoredInv, Synchronous,
       GetPlanList
  <2>9. ASSUME NEW l \in Lists, DeletePlanList(l) PROVE StoredInv'
    BY <1>2, <2>9 DEF DeletePlanList, IInv, TypeOK, Files, StoredInv, Synchronous, GetPlanList
  <2>10. CASE EraseFromCache
    BY <1>2, <2>10 DEF EraseFromCache, files, saving, IInv, TypeOK, StoredInv, Synchronous,
       GetPlanList
  <2>11. CASE BackupPlanData
    BY <1>2, <2>11 DEF BackupPlanData, saving, StoredInv, Synchronous, GetPlanList
  <2>12. CASE RestorePlanData
    BY <1>2, <2>12 DEF RestorePlanData, saving, StoredInv, Synchronous, GetPlanList
  <2>13. CASE CopyBackup
    BY <1>2, <2>13 DEF CopyBackup, saving, StoredInv, Synchronous, GetPlanList
  <2>14. CASE ReloadAll
    <3>1. step' = "idle" /\ \A l \in Lists : cache'[l] \in {<<>>, Absent}
      BY <2>14 DEF ReloadAll, Loaded, ReadJsonFromFile
    <3> QED BY <3>1 DEF StoredInv, Synchronous, GetPlanList
  <2>15. CASE Crash
    BY <2>15 DEF Crash, NoFiles, StoredInv, Synchronous, GetPlanList
  <2>16. CASE UNCHANGED vars
    BY <1>2, <2>16 DEF vars, files, saving, StoredInv, Synchronous, GetPlanList
  <2> QED BY <1>2, <2>2, <2>3, <2>4, <2>5, <2>6, <2>7, <2>8, <2>9, <2>10, <2>11, <2>12,
          <2>13, <2>14, <2>15, <2>16 DEF Next
<1>3. StoredInv => ServedIsStored
  BY DEF StoredInv, ServedIsStored, Synchronous
<1> QED BY <1>1, <1>2, <1>3, Invariance, PTL DEF Spec
=============================================================================
