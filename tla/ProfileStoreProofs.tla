------------------------- MODULE ProfileStoreProofs -------------------------
(***************************************************************************)
(* The file of the saved connections is whole, and is what the window      *)
(* shows, for any names, any length of the list and any hand edits.        *)
(*                                                                         *)
(* Neither is inductive: what the file becomes is what the temporary file  *)
(* is when it is renamed, so the invariant speaks of that as well.         *)
(***************************************************************************)
EXTENDS ProfileStore, SequenceTheorems, FunctionTheorems,
        FiniteSetTheorems, TLAPS

\* A file about to be renamed was written as a whole, or the disk was full.
TemporaryWhole ==
    saving = "rename" => temporary.kind = "list" \/ diskWasFull

\* What was written as a whole is the list of the window.
TemporaryHoldsList ==
    saving = "rename" /\ temporary.kind = "list" => temporary.list = profiles

\* A save does not outlive its GUI.
SavesWhileRunning == saving # "no" => running

IInv ==
    /\ TypeOK
    /\ SelectionExists
    /\ SavesWhileRunning
    /\ TemporaryWhole
    /\ TemporaryHoldsList
    /\ FileNeverPartial
    /\ FileHoldsWhatIsShown

-----------------------------------------------------------------------------
\* How many elements of a finite set of numbers are no larger than one of them
\* tells them apart, and takes each value up to their number.
LEMMA RankIsOnto ==
  ASSUME NEW n \in Nat, NEW left \in SUBSET (1..n)
  PROVE  /\ Cardinality(left) \in Nat
         /\ \A k \in 1..Cardinality(left) :
              \E i \in left : Cardinality(left \cap (1..i)) = k
<1> DEFINE size == Cardinality(left)
           rank == [i \in left |-> Cardinality(left \cap (1..i))]
<1>1. IsFiniteSet(left) /\ size \in Nat
  <2>1. IsFiniteSet(1..n)
    BY FS_Interval
  <2>2. IsFiniteSet(left)
    BY <2>1, FS_Subset
  <2> QED  BY <2>2, FS_CardinalityType
<1>2. \A i \in left : /\ IsFiniteSet(left \cap (1..i))
                      /\ Cardinality(left \cap (1..i)) \in 1..size
  <2> TAKE i \in left
  <2>1. left \cap (1..i) \in SUBSET left /\ i \in left \cap (1..i)
    OBVIOUS
  <2>2. IsFiniteSet(left \cap (1..i)) /\ Cardinality(left \cap (1..i)) <= size
    BY <1>1, <2>1, FS_Subset
  <2>3. Cardinality(left \cap (1..i)) \in Nat /\ Cardinality(left \cap (1..i)) # 0
    BY <2>1, <2>2, FS_CardinalityType, FS_EmptySet
  <2> QED  BY <1>1, <2>2, <2>3
<1>3. \A i, j \in left : i < j => rank[i] # rank[j]
  <2> SUFFICES ASSUME NEW i \in left, NEW j \in left, i < j, rank[i] = rank[j]
               PROVE  FALSE
    OBVIOUS
  <2>1. left \cap (1..i) \in SUBSET (left \cap (1..j))
    OBVIOUS
  <2>2. left \cap (1..i) = left \cap (1..j)
    BY <1>2, <2>1, FS_Subset
  <2> QED  BY <2>2
<1>4. rank \in Injection(left, 1..size)
  <2>1. rank \in [left -> 1..size]
    BY <1>2
  <2>2. \A i, j \in left : rank[i] = rank[j] => i = j
    BY <1>3
  <2> QED  BY <2>1, <2>2, Fun_IsInj
<1>5. IsFiniteSet(1..size) /\ Cardinality(1..size) = size
  BY <1>1, FS_Interval
<1>6. rank \in Surjection(left, 1..size)
  BY <1>4, <1>5, FS_Injection
<1> QED  BY <1>1, <1>6 DEF Surjection

\* What std::remove_if leaves of a list of names is one.
LEMMA WithoutIsList ==
  ASSUME NEW list \in Seq(Names), NEW name
  PROVE  Without(list, name) \in Seq(Names)
<1> DEFINE left == {i \in DOMAIN list : list[i] # name}
<1>1. DOMAIN list = 1..Len(list) /\ Len(list) \in Nat
  BY LenProperties
<1>2. /\ Cardinality(left) \in Nat
      /\ \A k \in 1..Cardinality(left) :
           \E i \in left : Cardinality(left \cap (1..i)) = k
  BY <1>1, RankIsOnto
<1>3. \A i \in left : list[i] \in Names
  BY <1>1, ElementOfSeq
<1>4. Without(list, name) \in [1..Cardinality(left) -> Names]
  BY <1>2, <1>3 DEF Without
<1> QED  BY <1>2, <1>4, SeqDef

\* A part of a list of names is one.
LEMMA PrefixIsList ==
  ASSUME NEW list \in Seq(Names), NEW part \in Prefixes(list)
  PROVE  part \in Seq(Names)
<1>1. PICK l \in 0..Len(list) : part = SubSeq(list, 1, l)
  BY DEF Prefixes
<1>2. l \in Int /\ Len(list) \in Nat /\ l <= Len(list)
  BY LenProperties
<1> QED  BY <1>1, <1>2, SubSeqProperties, ElementOfSeq

\* What a file holds, and that there may be nothing in it.
LEMMA FileFields ==
  ASSUME NEW kind, NEW list
  PROVE  File(kind, list).kind = kind /\ File(kind, list).list = list
BY DEF File

LEMMA EmptyFiles ==
  \A kind \in Kinds :
     File(kind, <<>>).kind \in Kinds /\ File(kind, <<>>).list \in Seq(Names)
BY EmptySeq, FileFields

LEMMA NoFileIsEmpty == NoFile.kind \in Kinds /\ NoFile.list \in Seq(Names)
BY EmptyFiles DEF NoFile, Kinds

\* After a refresh the selection is one of the list, if there is one.
LEMMA RefreshSelects ==
  ASSUME StoreAssumption, selected \in Names \cup {NoName},
         NEW list \in Seq(Names), Refresh(list)
  PROVE  /\ selected' \in Names \cup {NoName}
         /\ selected' \in IF list = <<>> THEN {NoName} ELSE ToSet(list)
<1>1. ToSet(list) \subseteq Names /\ (list = <<>> => ToSet(list) = {})
  BY LenProperties, ElementOfSeq DEF ToSet
<1>2. list # <<>> => list[1] \in ToSet(list)
  <2>1. list # <<>> => 1 \in DOMAIN list
    BY EmptySeq, LenProperties
  <2> QED  BY <2>1 DEF ToSet
<1> QED  BY <1>1, <1>2 DEF Refresh

-----------------------------------------------------------------------------
\* Every step leaves the two files and the window well typed.
LEMMA StepTypes ==
  ASSUME StoreAssumption, TypeOK, Next
  PROVE  TypeOK'
<1> USE DEF TypeOK, StoreAssumption
<1>1. /\ <<>> \in Seq(Names)
      /\ File("partial", <<>>).kind \in Kinds /\ File("partial", <<>>).list \in Seq(Names)
  BY EmptySeq, EmptyFiles DEF Kinds
<1>2. CASE Start
  <2>1. profiles' \in Seq(Names) /\ selected' \in Names \cup {NoName}
    BY <1>2, RefreshSelects DEF Start
  <2> QED  BY <1>2, <2>1 DEF Start
<1>3. CASE EditByHand
  <2>1. file'.kind \in Kinds /\ file'.list \in Seq(Names)
    <3>1. CASE \E name \in Names : file' = File("list", Append(file.list, name))
      <4>1. PICK name \in Names : file' = File("list", Append(file.list, name))
        BY <3>1
      <4>2. Append(file.list, name) \in Seq(Names)
        BY AppendProperties
      <4>3. file'.kind = "list" /\ file'.list = Append(file.list, name)
        BY <4>1, FileFields
      <4> QED  BY <4>2, <4>3 DEF Kinds
    <3>2. CASE file' = File("malformed", <<>>)
      BY <3>2, EmptyFiles DEF Kinds
    <3> QED  BY <1>3, <3>1, <3>2 DEF EditByHand
  <2>2. handEdits' \in 0..MaxHandEdits
    BY <1>3, MaxHandEdits \in Nat DEF EditByHand
  <2>3. current' \in BOOLEAN
    BY <1>3 DEF EditByHand
  <2> QED  BY <1>3, <2>1, <2>2, <2>3 DEF EditByHand
<1>4. CASE AddProfile \/ EditProfile \/ RemoveProfile
  <2>1. profiles' \in Seq(Names)
    <3>1. CASE AddProfile
      BY <3>1, AppendProperties DEF AddProfile
    <3>2. CASE EditProfile
      BY <3>2, ExceptSeq, LenProperties DEF EditProfile
    <3>3. CASE RemoveProfile
      BY <3>3, WithoutIsList DEF RemoveProfile
    <3> QED  BY <1>4, <3>1, <3>2, <3>3
  <2> QED  BY <1>4, <2>1 DEF AddProfile, EditProfile, RemoveProfile, ThenPersist,
           historyVars
<1>5. CASE Select
  <2>1. selected' \in Names
    BY <1>5, LenProperties, ElementOfSeq DEF Select, ToSet
  <2> QED  BY <1>5, <2>1 DEF Select, historyVars
<1>6. CASE OpenFails \/ RenameFails \/ RenameTemporary
  <2>1. selected' \in Names \cup {NoName}
    BY <1>6, RefreshSelects DEF OpenFails, RenameFails, RenameTemporary
  <2> QED  BY <1>6, <2>1, NoFileIsEmpty DEF OpenFails, RenameFails, RenameTemporary
<1>7. CASE OpenTemporary \/ WriteTemporary
  <2>1. temporary'.kind \in Kinds /\ temporary'.list \in Seq(Names)
    BY <1>1, <1>7, FileFields DEF OpenTemporary, WriteTemporary, Kinds
  <2> QED  BY <1>7, <2>1 DEF OpenTemporary, WriteTemporary, historyVars
<1>8. CASE WriteFails
  <2>1. temporary'.kind \in Kinds /\ temporary'.list \in Seq(Names)
    BY <1>8, PrefixIsList, FileFields DEF WriteFails, Kinds
  <2> QED  BY <1>8, <2>1 DEF WriteFails
<1>9. CASE End
  BY <1>1, <1>9 DEF End
<1> QED  BY <1>2, <1>3, <1>4, <1>5, <1>6, <1>7, <1>8, <1>9 DEF Next

\* Whatever ends a save ends with a refresh.
LEMMA StepSelectionExists ==
  ASSUME StoreAssumption, TypeOK, SelectionExists, Next
  PROVE  SelectionExists'
<1> USE DEF SelectionExists
<1>1. CASE Start
  BY <1>1, RefreshSelects DEF Start, TypeOK
<1>2. CASE EditByHand
  BY <1>2 DEF EditByHand
<1>3. CASE AddProfile \/ EditProfile \/ RemoveProfile
  BY <1>3 DEF AddProfile, EditProfile, RemoveProfile, ThenPersist
<1>4. CASE Select
  BY <1>4 DEF Select, ToSet
<1>5. CASE OpenFails \/ RenameFails \/ RenameTemporary
  BY <1>5, RefreshSelects DEF OpenFails, RenameFails, RenameTemporary, TypeOK
<1>6. CASE OpenTemporary \/ WriteTemporary \/ WriteFails \/ End
  BY <1>6 DEF OpenTemporary, WriteTemporary, WriteFails, End
<1> QED  BY <1>1, <1>2, <1>3, <1>4, <1>5, <1>6 DEF Next

-----------------------------------------------------------------------------
\* Only the window's operations start a save, and End stops it.
LEMMA StepSavesWhileRunning ==
  ASSUME SavesWhileRunning, Next
  PROVE  SavesWhileRunning'
BY DEF SavesWhileRunning, Next, Start, EditByHand, AddProfile, EditProfile,
   RemoveProfile, ThenPersist, Select, Operation, OpenFails, OpenTemporary,
   WriteTemporary, WriteFails, RenameTemporary, RenameFails, End

\* Of the steps of Save only the one that writes makes the temporary file one
\* that may be renamed.
LEMMA StepTemporary ==
  ASSUME SavesWhileRunning, TemporaryWhole, TemporaryHoldsList, Next
  PROVE  TemporaryWhole' /\ TemporaryHoldsList'
<1> USE DEF TemporaryWhole, TemporaryHoldsList
<1>1. CASE Start
  BY <1>1 DEF Start, SavesWhileRunning
<1>2. CASE EditByHand \/ Select
  BY <1>2 DEF EditByHand, Select, Operation
<1>3. CASE AddProfile \/ EditProfile \/ RemoveProfile
  BY <1>3 DEF AddProfile, EditProfile, RemoveProfile, ThenPersist
<1>4. CASE OpenFails \/ OpenTemporary
  BY <1>4 DEF OpenFails, OpenTemporary
<1>5. CASE WriteTemporary \/ WriteFails
  BY <1>5 DEF WriteTemporary, WriteFails, File
<1>6. CASE RenameTemporary \/ RenameFails \/ End
  BY <1>6 DEF RenameTemporary, RenameFails, End
<1> QED  BY <1>1, <1>2, <1>3, <1>4, <1>5, <1>6 DEF Next

\* The file changes only by hand and by the rename.
LEMMA StepFileNeverPartial ==
  ASSUME TemporaryWhole, FileNeverPartial, Next
  PROVE  FileNeverPartial'
<1> USE DEF FileNeverPartial
<1>1. CASE RenameTemporary
  BY <1>1 DEF RenameTemporary, TemporaryWhole
<1>2. CASE EditByHand
  <2>1. file'.kind \in {"list", "malformed"}
    BY <1>2 DEF EditByHand, File
  <2> QED  BY <2>1
<1>3. CASE WriteFails
  BY <1>3 DEF WriteFails
<1>4. CASE Start \/ AddProfile \/ EditProfile \/ RemoveProfile \/ Select
           \/ OpenFails \/ OpenTemporary \/ WriteTemporary \/ RenameFails \/ End
  BY <1>4 DEF Start, AddProfile, EditProfile, RemoveProfile, ThenPersist, Select,
     OpenFails, OpenTemporary, WriteTemporary, RenameFails, End, historyVars
<1> QED  BY <1>1, <1>2, <1>3, <1>4 DEF Next

\* Each operation that changes the list saves it, and a save that failed is told.
LEMMA StepFileHoldsWhatIsShown ==
  ASSUME TemporaryHoldsList, FileHoldsWhatIsShown, Next
  PROVE  FileHoldsWhatIsShown'
<1> USE DEF FileHoldsWhatIsShown
<1>1. CASE Start
  BY <1>1 DEF Start
<1>2. CASE EditByHand \/ OpenFails \/ RenameFails \/ End
  BY <1>2 DEF EditByHand, OpenFails, RenameFails, End
<1>3. CASE AddProfile \/ EditProfile \/ RemoveProfile
  BY <1>3 DEF AddProfile, EditProfile, RemoveProfile, ThenPersist
<1>4. CASE Select
  BY <1>4 DEF Select, historyVars
<1>5. CASE OpenTemporary \/ WriteTemporary \/ WriteFails
  BY <1>5 DEF OpenTemporary, WriteTemporary, WriteFails
<1>6. CASE RenameTemporary
  BY <1>6 DEF RenameTemporary, TemporaryHoldsList
<1> QED  BY <1>1, <1>2, <1>3, <1>4, <1>5, <1>6 DEF Next

-----------------------------------------------------------------------------
\* Save's invariant: what is about to be renamed over the file is the window's
\* list, whole, or the disk was full (profile_store.hpp:120-179).
THEOREM Invariance == Spec => []IInv
<1>1. Init => IInv
  <2>1. Init => TypeOK
    <3>1. <<>> \in Seq(Names) /\ MaxHandEdits \in Nat
      BY StoreAssumption, EmptySeq DEF StoreAssumption
    <3>2. Init => /\ file.kind \in Kinds /\ file.list \in Seq(Names)
                  /\ temporary.kind \in Kinds /\ temporary.list \in Seq(Names)
      BY NoFileIsEmpty DEF Init
    <3>3. Init => /\ profiles \in Seq(Names) /\ handEdits \in 0..MaxHandEdits
                  /\ selected \in Names \cup {NoName}
                  /\ saving \in {"no", "open", "write", "rename"}
      BY <3>1 DEF Init
    <3>4. Init => /\ running \in BOOLEAN /\ current \in BOOLEAN
                  /\ diskWasFull \in BOOLEAN /\ reported \in BOOLEAN
      BY DEF Init
    <3> QED  BY <3>2, <3>3, <3>4 DEF TypeOK
  <2>2. Init => SelectionExists
    BY DEF Init, SelectionExists
  <2>3. Init => /\ SavesWhileRunning /\ TemporaryWhole /\ TemporaryHoldsList
                /\ FileNeverPartial /\ FileHoldsWhatIsShown
    BY DEF Init, SavesWhileRunning, TemporaryWhole, TemporaryHoldsList,
       FileNeverPartial, FileHoldsWhatIsShown, NoFile, File
  <2> QED  BY <2>1, <2>2, <2>3 DEF IInv
<1>2. IInv /\ [Next]_vars => IInv'
  <2>1. CASE Next
    <3>1. IInv => TypeOK' /\ SelectionExists'
      BY <2>1, StoreAssumption, StepTypes, StepSelectionExists DEF IInv
    <3> QED  BY <2>1, <3>1, StepSavesWhileRunning, StepTemporary, StepFileNeverPartial,
             StepFileHoldsWhatIsShown DEF IInv
  <2>2. CASE UNCHANGED vars
    BY <2>2 DEF vars, historyVars, IInv, TypeOK, SelectionExists, SavesWhileRunning,
       TemporaryWhole, TemporaryHoldsList, FileNeverPartial, FileHoldsWhatIsShown
  <2> QED  BY <2>1, <2>2
<1> QED  BY <1>1, <1>2, PTL DEF Spec

\* The files, the list and the selection are well typed: what remove_if leaves of
\* the list, and what can be read of a truncated file, are lists of connections
\* (profile_store.hpp:47-179, main_window.hpp:312-429).
THEOREM TypeCorrect == Spec => []TypeOK
<1>1. IInv => TypeOK
  BY DEF IInv
<1> QED  BY <1>1, Invariance, PTL

\* Whenever the buttons can be pressed a connection is selected, if there is one,
\* and it exists (main_window.hpp:389-443).
THEOREM SelectionIsThere == Spec => []SelectionExists
<1>1. IInv => SelectionExists
  BY DEF IInv
<1> QED  BY <1>1, Invariance, PTL

\* A kill at any step of any save leaves a file that can be read, unless the disk
\* was full (profile_store.hpp:164-178).
THEOREM FileWhole == Spec => []FileNeverPartial
<1>1. IInv => FileNeverPartial
  BY DEF IInv
<1> QED  BY <1>1, Invariance, PTL

\* What the window shows is in the file, unless it was edited by hand or could not
\* be written (main_window.hpp:312-387, profile_store.hpp:48-179).
THEOREM FileShown == Spec => []FileHoldsWhatIsShown
<1>1. IInv => FileHoldsWhatIsShown
  BY DEF IInv
<1> QED  BY <1>1, Invariance, PTL

=============================================================================
