---------------------------- MODULE ProfileStore ----------------------------
(***************************************************************************)
(* The saved connections: the YAML file, the copy the GUI loads at start   *)
(* and edits (core/profile_store.hpp), and the window's operations on it   *)
(* (ui/qt/main_window.hpp).  The file is also edited by hand, and the GUI  *)
(* may be killed between any two of the steps that write it.               *)
(*                                                                         *)
(* Of a profile the model keeps the name, by which everything finds it.    *)
(***************************************************************************)
EXTENDS Naturals, Sequences, SequencesExt

CONSTANTS
    Names,          \* what a connection may be called
    NoName,         \* nothing selected
    MaxProfiles,    \* connections in the store, at most
    MaxHandEdits,   \* hand edits of the file that are followed
    MayMalform      \* a hand edit may leave a file that is not YAML

ASSUME StoreAssumption ==
    /\ NoName \notin Names
    /\ {MaxProfiles, MaxHandEdits} \subseteq Nat
    /\ MayMalform \in BOOLEAN

VARIABLES
    file,        \* connections.yaml: its kind, and the profiles Load finds in it
    temporary,   \* connections.yaml.tmp, likewise
    running,     \* the GUI runs
    profiles,    \* ProfileStore::profiles
    selected,    \* the name of the list's current item
    saving,      \* where Persist is: "no", "open", "write" or "rename"
    handEdits,   \* hand edits so far
    current,     \* history: the file was last read or written by this GUI
    diskWasFull, \* history: the stream has failed while the file was written
    reported     \* history: this GUI told its user that the file is malformed

historyVars == <<current, diskWasFull, reported>>
vars == <<file, temporary, running, profiles, selected, saving, handEdits,
          historyVars>>

File(kind, list) == [kind |-> kind, list |-> list]
NoFile == File("missing", <<>>)
Kinds == {"missing", "malformed", "partial", "list"}

TypeOK ==
    /\ file.kind \in Kinds /\ file.list \in Seq(Names)
    /\ temporary.kind \in Kinds /\ temporary.list \in Seq(Names)
    /\ running \in BOOLEAN
    /\ profiles \in Seq(Names)
    /\ selected \in Names \cup {NoName}
    /\ saving \in {"no", "open", "write", "rename"}
    /\ handEdits \in 0..MaxHandEdits
    /\ current \in BOOLEAN
    /\ diskWasFull \in BOOLEAN
    /\ reported \in BOOLEAN

Init ==
    /\ file = NoFile
    /\ temporary = NoFile
    /\ running = FALSE
    /\ profiles = <<>>
    /\ selected = NoName
    /\ saving = "no"
    /\ handEdits = 0
    /\ current = FALSE
    /\ diskWasFull = FALSE
    /\ reported = FALSE

-----------------------------------------------------------------------------
\* A slip: the selection is kept whatever became of the list.
RefreshKeepsSelection(list) == UNCHANGED selected

\* RefreshProfileList, at the start and after each save, failed or not: it keeps
\* the selection if its name is still there, and selects the first otherwise.
Refresh(list) ==
    selected' = IF selected \in ToSet(list) THEN selected
                ELSE IF list = <<>> THEN NoName ELSE list[1]

\* Load: a missing file holds nothing, nor does one that cannot be parsed, which is
\* reported to the user.
Start ==
    /\ ~running
    /\ running' = TRUE
    /\ profiles' = file.list
    /\ Refresh(profiles')
    /\ current' = (file.kind \in {"missing", "list"})
    /\ reported' = (file.kind = "malformed")
    /\ UNCHANGED <<file, temporary, saving, handEdits, diskWasFull>>

\* The user edits the file: one more connection, or a mistake that makes it
\* unreadable.
EditByHand ==
    /\ handEdits < MaxHandEdits
    /\ handEdits' = handEdits + 1
    /\ \/ /\ file.kind \in {"missing", "list"}
          /\ Len(file.list) < MaxProfiles
          /\ \E name \in Names \ ToSet(file.list) :
               file' = File("list", Append(file.list, name))
       \/ /\ MayMalform
          /\ file.kind = "list"
          /\ file' = File("malformed", <<>>)
    /\ current' = FALSE
    /\ UNCHANGED <<temporary, running, profiles, selected, saving, diskWasFull,
                   reported>>

-----------------------------------------------------------------------------
(***************************************************************************)
(* The window's operations; each changes the list in memory, then calls    *)
(* Persist and refreshes what is shown.  No other operation overtakes it,  *)
(* for the window is busy, or modal with a warning.                        *)
(***************************************************************************)

Operation == running /\ saving = "no"

ThenPersist ==
    /\ saving' = "open"
    /\ UNCHANGED <<file, temporary, running, selected, handEdits, historyVars>>

AddProfile ==
    /\ Operation
    /\ Len(profiles) < MaxProfiles
    /\ \E name \in Names \ ToSet(profiles) :
         profiles' = Append(profiles, name)
    /\ ThenPersist

\* The store's first profile of the selected name.
IsSelected(i) ==
    /\ profiles[i] = selected
    /\ \A j \in 1..(i - 1) : profiles[j] # selected

EditProfile ==
    /\ Operation
    /\ \E i \in DOMAIN profiles : IsSelected(i)
         /\ \E name \in Names :
              profiles' = [profiles EXCEPT ![i] = name]
    /\ ThenPersist

\* std::remove_if: what is left keeps its order.
Without(list, name) ==
    LET left == {i \in DOMAIN list : list[i] # name} IN
    [k \in 1..Cardinality(left) |->
        list[CHOOSE i \in left : Cardinality(left \cap (1..i)) = k]]

\* A slip: the removal is not saved.
RemoveWithoutPersist ==
    /\ Operation
    /\ selected # NoName
    /\ profiles' = Without(profiles, selected)
    /\ Refresh(profiles')
    /\ UNCHANGED <<file, temporary, running, saving, handEdits, historyVars>>

\* Every profile of the selected name goes.
RemoveProfile ==
    /\ Operation
    /\ selected # NoName
    /\ profiles' = Without(profiles, selected)
    /\ ThenPersist

Select ==
    /\ Operation
    /\ selected' \in ToSet(profiles)
    /\ UNCHANGED <<file, temporary, running, profiles, saving, handEdits, historyVars>>

-----------------------------------------------------------------------------
(***************************************************************************)
(* Save: a temporary file is truncated, written and renamed over the file. *)
(***************************************************************************)

\* The temporary file cannot be opened: a warning, and the file is as it was.
OpenFails ==
    /\ saving = "open"
    /\ saving' = "no"
    /\ Refresh(profiles)
    /\ current' = FALSE
    /\ UNCHANGED <<file, temporary, running, profiles, handEdits, diskWasFull,
                   reported>>

\* A slip: the file itself is truncated.
TruncateFile ==
    /\ saving = "open"
    /\ saving' = "write"
    /\ file' = File("partial", <<>>)
    /\ UNCHANGED <<temporary, running, profiles, selected, handEdits, historyVars>>

OpenTemporary ==
    /\ saving = "open"
    /\ saving' = "write"
    /\ temporary' = File("partial", <<>>)
    /\ UNCHANGED <<file, running, profiles, selected, handEdits, historyVars>>

WriteTemporary ==
    /\ saving = "write"
    /\ saving' = "rename"
    /\ temporary' = File("list", profiles)
    /\ UNCHANGED <<file, running, profiles, selected, handEdits, historyVars>>

\* The disk is full: the stream fails, and nobody looks at it.  Of the list the
\* part stays that can still be parsed, if any.
WriteFails ==
    /\ saving = "write"
    /\ saving' = "rename"
    /\ diskWasFull' = TRUE
    /\ \E written \in Prefixes(profiles) : temporary' = File("partial", written)
    /\ UNCHANGED <<file, running, profiles, selected, handEdits, current, reported>>

\* A slip: the operation never becomes possible again.
RenameAndStaySaving ==
    /\ saving = "rename"
    /\ saving' = "renamed"
    /\ Refresh(profiles)
    /\ file' = temporary
    /\ temporary' = NoFile
    /\ current' = (temporary.kind = "list")
    /\ UNCHANGED <<running, profiles, handEdits, diskWasFull, reported>>

RenameTemporary ==
    /\ saving = "rename"
    /\ saving' = "no"
    /\ Refresh(profiles)
    /\ file' = temporary
    /\ temporary' = NoFile
    /\ current' = (temporary.kind = "list")
    /\ UNCHANGED <<running, profiles, handEdits, diskWasFull, reported>>

\* Save returns false: a warning, and the file is as it was.
RenameFails ==
    /\ saving = "rename"
    /\ saving' = "no"
    /\ Refresh(profiles)
    /\ current' = FALSE
    /\ UNCHANGED <<file, temporary, running, profiles, handEdits, diskWasFull,
                   reported>>

\* The GUI quits, or is killed in the middle of a save.
End ==
    /\ running
    /\ running' = FALSE
    /\ profiles' = <<>>
    /\ selected' = NoName
    /\ saving' = "no"
    /\ current' = FALSE
    /\ reported' = FALSE
    /\ UNCHANGED <<file, temporary, handEdits, diskWasFull>>

Next ==
    \/ Start \/ EditByHand \/ AddProfile \/ EditProfile \/ RemoveProfile
    \/ Select \/ OpenFails \/ OpenTemporary \/ WriteTemporary \/ WriteFails
    \/ RenameTemporary \/ RenameFails \/ End

Spec == Init /\ [][Next]_vars

-----------------------------------------------------------------------------
(***************************************************************************)
(* What the user is promised about the saved connections.                  *)
(***************************************************************************)

\* Whenever the GUI dies, the file is one that can be read: the one from before
\* the save or the one after it, unless the disk was full
\* (profile_store.hpp:164-178).
FileNeverPartial == file.kind = "partial" => diskWasFull

\* What the window shows is what the next start will show, unless the file was
\* edited by hand or could not be written
\* (main_window.hpp:312-387, profile_store.hpp:48-179).
FileHoldsWhatIsShown ==
    running /\ saving = "no" /\ current => file.list = profiles

\* The buttons act on a connection that exists, and while one exists one is
\* selected (main_window.hpp:389-443).
SelectionExists ==
    running /\ saving = "no" =>
        selected \in IF profiles = <<>> THEN {NoName} ELSE ToSet(profiles)

\* A file that Load found malformed, and that the user was told has been left
\* untouched, is not written by the GUI that said so
\* (profile_store.hpp:110-111, main_gui.cpp:104-110).
MalformedFileKept ==
    [][reported /\ file.kind = "malformed" => file' = file]_vars

=============================================================================
