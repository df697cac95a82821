----------------------------- MODULE SectionStore -----------------------------
(***************************************************************************)
(* FileManager (FileManager.h, FileManager.cpp): the list of stored        *)
(* sections against the files on the disk, with the handlers of the        *)
(* service thread that change either (saveTable, fullMemoryClear and       *)
(* decreaseData of InvertedIndex.h), one step per file operation or        *)
(* critical section.                                                       *)
(*                                                                         *)
(* A file name is the tuple of its parts.  STORING_PATH is "..\cache", with *)
(* no separator at its end: a file written as path + name stands beside    *)
(* the directory, its name beginning with the directory's; the pattern     *)
(* path + "*.*" finds the directory itself and every file whose name       *)
(* begins so; and what was found has that beginning in its name already    *)
(* when path + name is formed from it.                                     *)
(***************************************************************************)
EXTENDS Naturals, Sequences, FiniteSets, Functions, TLC

CONSTANTS
  OtherFiles,   \* what may be found beside the directory at the beginning
  Sizes,        \* the sizes a table may have, in memory and in a file
  MaxCapacity,  \* maxStoringCapacity
  MaxSaves      \* bound on the number of files written

ASSUME SizesAssumption == Sizes \subseteq Nat \ {0} /\ MaxCapacity \in Nat

\* Whatever else the pattern finds begins with the directory's name.
ASSUME OtherFilesAssumption ==
  \A n \in OtherFiles : /\ n = [i \in 1 .. Len(n) |-> n[i]]
                         /\ Len(n) \in Nat \ {0, 1} /\ n[1] = "cache"

VARIABLES
  disk,             \* the files and their sizes
  sections,         \* sectionsInfo: the files listed and their sizes
  capacity,         \* currentStoringCapacity
  clearInProcess,
  service,          \* what the service thread does next
  fileName,         \* local of saveTable
  found,            \* the list readSectionsInfo returns
  raised,           \* exceptionQueue
  saves             \* counts against MaxSaves

storeVars == <<disk, sections, capacity, clearInProcess, service, fileName, found, raised, saves>>

Directory == <<"cache">>
InStore(name) == Directory \o name

\* countFilesOfType looks for the type in the name, createSectionInfo takes what
\* precedes "-" for the type; a section is named "Section-0", "Section-1", ...
SectionName(n) == <<"Section", n>>
TypeOf(name) == SubSeq(name, 1, Len(name) - 1)
HasType(name, type) == \E i \in DOMAIN TypeOf(name) : name[i] = type

\* A directory holds finitely many files, and sections are the server's own: those that
\* are there when a process starts are there because an earlier one has saved them.
ASSUME OwnSectionsAssumption ==
  /\ IsFiniteSet(OtherFiles) /\ MaxSaves \in Nat
  /\ \A n \in OtherFiles : ~HasType(n, "Section")

NoFiles == [n \in {} |-> 0]
Total(files) == FoldFunction(+, 0, files)
countFilesOfType(type) == Cardinality({n \in DOMAIN sections : HasType(n, type)})

\* Slip: three entries are taken for "." and "..", and the directory itself.
Listed_Three(files) ==
  IF Cardinality(DOMAIN files) <= 3 THEN NoFiles
  ELSE Restrict(files, DOMAIN files \ {Directory})

\* readSectionsInfo: two entries are taken for "." and "..", of more the first, which
\* is the directory, is dropped.
Listed(files) ==
  IF Cardinality(DOMAIN files) <= 2 THEN NoFiles
  ELSE Restrict(files, DOMAIN files \ {Directory})

\* Slip: numbers begin after the count.
UnicName_Next == SectionName(countFilesOfType("Section") + 1)

\* getUnicName probes the working directory, not the storing path: the first
\* candidate is always free there.
getUnicName == SectionName(countFilesOfType("Section"))

StoreInit == /\ \E others \in SUBSET OtherFiles :
                  disk = [n \in others \cup {Directory} |-> IF n = Directory THEN 0 ELSE 1]
             /\ sections = Listed(disk)
             /\ capacity = Total(sections)
             /\ clearInProcess = FALSE
             /\ service = "idle"
             /\ fileName = <<>>
             /\ found = NoFiles
             /\ raised = {}
             /\ saves = 0

\* The process starts on the files another one has left.
StoreRestarts == /\ sections' = Listed(disk)
                 /\ capacity' = Total(Listed(disk))
                 /\ UNCHANGED disk

\* ... and ends wherever the service thread is.
StoreEnds == /\ clearInProcess' = FALSE
             /\ service' = "idle"
             /\ fileName' = <<>>
             /\ found' = NoFiles
             /\ raised' = {}
             /\ UNCHANGED <<disk, saves>>

(***************************************************************************)
(* The service thread.                                                     *)
(***************************************************************************)
\* The queue may drop an exception and repeat another (module InvertedIndex).
Take == /\ service = "idle"
        /\ \E e \in raised : /\ e = "MAX_TABLE" => saves < MaxSaves
                             /\ service' = e
        /\ raised' \in SUBSET raised
        /\ UNCHANGED <<disk, sections, capacity, clearInProcess, fileName, found, saves>>

\* saveTable: the name, and the capacity, which is complained about and not kept.
NameFile == /\ service = "MAX_TABLE"
            /\ fileName' = InStore(getUnicName)
            /\ \E size \in Sizes :
                 raised' = IF size + capacity >= MaxCapacity
                             THEN raised \cup {"MAX_MEMORY"} ELSE raised
            /\ service' = "create"
            /\ UNCHANGED <<disk, sections, capacity, clearInProcess, found, saves>>

\* HashTable::saveTable opens, and thereby truncates or creates, the file ...
CreateFile == /\ service = "create"
              /\ disk' = [n \in DOMAIN disk \cup {fileName} |-> IF n = fileName THEN 0 ELSE disk[n]]
              /\ service' = "write"
              /\ saves' = saves + 1
              /\ UNCHANGED <<sections, capacity, clearInProcess, fileName, found, raised>>

\* ... and writes the table.
WriteFile == /\ service = "write"
             /\ \E size \in Sizes : disk' = [disk EXCEPT ![fileName] = size]
             /\ service' = "read"
             /\ UNCHANGED <<sections, capacity, clearInProcess, fileName, found, raised, saves>>

readSectionsInfo == /\ service = "read"
                    /\ found' = Listed(disk)
                    /\ capacity' = Total(found')
                    /\ service' = "set"
                    /\ UNCHANGED <<disk, sections, clearInProcess, fileName, raised, saves>>

\* setSections assigns the list without a lock: it is torn until the step ends.
SetSections == /\ service = "set"
               /\ service' = "torn"
               /\ UNCHANGED <<disk, sections, capacity, clearInProcess, fileName, found, raised, saves>>

SectionsSet == /\ service = "torn"
               /\ sections' = found
               /\ found' = NoFiles
               /\ service' = IF fileName = <<>> THEN "clear" ELSE "cleartable"
               /\ fileName' = <<>>
               /\ UNCHANGED <<disk, capacity, clearInProcess, raised, saves>>

\* clearMemory and decreaseStoredData set the flag first and reset it last.
SetFlag == /\ service \in {"MAX_DICT", "MAX_MEMORY"}
           /\ clearInProcess' = TRUE
           /\ service' = IF service = "MAX_DICT" THEN "remove" ELSE "sort"
           /\ UNCHANGED <<disk, sections, capacity, fileName, found, raised, saves>>

\* Slip: the files are removed by the names found.
RemoveListed_ByName ==
  /\ service = "remove"
  /\ disk' = Restrict(disk, DOMAIN disk \ DOMAIN sections)
  /\ service' = "removed"
  /\ UNCHANGED <<sections, capacity, clearInProcess, fileName, found, raised, saves>>

\* clearMemory removes path + name for every file listed.
RemoveListed == /\ service = "remove"
                /\ disk' = Restrict(disk, DOMAIN disk \ {InStore(n) : n \in DOMAIN sections})
                /\ service' = "removed"
                /\ UNCHANGED <<sections, capacity, clearInProcess, fileName, found, raised, saves>>

\* decreaseStoredData first sorts the list, by size and in place; here a list has no order.
SortSections == /\ service = "sort"
                /\ service' = "decrease"
                /\ UNCHANGED <<disk, sections, capacity, clearInProcess, fileName, found, raised, saves>>

\* >= is no strict order: two files of one size make the sort undefined.  It sorts all the
\* same or, as in a debug build, finds the comparison invalid and ends the process.
SortUndefined == \E m, n \in DOMAIN sections : m # n /\ sections[m] = sections[n]

TooMuch(need) == Total(sections) + need >= MaxCapacity

\* Slip: the type is looked for in the name, as countFilesOfType does.
Deletable_InName == {n \in DOMAIN sections : HasType(n, "Section") /\ InStore(n) \notin DOMAIN disk}

\* deleteFileOfType drops files of type "Section" from the list if they are not found
\* where they are looked for.
Deletable == {n \in DOMAIN sections : TypeOf(n) = <<"Section">> /\ InStore(n) \notin DOMAIN disk}

\* ... then, while there is too much and something to delete, it erases.
DecreaseStored ==
  /\ service = "decrease"
  /\ \E need \in Sizes :
       sections' = IF TooMuch(need) /\ countFilesOfType("Section") > 0
                     THEN Restrict(sections, DOMAIN sections \ Deletable) ELSE sections
  /\ service' = "decreased"
  /\ UNCHANGED <<disk, capacity, clearInProcess, fileName, found, raised, saves>>

ResetFlag == /\ service \in {"removed", "decreased"}
             /\ clearInProcess' = FALSE
             /\ service' = IF service = "removed" THEN "read" ELSE "idle"
             /\ UNCHANGED <<disk, sections, capacity, fileName, found, raised, saves>>

StoreStep == \/ Take \/ NameFile \/ CreateFile \/ WriteFile \/ readSectionsInfo
             \/ SetSections \/ SectionsSet \/ SetFlag \/ RemoveListed \/ SortSections
             \/ DecreaseStored \/ ResetFlag

(***************************************************************************)
(* Another thread's getSections: the flag under its mutex, then the copy.  *)
(***************************************************************************)
\* The list is changed where it stands, without a lock: assigned (setSections), its items
\* moved about (sort) or erased (deleteFileOfType).
Changing == \/ service = "torn"
            \/ service = "sort" /\ Cardinality(DOMAIN sections) > 1
            \/ service = "decrease" /\ Deletable # {}

\* The names the copy may have: of a list that is changing, any that are there before or
\* after, for an item may be copied while it is empty.
Copies == IF Changing THEN SUBSET (DOMAIN sections \cup DOMAIN found) ELSE {DOMAIN sections}

\* loadItemValue reads into an empty text, from a file that is not where it looks for it,
\* and converts the text to a number: it throws for the first section it is asked.
LoadThrows(copy) == \E n \in copy : HasType(n, "Section")

(***************************************************************************)
(* Properties.                                                             *)
(***************************************************************************)
SectionsOnDisk == {n \in 0 .. MaxSaves : InStore(SectionName(n)) \in DOMAIN disk}

\* The sections on the disk are numbered 0, 1, ... without a gap, through every save,
\* clearing, shrinking and restart (getUnicName counts the list, not the files).
SectionsDense == SectionsOnDisk = 0 .. Cardinality(SectionsOnDisk) - 1

\* A save overwrites a section only when that section is all there is beside the
\* directory, so that readSectionsInfo takes the two for "." and "..".
OverwritesOnlyAlone ==
  [][service = "create" /\ service' = "write" /\ fileName \in DOMAIN disk
       => DOMAIN disk = {Directory, fileName}]_storeVars

\* The name getUnicName computes for a new file is unique in the store (InvertedIndex.h
\* says so; it is not: see OverwritesOnlyAlone for what does hold).
UnicNameFree == service = "create" => fileName \notin DOMAIN disk

\* All there is beside the directory.
Beside == Restrict(disk, DOMAIN disk \ {Directory})
=============================================================================
