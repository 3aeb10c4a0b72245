----------------------- MODULE CustomerDataFiles_proofs -----------------------
(***************************************************************************)
(* Proofs about CustomerDataFiles: its types, TimerHasFile, what clients   *)
(* see (ShownIsStoredOrUnset), PendingWriteKept and SelectedIsCurrent, for *)
(* every set of files, keys, fields and values.                            *)
(***************************************************************************)
EXTENDS CustomerDataFiles, TLAPS

(* A file that was selected is one entryList lists.                        *)
CurrentListed == m_currentCustomerFileName \in Listed \cup {NoFile}

(* Before a file was opened there is no document.                          *)
NoFileBlank == m_currentCustomerFileName = NoFile => m_currentCustomerDocument = Blank

IInv ==
    /\ FilesTypeOK
    /\ TimerHasFile
    /\ CurrentListed
    /\ NoFileBlank
    /\ ShownIsStoredOrUnset

----------------------------------------------------------------------------
(* What is not a document has no keys.                                     *)
LEMMA BlankKeys == Keys(Blank) = {}
BY FilesAssumption DEF Keys

(* Setting a field the document has leaves a document with the same keys.  *)
LEMMA DocumentSet ==
    ASSUME NEW document \in Document \cup {Blank}, NEW x \in Keys(document), NEW v \in Value
    PROVE  /\ document \in Document
           /\ [document EXCEPT ![x] = v] \in Document
           /\ Keys([document EXCEPT ![x] = v]) = Keys(document)
<1>1. document \in Document
  BY BlankKeys
<1>2. PICK keys \in SUBSET Key : document \in [keys -> JsonValue]
  BY <1>1 DEF Document
<1>3. [document EXCEPT ![x] = v] \in [keys -> JsonValue]
  BY <1>2, FilesAssumption
<1>4. [document EXCEPT ![x] = v] \in Document
  BY <1>3 DEF Document
<1> QED  BY <1>1, <1>2, <1>3, <1>4 DEF Keys

(* Parsing gives a document or nothing.                                    *)
LEMMA ParsedType == \A content : fromJson(content) \in Document \cup {Blank}
BY DEF fromJson

(* What is published are strings: those of the document where it has the   *)
(* field, and what was shown elsewhere.                                    *)
LEMMA PublishedType ==
    ASSUME NEW document, NEW shown \in [Field -> Value]
    PROVE  /\ Published(document, shown) \in [Field -> Value]
           /\ \A x \in Field \cap Keys(document) :
                 Published(document, shown)[x] = toString(document[x])
BY FilesAssumption DEF Published, toString

(* The default of a list that is not empty is in it.                       *)
LEMMA DefaultListed ==
    ASSUME NEW list \in SUBSET Listed
    PROVE  /\ list # {} => DefaultFile(list) \in list
           /\ list = {} => DefaultFile(list) = NoFile
BY FilesAssumption DEF DefaultFile

(* What the directory can be.                                            *)
Directory == [File -> Content]

(* Parsing keeps the invariant; the name stays or becomes the file parsed. *)
LEMMA ParseKeeps ==
    ASSUME NEW f \in Listed \cup {NoFile}, NEW d,
           IInv, parseCustomerDataFile(f, d)
    PROVE  /\ m_currentCustomerDocument' \in Document \cup {Blank}
           /\ component' \in [Field -> Value]
           /\ CurrentListed'
           /\ NoFileBlank'
           /\ ShownIsStoredOrUnset'
           /\ m_currentCustomerFileName \in File => m_currentCustomerFileName' \in File
<1>1. CASE Readable(f, d)
  <2>1. fromJson(d[f]) \in Document \cup {Blank}
    BY ParsedType
  <2>2. component \in [Field -> Value]
    BY DEF IInv, FilesTypeOK
  <2>3. /\ m_currentCustomerFileName' = f
        /\ m_currentCustomerDocument' = fromJson(d[f])
        /\ component' = Published(fromJson(d[f]), component)
    BY <1>1 DEF parseCustomerDataFile
  <2>4. f \in File
    BY <1>1 DEF Readable, Exists
  <2> QED  BY <2>1, <2>2, <2>3, <2>4, PublishedType, FilesAssumption
           DEF CurrentListed, NoFileBlank, ShownIsStoredOrUnset
<1>2. CASE ~Readable(f, d)
  <2>1. /\ component' = [x \in Field |-> Empty]
        /\ UNCHANGED <<m_currentCustomerFileName, m_currentCustomerDocument>>
    BY <1>2 DEF parseCustomerDataFile
  <2>2. component' \in [Field -> Value]
    BY <2>1, FilesAssumption
  <2> QED  BY <2>1, <2>2
           DEF IInv, FilesTypeOK, CurrentListed, NoFileBlank, ShownIsStoredOrUnset
<1> QED  BY <1>1, <1>2

(* Writing leaves a directory, and where it takes the write the document   *)
(* is in the file.                                                         *)
LEMMA WriteKeeps ==
    ASSUME IInv, NEW d \in writeCustomerdata
    PROVE  /\ d \in Directory
           /\ (~MayFail /\ m_currentCustomerFileName \in File) =>
                 d[m_currentCustomerFileName] \in {m_currentCustomerDocument, Unreadable}
<1>1. /\ m_currentCustomerDocument \in Content
      /\ disk \in Directory
  BY DEF IInv, FilesTypeOK, Directory, Content
<1>2. CASE d = disk /\ MayFail
  BY <1>1, <1>2
<1>3. CASE d = [disk EXCEPT ![m_currentCustomerFileName] =
                  IF @ = Unreadable THEN @ ELSE m_currentCustomerDocument]
  BY <1>1, <1>3 DEF Directory
<1> QED  BY <1>2, <1>3 DEF writeCustomerdata

----------------------------------------------------------------------------
(* What updateCustomerDataFileList on the new directory leaves.            *)
LEMMA UpdateKeeps ==
    ASSUME IInv, disk' \in Directory, updateCustomerDataFileList(disk'),
           directoryChanged' \in BOOLEAN, UNCHANGED m_dataWriteDelay
    PROVE  IInv'
<1> DEFINE list == entryList(disk')
<1>1. list \subseteq Listed /\ m_fileList' = list
  BY DEF updateCustomerDataFileList, entryList
<1>2. CASE m_fileList' # m_fileList /\ m_currentCustomerFileName \notin m_fileList'
  <2>1. /\ fileSelected' = DefaultFile(list)
        /\ parseCustomerDataFile(DefaultFile(list), disk')
    BY <1>1, <1>2 DEF updateCustomerDataFileList
  <2>2. DefaultFile(list) \in Listed \cup {NoFile}
    BY <1>1, DefaultListed
  <2>3. /\ m_currentCustomerDocument' \in Document \cup {Blank}
        /\ component' \in [Field -> Value]
        /\ CurrentListed'
        /\ NoFileBlank'
        /\ ShownIsStoredOrUnset'
        /\ m_currentCustomerFileName \in File => m_currentCustomerFileName' \in File
    BY <2>1, <2>2, ParseKeeps
  <2> QED  BY <1>1, <2>1, <2>2, <2>3, FilesAssumption
           DEF IInv, FilesTypeOK, TimerHasFile, CurrentListed, Directory
<1>3. CASE ~(m_fileList' # m_fileList /\ m_currentCustomerFileName \notin m_fileList')
  <2>1. UNCHANGED <<m_currentCustomerFileName, m_currentCustomerDocument, component,
                    fileSelected>>
    BY <1>3 DEF updateCustomerDataFileList
  <2> QED  BY <1>1, <2>1 DEF IInv, FilesTypeOK, TimerHasFile, CurrentListed, Directory,
                             NoFileBlank, ShownIsStoredOrUnset
<1> QED  BY <1>2, <1>3

(* The initial state satisfies the invariant.                              *)
LEMMA FilesStart == ASSUME FilesInit PROVE IInv
<1> DEFINE list == entryList(disk)
           f == DefaultFile(list)
<1>1. list \subseteq Listed
  BY DEF entryList
<1>2. disk \in Directory
  <2>1. Outside \cup {Absent} \subseteq Content
    BY FilesAssumption DEF Content
  <2>2. disk \in [File -> Outside \cup {Absent}]
    BY DEF FilesInit
  <2> QED  BY <2>1, <2>2 DEF Directory
<1>3. /\ m_fileList = list
      /\ m_dataWriteDelay = FALSE
      /\ directoryChanged = FALSE
      /\ m_currentCustomerFileName \in {f, NoFile}
      /\ fileSelected = f
      /\ m_currentCustomerDocument \in {fromJson(disk[f]), Blank}
      /\ NoFileBlank
      /\ component = Published(m_currentCustomerDocument, [x \in Field |-> Empty])
  BY FilesAssumption DEF FilesInit, NoFileBlank, Readable, Exists
<1>4. m_currentCustomerDocument \in Document \cup {Blank}
  BY <1>3, ParsedType
<1>5. f \in Listed \cup {NoFile}
  BY <1>1, DefaultListed
<1> HIDE DEF f, list
<1>6. [x \in Field |-> Empty] \in [Field -> Value]
  BY FilesAssumption
<1>7. component \in [Field -> Value] /\ ShownIsStoredOrUnset
  BY <1>3, <1>6, PublishedType DEF ShownIsStoredOrUnset
<1>8. FilesTypeOK
  BY <1>1, <1>2, <1>3, <1>4, <1>5, <1>7, FilesAssumption DEF FilesTypeOK, Directory
<1> QED  BY <1>3, <1>5, <1>7, <1>8 DEF IInv, TimerHasFile, CurrentListed

----------------------------------------------------------------------------
(* Selecting a file.                                                       *)
LEMMA SelectKeeps ==
    ASSUME IInv, NEW f \in File, SelectFile(f)
    PROVE  IInv'
<1>1. /\ m_dataWriteDelay' = FALSE
      /\ m_fileList' = m_fileList
      /\ directoryChanged' \in BOOLEAN
  BY DEF SelectFile, IInv, FilesTypeOK
<1>2. disk' \in Directory
  <2>1. disk' \in writeCustomerdata \/ disk' = disk
    BY DEF SelectFile
  <2> QED  BY <2>1, WriteKeeps DEF IInv, FilesTypeOK, Directory
<1>3. CASE Lower[f] \in m_fileList
  <2>1. /\ parseCustomerDataFile(Lower[f], disk')
        /\ fileSelected' = IF ParseSucceeds(Lower[f], disk') THEN f ELSE fileSelected
    BY <1>3 DEF SelectFile
  <2>2. Lower[f] \in Listed \cup {NoFile}
    BY <1>3 DEF IInv, FilesTypeOK
  <2>3. /\ m_currentCustomerDocument' \in Document \cup {Blank}
        /\ component' \in [Field -> Value]
        /\ CurrentListed'
        /\ NoFileBlank'
        /\ ShownIsStoredOrUnset'
    BY <2>1, <2>2, ParseKeeps
  <2> QED  BY <1>1, <1>2, <2>1, <2>3, FilesAssumption
           DEF IInv, FilesTypeOK, TimerHasFile, CurrentListed, Directory
<1>4. CASE Lower[f] \notin m_fileList
  <2>1. UNCHANGED <<m_currentCustomerFileName, m_currentCustomerDocument, component,
                    fileSelected>>
    BY <1>4 DEF SelectFile
  <2> QED  BY <1>1, <1>2, <2>1 DEF IInv, FilesTypeOK, TimerHasFile, CurrentListed, Directory,
                                   NoFileBlank, ShownIsStoredOrUnset
<1> QED  BY <1>3, <1>4

(* Setting a data component.                                               *)
LEMMA SetKeeps ==
    ASSUME IInv, NEW x \in Field, NEW v \in Value, SetField(x, v)
    PROVE  IInv'
<1>1. /\ component' = [component EXCEPT ![x] = v]
      /\ UNCHANGED <<disk, directoryChanged, m_fileList, m_currentCustomerFileName,
                     fileSelected>>
  BY DEF SetField
<1>2. component \in [Field -> Value] /\ component' \in [Field -> Value]
  BY <1>1 DEF IInv, FilesTypeOK
<1>3. m_currentCustomerDocument \in Document \cup {Blank}
  BY DEF IInv, FilesTypeOK
<1>4. CASE m_currentCustomerFileName # NoFile /\ x \in Keys(m_currentCustomerDocument)
  <2>1. /\ m_currentCustomerDocument' = [m_currentCustomerDocument EXCEPT ![x] = v]
        /\ m_dataWriteDelay' = TRUE
    BY <1>4 DEF SetField
  <2>2. /\ m_currentCustomerDocument \in Document
        /\ m_currentCustomerDocument' \in Document
        /\ Keys(m_currentCustomerDocument') = Keys(m_currentCustomerDocument)
    BY <1>3, <1>4, <2>1, DocumentSet
  <2>3. ASSUME NEW y \in Field \cap Keys(m_currentCustomerDocument)
        PROVE  component'[y] \in {toString(m_currentCustomerDocument'[y]), Empty}
    <3>1. y \in DOMAIN m_currentCustomerDocument
      BY <2>2 DEF Keys
    <3>2. component[y] \in {toString(m_currentCustomerDocument[y]), Empty}
      BY DEF IInv, ShownIsStoredOrUnset
    <3>3. CASE y = x
      BY <1>1, <1>2, <2>1, <3>1, <3>3 DEF toString
    <3>4. CASE y # x
      BY <1>1, <1>2, <2>1, <3>1, <3>2, <3>4
    <3> QED  BY <3>3, <3>4
  <2>4. ShownIsStoredOrUnset'
    BY <2>2, <2>3 DEF ShownIsStoredOrUnset
  <2> QED  BY <1>1, <1>2, <1>4, <2>1, <2>2, <2>4, FilesAssumption
           DEF IInv, FilesTypeOK, TimerHasFile, CurrentListed, NoFileBlank
<1>5. CASE ~(m_currentCustomerFileName # NoFile /\ x \in Keys(m_currentCustomerDocument))
  <2>1. UNCHANGED <<m_currentCustomerDocument, m_dataWriteDelay>>
    BY <1>5 DEF SetField
  <2>2. m_currentCustomerFileName = NoFile => Keys(m_currentCustomerDocument) = {}
    BY BlankKeys DEF IInv, NoFileBlank
  <2>3. x \notin Keys(m_currentCustomerDocument)
    BY <1>5, <2>2
  <2>4. ShownIsStoredOrUnset'
    BY <1>1, <1>2, <2>1, <2>3 DEF IInv, ShownIsStoredOrUnset
  <2> QED  BY <1>1, <1>2, <2>1, <2>4
           DEF IInv, FilesTypeOK, TimerHasFile, CurrentListed, NoFileBlank
<1> QED  BY <1>4, <1>5

(* The write timer runs out.                                               *)
LEMMA TimeoutKeeps ==
    ASSUME IInv, WriteTimeout
    PROVE  IInv'
<1>1. /\ m_dataWriteDelay' = FALSE
      /\ directoryChanged' = TRUE
      /\ disk' \in writeCustomerdata
      /\ UNCHANGED <<m_fileList, m_currentCustomerFileName, m_currentCustomerDocument,
                     component, fileSelected>>
  BY DEF WriteTimeout
<1>2. disk' \in Directory
  BY <1>1, WriteKeeps
<1> QED  BY <1>1, <1>2 DEF IInv, FilesTypeOK, TimerHasFile, CurrentListed, Directory,
                           NoFileBlank, ShownIsStoredOrUnset

(* What customerDataAdd puts in a new file.                                *)
LEMMA NewContent == [x \in Field |-> Empty] \in Document
BY FilesAssumption DEF Document

(* The procedures, when they change the directory and when they do not.    *)
LEMMA ProcedureKeeps ==
    ASSUME IInv, NEW f \in File, customerDataAdd(f) \/ customerDataRemove(f)
    PROVE  IInv'
<1>1. UNCHANGED m_dataWriteDelay
  BY DEF customerDataAdd, customerDataRemove
<1>2. CASE UNCHANGED <<disk, directoryChanged, m_fileList, m_currentCustomerFileName,
                       m_currentCustomerDocument, component, fileSelected>>
  BY <1>1, <1>2 DEF IInv, FilesTypeOK, TimerHasFile, CurrentListed, NoFileBlank,
                    ShownIsStoredOrUnset
<1>3. CASE /\ directoryChanged' = TRUE
           /\ updateCustomerDataFileList(disk')
           /\ \E g \in File : \E content \in Content : disk' = [disk EXCEPT ![g] = content]
  <2>1. disk' \in Directory
    BY <1>3 DEF IInv, FilesTypeOK, Directory
  <2> QED  BY <1>1, <1>3, <2>1, UpdateKeeps
<1>4. {[x \in Field |-> Empty], Blank, Broken, Absent} \subseteq Content
  BY NewContent DEF Content
<1>5. Lower[f] \in File
  BY FilesAssumption
<1> QED  BY <1>2, <1>3, <1>4, <1>5 DEF customerDataAdd, customerDataRemove

(* Every step keeps the invariant.                                         *)
LEMMA FilesStepKeeps ==
    ASSUME IInv, [FilesNext]_fileVars
    PROVE  IInv'
<1>1. CASE UNCHANGED fileVars
  BY <1>1 DEF fileVars, IInv, FilesTypeOK, TimerHasFile, CurrentListed, NoFileBlank,
              ShownIsStoredOrUnset
<1>2. ASSUME NEW f \in File, SelectFile(f) \/ customerDataAdd(f) \/ customerDataRemove(f)
      PROVE  IInv'
  BY <1>2, SelectKeeps, ProcedureKeeps
<1>3. ASSUME NEW x \in Field, NEW v \in Value, SetField(x, v)
      PROVE  IInv'
  BY <1>3, SetKeeps
<1>4. CASE WriteTimeout
  BY <1>4, TimeoutKeeps
<1>5. CASE DirectoryChanged
  <2>1. /\ directoryChanged' = FALSE
        /\ updateCustomerDataFileList(disk)
        /\ disk' = disk
        /\ UNCHANGED m_dataWriteDelay
    BY <1>5 DEF DirectoryChanged
  <2>2. disk' \in Directory /\ updateCustomerDataFileList(disk')
    BY <2>1 DEF IInv, FilesTypeOK, Directory
  <2> QED  BY <2>1, <2>2, UpdateKeeps
<1>6. ASSUME NEW f \in File, NEW content \in Content,
             disk' = [disk EXCEPT ![f] = content], directoryChanged' \in BOOLEAN,
             UNCHANGED <<m_fileList, m_currentCustomerFileName, m_currentCustomerDocument,
                         m_dataWriteDelay, component, fileSelected>>
      PROVE  IInv'
  BY <1>6 DEF IInv, FilesTypeOK, TimerHasFile, CurrentListed, NoFileBlank,
              ShownIsStoredOrUnset
<1>7. ASSUME NEW f \in File, NEW content \in Outside, OutsideWrite(f, content)
      PROVE  IInv'
  <2>1. content \in Content
    BY FilesAssumption DEF Content
  <2> QED  BY <1>6, <1>7, <2>1 DEF OutsideWrite, IInv, FilesTypeOK
<1>8. ASSUME NEW f \in File, OutsideRemove(f)
      PROVE  IInv'
  <2>1. Absent \in Content
    BY DEF Content
  <2> QED  BY <1>6, <1>8, <2>1 DEF OutsideRemove
<1> QED  BY <1>1, <1>2, <1>3, <1>4, <1>5, <1>7, <1>8 DEF FilesNext

----------------------------------------------------------------------------
LEMMA FilesInvariance == FilesSpec => []IInv
<1>1. FilesInit => IInv
  BY FilesStart
<1>2. IInv /\ [FilesNext]_fileVars => IInv'
  BY FilesStepKeeps
<1> QED  BY <1>1, <1>2, PTL DEF FilesSpec

(* Every variable keeps its type, for every directory.                     *)
THEOREM FilesCorrect == FilesSpec => []FilesTypeOK
<1>1. IInv => FilesTypeOK
  BY DEF IInv
<1> QED  BY <1>1, FilesInvariance, PTL

(* The write timer never fires without a file, whatever clients and others *)
(* do.                                                                     *)
THEOREM TimerCorrect == FilesSpec => []TimerHasFile
<1>1. IInv => TimerHasFile
  BY DEF IInv
<1> QED  BY <1>1, FilesInvariance, PTL

(* Whatever others do to the files and whatever the disk refuses, a field  *)
(* the current document has shows what the document holds, or nothing.     *)
THEOREM ShownCorrect == FilesSpec => []ShownIsStoredOrUnset
<1>1. IInv => ShownIsStoredOrUnset
  BY DEF IInv
<1> QED  BY <1>1, FilesInvariance, PTL


(* A step that changes the list leaves the file with the pending write     *)
(* current, or that file is gone.                                          *)
LEMMA UpdateKeepsPending ==
    ASSUME IInv, m_currentCustomerFileName \in File, updateCustomerDataFileList(disk')
    PROVE  \/ m_currentCustomerFileName' = m_currentCustomerFileName
           \/ disk'[m_currentCustomerFileName] = Absent
<1>1. CASE m_fileList' # m_fileList /\ m_currentCustomerFileName \notin m_fileList'
  <2>1. m_currentCustomerFileName \in Listed
    BY FilesAssumption DEF IInv, CurrentListed
  <2>2. m_fileList' = entryList(disk')
    BY DEF updateCustomerDataFileList
  <2> QED  BY <1>1, <2>1, <2>2 DEF entryList
<1>2. CASE ~(m_fileList' # m_fileList /\ m_currentCustomerFileName \notin m_fileList')
  BY <1>2 DEF updateCustomerDataFileList
<1> QED  BY <1>1, <1>2

(* PendingWriteKept: on a disk that takes its writes, a pending write is   *)
(* made or stays pending, or its file is gone or cannot be opened.         *)
THEOREM PendingCorrect ==
    ASSUME ~MayFail
    PROVE  FilesSpec => PendingWriteKept
<1> DEFINE Made == {m_currentCustomerDocument, Unreadable, Absent}
           Kept ==
      (m_dataWriteDelay /\ m_currentCustomerFileName \in File) =>
          \/ m_dataWriteDelay' /\ m_currentCustomerFileName' = m_currentCustomerFileName
          \/ disk'[m_currentCustomerFileName] \in Made
<1>1. ASSUME IInv, [FilesNext]_fileVars PROVE [Kept]_fileVars
  <2> SUFFICES ASSUME FilesNext, m_dataWriteDelay, m_currentCustomerFileName \in File
               PROVE  \/ m_dataWriteDelay' /\ m_currentCustomerFileName' = m_currentCustomerFileName
                      \/ disk'[m_currentCustomerFileName] \in Made
    BY <1>1
  <2>1. \A d \in writeCustomerdata : d[m_currentCustomerFileName] \in Made
    BY <1>1, WriteKeeps
  <2>2. ASSUME updateCustomerDataFileList(disk'), UNCHANGED m_dataWriteDelay
        PROVE  \/ m_dataWriteDelay' /\ m_currentCustomerFileName' = m_currentCustomerFileName
               \/ disk'[m_currentCustomerFileName] \in Made
    BY <1>1, <2>2, UpdateKeepsPending
  <2>3. CASE \E f \in File : SelectFile(f)
    BY <2>1, <2>3 DEF SelectFile
  <2>4. CASE \E f \in File : customerDataAdd(f) \/ customerDataRemove(f)
    BY <2>2, <2>4 DEF customerDataAdd, customerDataRemove
  <2>5. CASE \E x \in Field, v \in Value : SetField(x, v)
    BY <2>5 DEF SetField
  <2>6. CASE WriteTimeout
    BY <2>1, <2>6 DEF WriteTimeout
  <2>7. CASE DirectoryChanged
    <3>1. disk' = disk /\ updateCustomerDataFileList(disk) /\ UNCHANGED m_dataWriteDelay
      BY <2>7 DEF DirectoryChanged
    <3>2. updateCustomerDataFileList(disk')
      BY <3>1
    <3> QED  BY <2>2, <3>1, <3>2
  <2>8. CASE \/ \E f \in File, content \in Outside : OutsideWrite(f, content)
            \/ \E f \in File : OutsideRemove(f)
    BY <2>8 DEF OutsideWrite, OutsideRemove
  <2> QED  BY <2>3, <2>4, <2>5, <2>6, <2>7, <2>8 DEF FilesNext
<1>2. FilesInit => IInv
  BY FilesStart
<1>3. IInv /\ [FilesNext]_fileVars => IInv'
  BY FilesStepKeeps
<1> QED  BY <1>1, <1>2, <1>3, PTL DEF FilesSpec, PendingWriteKept

(***************************************************************************)
(* SelectedIsCurrent needs files that can all be used: then the document   *)
(* in the memory can be used too, and no selection is refused half-way.    *)
(***************************************************************************)
Usable(content) == content = Absent \/ Keys(content) # {}

AllUsable == \A content \in Outside : content \in Document /\ Keys(content) # {}

WInv ==
    /\ IInv
    /\ \A f \in File : Usable(disk[f])
    /\ m_dataWriteDelay => Keys(m_currentCustomerDocument) # {}
    /\ SelectedIsCurrent

(* Such a file can be read, and parsing gives what is in it.               *)
LEMMA UsableIsParsed ==
    ASSUME NEW d, NEW f \in File, Usable(d[f]), d[f] # Absent
    PROVE  Readable(f, d) /\ fromJson(d[f]) = d[f] /\ Keys(d[f]) # {}
BY FilesAssumption DEF Usable, Keys, fromJson, Readable, Exists

(* The list is read again: the file that takes the place of the current    *)
(* one is announced.                                                       *)
LEMMA UpdateKeepsSelection ==
    ASSUME WInv, disk' \in Directory, \A f \in File : Usable(disk'[f]),
           updateCustomerDataFileList(disk'), UNCHANGED m_dataWriteDelay
    PROVE  /\ m_dataWriteDelay' => Keys(m_currentCustomerDocument') # {}
           /\ SelectedIsCurrent'
<1> DEFINE list == entryList(disk')
           f == DefaultFile(list)
<1>1. CASE m_fileList' # m_fileList /\ m_currentCustomerFileName \notin m_fileList'
  <2>1. m_fileList' = list /\ fileSelected' = f /\ parseCustomerDataFile(f, disk')
    BY <1>1 DEF updateCustomerDataFileList
  <2>2. list \in SUBSET Listed /\ \A g \in list : disk'[g] # Absent /\ g \in File
    BY FilesAssumption DEF entryList
  <2>3. CASE list = {}
    <3>1. f = NoFile /\ f \notin File
      BY <2>2, <2>3, DefaultListed, FilesAssumption
    <3>2. UNCHANGED m_currentCustomerDocument
      BY <2>1, <3>1 DEF parseCustomerDataFile, Readable, Exists
    <3> QED  BY <2>1, <3>1, <3>2 DEF WInv, SelectedIsCurrent
  <2>4. CASE list # {}
    <3>1. f \in File /\ disk'[f] # Absent
      BY <2>2, <2>4, DefaultListed
    <3>2. Readable(f, disk') /\ fromJson(disk'[f]) = disk'[f] /\ Keys(disk'[f]) # {}
      BY <3>1, UsableIsParsed
    <3>3. m_currentCustomerFileName' = f /\ m_currentCustomerDocument' = disk'[f]
      BY <2>1, <3>2 DEF parseCustomerDataFile
    <3> HIDE DEF f
    <3> QED  BY <2>1, <3>2, <3>3 DEF SelectedIsCurrent
  <2> QED  BY <2>3, <2>4
<1>2. CASE ~(m_fileList' # m_fileList /\ m_currentCustomerFileName \notin m_fileList')
  <2>1. UNCHANGED <<m_currentCustomerFileName, m_currentCustomerDocument, fileSelected>>
    BY <1>2 DEF updateCustomerDataFileList
  <2> QED  BY <2>1 DEF WInv, SelectedIsCurrent
<1> QED  BY <1>1, <1>2

(* A write puts a document there that can be used.                         *)
LEMMA WriteKeepsUsable ==
    ASSUME WInv, m_dataWriteDelay, NEW d \in writeCustomerdata
    PROVE  \A f \in File : Usable(d[f])
<1>1. disk \in [File -> Content]
  BY DEF WInv, IInv, FilesTypeOK
<1>2. \A f \in File : d[f] \in {disk[f], m_currentCustomerDocument}
  BY <1>1 DEF writeCustomerdata
<1> QED  BY <1>2 DEF WInv, Usable

LEMMA SelectionStep ==
    ASSUME Field # {}, AllUsable, ~MayFail, WInv, [FilesNext]_fileVars
    PROVE  WInv'
<1>1. IInv'
  BY FilesStepKeeps DEF WInv
<1>2. disk \in Directory /\ disk' \in Directory
  BY <1>1 DEF WInv, IInv, FilesTypeOK, Directory
<1>3. ASSUME UNCHANGED <<m_currentCustomerFileName, m_currentCustomerDocument, fileSelected>>,
             m_dataWriteDelay' => m_dataWriteDelay, \A f \in File : Usable(disk'[f])
      PROVE  WInv'
  BY <1>1, <1>3 DEF WInv, SelectedIsCurrent
<1>4. ASSUME updateCustomerDataFileList(disk'), UNCHANGED m_dataWriteDelay,
             \A f \in File : Usable(disk'[f])
      PROVE  WInv'
  BY <1>1, <1>2, <1>4, UpdateKeepsSelection DEF WInv
<1>5. ASSUME NEW f \in File, SelectFile(f) PROVE WInv'
  <2>1. m_dataWriteDelay' = FALSE
        /\ disk' \in IF m_dataWriteDelay THEN writeCustomerdata ELSE {disk}
    BY <1>5 DEF SelectFile
  <2>2. \A g \in File : Usable(disk'[g])
    BY <2>1, WriteKeepsUsable DEF WInv
  <2>3. Lower[f] \in File
    BY FilesAssumption
  <2>4. CASE Lower[f] \in m_fileList /\ disk'[Lower[f]] # Absent
    <3>1. /\ Readable(Lower[f], disk')
          /\ Keys(fromJson(disk'[Lower[f]])) # {}
      BY <2>2, <2>3, <2>4, UsableIsParsed
    <3>2. m_currentCustomerFileName' = Lower[f] /\ fileSelected' = f
      BY <1>5, <2>4, <3>1 DEF SelectFile, parseCustomerDataFile, ParseSucceeds
    <3> QED  BY <1>1, <2>1, <2>2, <3>2 DEF WInv, SelectedIsCurrent
  <2>5. CASE ~(Lower[f] \in m_fileList /\ disk'[Lower[f]] # Absent)
    <3>1. UNCHANGED <<m_currentCustomerFileName, m_currentCustomerDocument, fileSelected>>
      BY <1>5, <2>5 DEF SelectFile, parseCustomerDataFile, ParseSucceeds, Readable, Exists
    <3> QED  BY <1>3, <2>1, <2>2, <3>1
  <2> QED  BY <2>4, <2>5
<1>6. ASSUME NEW f \in File, customerDataAdd(f) PROVE WInv'
  <2>1. CASE UNCHANGED <<disk, m_currentCustomerFileName, m_currentCustomerDocument,
                         fileSelected>>
    BY <1>3, <1>6, <2>1 DEF customerDataAdd, WInv
  <2>2. CASE /\ disk' = [disk EXCEPT ![Lower[f]] = [x \in Field |-> Empty]]
             /\ updateCustomerDataFileList(disk')
    <3>1. Keys([x \in Field |-> Empty]) # {}
      BY NewContent DEF Keys
    <3>2. \A g \in File : Usable(disk'[g])
      BY <1>2, <2>2, <3>1 DEF WInv, Usable, Directory
    <3> QED  BY <1>4, <1>6, <2>2, <3>2 DEF customerDataAdd
  <2> QED  BY <1>6, <2>1, <2>2 DEF customerDataAdd
<1>7. ASSUME NEW f \in File, customerDataRemove(f) PROVE WInv'
  <2>1. CASE UNCHANGED <<disk, m_currentCustomerFileName, m_currentCustomerDocument,
                         fileSelected>>
    BY <1>3, <1>7, <2>1 DEF customerDataRemove, WInv
  <2>2. CASE /\ disk' = [disk EXCEPT ![f] = Absent]
             /\ updateCustomerDataFileList(disk')
    <3>1. \A g \in File : Usable(disk'[g])
      BY <1>2, <2>2 DEF WInv, Usable, Directory
    <3> QED  BY <1>4, <1>7, <2>2, <3>1 DEF customerDataRemove
  <2> QED  BY <1>7, <2>1, <2>2 DEF customerDataRemove
<1>8. ASSUME NEW x \in Field, NEW v \in Value, SetField(x, v) PROVE WInv'
  <2>1. UNCHANGED <<disk, m_currentCustomerFileName, fileSelected>>
    BY <1>8 DEF SetField
  <2>2. m_dataWriteDelay' => Keys(m_currentCustomerDocument') # {}
    <3>1. m_currentCustomerDocument \in Document \cup {Blank}
      BY DEF WInv, IInv, FilesTypeOK
    <3>2. ASSUME x \in Keys(m_currentCustomerDocument)
          PROVE  Keys([m_currentCustomerDocument EXCEPT ![x] = v])
                    = Keys(m_currentCustomerDocument)
      BY <3>1, <3>2, DocumentSet
    <3> QED  BY <1>8, <3>2 DEF SetField, WInv
  <2> QED  BY <1>1, <2>1, <2>2 DEF WInv, SelectedIsCurrent
<1>9. CASE WriteTimeout
  BY <1>3, <1>9, WriteKeepsUsable DEF WriteTimeout
<1>10. CASE DirectoryChanged
  <2>1. disk' = disk /\ updateCustomerDataFileList(disk) /\ UNCHANGED m_dataWriteDelay
    BY <1>10 DEF DirectoryChanged
  <2>2. updateCustomerDataFileList(disk')
    BY <2>1
  <2> QED  BY <1>4, <2>1, <2>2 DEF WInv
<1>11. ASSUME NEW f \in File, NEW content \in Outside, OutsideWrite(f, content)
       PROVE  WInv'
  <2>1. \A g \in File : Usable(disk'[g])
    BY <1>2, <1>11 DEF OutsideWrite, AllUsable, WInv, Usable, Directory
  <2> QED  BY <1>3, <1>11, <2>1 DEF OutsideWrite
<1>12. ASSUME NEW f \in File, OutsideRemove(f) PROVE WInv'
  <2>1. \A g \in File : Usable(disk'[g])
    BY <1>2, <1>12 DEF OutsideRemove, WInv, Usable, Directory
  <2> QED  BY <1>3, <1>12, <2>1 DEF OutsideRemove
<1>13. CASE UNCHANGED fileVars
  BY <1>3, <1>13 DEF fileVars, WInv
<1> QED  BY <1>5, <1>6, <1>7, <1>8, <1>9, <1>10, <1>11, <1>12, <1>13 DEF FilesNext

(* While every file there can be used, FileSelected names the file changes *)
(* go to.                                                                  *)
THEOREM SelectedCorrect ==
    ASSUME Field # {}, AllUsable, ~MayFail
    PROVE  FilesSpec => []SelectedIsCurrent
<1>1. FilesInit => WInv
  <2> SUFFICES ASSUME FilesInit PROVE WInv
    OBVIOUS
  <2>1. \A f \in File : Usable(disk[f])
    <3>1. disk \in [File -> Outside \cup {Absent}]
      BY DEF FilesInit
    <3> QED  BY <3>1 DEF Usable, AllUsable
  <2>2. ASSUME fileSelected \in File PROVE m_currentCustomerFileName = fileSelected
    <3> DEFINE f == DefaultFile(entryList(disk))
    <3>1. fileSelected = f /\ f \in File
      BY <2>2 DEF FilesInit
    <3>2. entryList(disk) \subseteq Listed /\ f # NoFile
      BY <3>1, FilesAssumption DEF entryList
    <3>3. f \in entryList(disk)
      BY <3>2, DefaultListed
    <3>4. Readable(f, disk)
      BY <2>1, <3>1, <3>3, UsableIsParsed DEF entryList
    <3> QED  BY <3>1, <3>4 DEF FilesInit
  <2>3. m_dataWriteDelay = FALSE
    BY DEF FilesInit
  <2> QED  BY <2>1, <2>2, <2>3, FilesStart DEF WInv, SelectedIsCurrent
<1>2. WInv /\ [FilesNext]_fileVars => WInv'
  BY SelectionStep
<1>3. WInv => SelectedIsCurrent
  BY DEF WInv
<1> QED  BY <1>1, <1>2, <1>3, PTL DEF FilesSpec
=============================================================================
