-------------------------- MODULE CustomerDataFiles --------------------------
(***************************************************************************)
(* The files of the CustomerDataSystem (customerdatasystem.cpp): one JSON  *)
(* file for each customer in a directory that others may change too, the   *)
(* file that is selected, the document read from it, and the delayed write *)
(* that puts what clients change back into it.                             *)
(*                                                                         *)
(* A document maps its keys to JSON values.  Files can be written by hand: *)
(* a document can lack fields, have keys the program does not know and     *)
(* values that are no strings.  Parsing and writing are one step, as they  *)
(* are for the event loop.  The calls and answers of the procedures are in *)
(* CustomerDataSystem.                                                     *)
(***************************************************************************)
EXTENDS FiniteSets

CONSTANTS
    File,            \* names a file of the directory can have
    NoFile,          \* the empty file name
    Lower,           \* file name -> the name in lower case
    Listed,          \* the names that end in .json
    First,           \* set of listed names -> the one entryList puts first
    Field,           \* the data components PAR_...
    Value, Empty,    \* the strings they can have
    Key,             \* the keys a JSON object can have, fields or not
    JsonValue,       \* what its keys can have: a string or another JSON value
    Outside,         \* what others may put in a file
    OutsideRemoves,  \* others may remove files
    MayFail          \* the disk may refuse a write, a new file or a removal

(* What a file can hold: a JSON object; text that is not JSON (Broken); or *)
(* nothing, which is what a document that could not be read is written as  *)
(* (Blank); Unreadable is there, but cannot be opened: a file without the  *)
(* permission, or a directory; Absent is no file.                          *)
CONSTANTS Broken, Blank, Unreadable, Absent

Document == UNION {[keys -> JsonValue] : keys \in SUBSET Key}
Content == Document \cup {Broken, Blank, Unreadable, Absent}

ASSUME FilesAssumption ==
    /\ NoFile \notin File
    /\ Lower \in [File -> File]
    /\ Listed \subseteq File
    /\ First \in [SUBSET Listed \ {{}} -> Listed]
    /\ \A list \in SUBSET Listed \ {{}} : First[list] \in list
    /\ Empty \in Value
    /\ Value \subseteq JsonValue
    /\ Field \subseteq Key
    /\ Outside \subseteq Document \cup {Broken, Unreadable}
    /\ OutsideRemoves \in BOOLEAN
    /\ MayFail \in BOOLEAN
    /\ Broken \notin {Blank, Unreadable, Absent}
    /\ Blank \notin {Unreadable, Absent}
    /\ Unreadable # Absent
    /\ {Broken, Blank, Unreadable, Absent} \cap Document = {}

VARIABLES
    disk,                       \* the directory
    directoryChanged,           \* the file watcher has a change to announce
    m_fileList,
    m_currentCustomerFileName,
    m_currentCustomerDocument,
    m_dataWriteDelay,           \* the write timer is active
    component,                  \* the values clients see
    fileSelected                \* the component FileSelected clients see

fileVars == <<disk, directoryChanged, m_fileList, m_currentCustomerFileName,
              m_currentCustomerDocument, m_dataWriteDelay, component, fileSelected>>

FilesTypeOK ==
    /\ disk \in [File -> Content]
    /\ directoryChanged \in BOOLEAN
    /\ m_fileList \subseteq Listed
    /\ m_currentCustomerFileName \in File \cup {NoFile}
    /\ m_currentCustomerDocument \in Document \cup {Blank}
    /\ m_dataWriteDelay \in BOOLEAN
    /\ component \in [Field -> Value]
    /\ fileSelected \in File \cup {NoFile}

----------------------------------------------------------------------------
Exists(f, d) == f \in File /\ d[f] # Absent

Readable(f, d) == Exists(f, d) /\ d[f] # Unreadable

entryList(d) == {f \in Listed : d[f] # Absent}

(* QJsonDocument::fromJson, the keys of the document's object, and         *)
(* QJsonValue::toString, which is empty for what is no string.             *)
(* Faulty variant: what does not parse is kept as it is.                   *)
fromJson_Unchecked(content) == content

fromJson(content) == IF content \in Document THEN content ELSE Blank

Keys(document) == IF document \in Document THEN DOMAIN document ELSE {}

toString(value) == IF value \in Value THEN value ELSE Empty

(* The default selection: the first file, if there is one.                 *)
DefaultFile(list) == IF list = {} THEN NoFile ELSE First[list]

(***************************************************************************)
(* parseCustomerDataFile on the directory d: what the file has is          *)
(* published, what it does not have stays as it was; when there is no such *)
(* file or it cannot be opened every component is unset, and name and      *)
(* document stay.                                                          *)
(***************************************************************************)
Published(document, shown) ==
    [x \in Field |-> IF x \in Keys(document) THEN toString(document[x]) ELSE shown[x]]

(* Faulty variant: the name is cleared as well.                            *)
parseCustomerDataFile_Clear(f, d) ==
    IF Readable(f, d)
    THEN /\ m_currentCustomerFileName' = f
         /\ m_currentCustomerDocument' = fromJson(d[f])
         /\ component' = Published(fromJson(d[f]), component)
    ELSE /\ m_currentCustomerFileName' = NoFile
         /\ component' = [x \in Field |-> Empty]
         /\ UNCHANGED m_currentCustomerDocument

(* Faulty variant: only values that are not empty are published.           *)
parseCustomerDataFile_Skip(f, d) ==
    IF Readable(f, d)
    THEN /\ m_currentCustomerFileName' = f
         /\ m_currentCustomerDocument' = fromJson(d[f])
         /\ component' = [x \in Field |->
               IF x \in Keys(fromJson(d[f])) /\ toString(d[f][x]) # Empty
               THEN toString(d[f][x]) ELSE component[x]]
    ELSE /\ component' = [x \in Field |-> Empty]
         /\ UNCHANGED <<m_currentCustomerFileName, m_currentCustomerDocument>>

parseCustomerDataFile(f, d) ==
    IF Readable(f, d)
    THEN /\ m_currentCustomerFileName' = f
         /\ m_currentCustomerDocument' = fromJson(d[f])
         /\ component' = Published(fromJson(d[f]), component)
    ELSE /\ component' = [x \in Field |-> Empty]
         /\ UNCHANGED <<m_currentCustomerFileName, m_currentCustomerDocument>>

(* Its result: the file holds an object that is not empty.                 *)
ParseSucceeds(f, d) == Readable(f, d) /\ Keys(fromJson(d[f])) # {}

(***************************************************************************)
(* updateCustomerDataFileList on the directory d.                          *)
(***************************************************************************)
(* Faulty variant: the new selection is not announced.                     *)
updateCustomerDataFileList_Silent(d) ==
    /\ m_fileList' = entryList(d)
    /\ IF m_fileList' # m_fileList /\ m_currentCustomerFileName \notin m_fileList'
       THEN parseCustomerDataFile(DefaultFile(m_fileList'), d)
       ELSE UNCHANGED <<m_currentCustomerFileName, m_currentCustomerDocument, component>>
    /\ UNCHANGED fileSelected

updateCustomerDataFileList(d) ==
    /\ m_fileList' = entryList(d)
    /\ IF m_fileList' # m_fileList /\ m_currentCustomerFileName \notin m_fileList'
       THEN /\ fileSelected' = DefaultFile(m_fileList')
            /\ parseCustomerDataFile(DefaultFile(m_fileList'), d)
       ELSE UNCHANGED <<m_currentCustomerFileName, m_currentCustomerDocument,
                        component, fileSelected>>

(* The directories writeCustomerdata can leave.  QSaveFile replaces no     *)
(* directory, and a file it replaces keeps its permissions.                *)
writeCustomerdata ==
    {[disk EXCEPT ![m_currentCustomerFileName] =
         IF @ = Unreadable THEN @ ELSE m_currentCustomerDocument]}
        \cup (IF MayFail THEN {disk} ELSE {})

----------------------------------------------------------------------------
(***************************************************************************)
(* The constructor and initializeEntity: no timer, no document, every      *)
(* component empty, then updateCustomerDataFileList.                       *)
(***************************************************************************)
FilesInit ==
    LET f == DefaultFile(entryList(disk))
    IN  /\ disk \in [File -> Outside \cup {Absent}]
        /\ directoryChanged = FALSE
        /\ m_fileList = entryList(disk)
        /\ m_dataWriteDelay = FALSE
        /\ fileSelected = f
        /\ m_currentCustomerFileName = IF Readable(f, disk) THEN f ELSE NoFile
        /\ m_currentCustomerDocument = IF Readable(f, disk) THEN fromJson(disk[f]) ELSE Blank
        /\ component = Published(m_currentCustomerDocument, [x \in Field |-> Empty])

(***************************************************************************)
(* A client sets FileSelected (processEvent).                              *)
(***************************************************************************)
(* Faulty variant: a pending write is not made first.                      *)
SelectFile_NoFlush(f) ==
    /\ m_dataWriteDelay' = FALSE
    /\ IF Lower[f] \in m_fileList
       THEN /\ parseCustomerDataFile(Lower[f], disk)
            /\ fileSelected' = IF ParseSucceeds(Lower[f], disk) THEN f ELSE fileSelected
       ELSE UNCHANGED <<m_currentCustomerFileName, m_currentCustomerDocument,
                        component, fileSelected>>
    /\ UNCHANGED <<disk, directoryChanged, m_fileList>>

SelectFile(f) ==
    /\ m_dataWriteDelay' = FALSE
    /\ disk' \in IF m_dataWriteDelay THEN writeCustomerdata ELSE {disk}
    /\ directoryChanged' = (directoryChanged \/ m_dataWriteDelay)
    /\ IF Lower[f] \in m_fileList
       THEN /\ parseCustomerDataFile(Lower[f], disk')
            /\ fileSelected' = IF ParseSucceeds(Lower[f], disk') THEN f ELSE fileSelected
       ELSE UNCHANGED <<m_currentCustomerFileName, m_currentCustomerDocument,
                        component, fileSelected>>
    /\ UNCHANGED m_fileList

(* A client sets a data component: the value is accepted, and goes to the  *)
(* document if that has the field (processEvent, updateDataFile).          *)
SetField(x, v) ==
    /\ component' = [component EXCEPT ![x] = v]
    /\ IF m_currentCustomerFileName # NoFile /\ x \in Keys(m_currentCustomerDocument)
       THEN /\ m_currentCustomerDocument' = [m_currentCustomerDocument EXCEPT ![x] = v]
            /\ m_dataWriteDelay' = TRUE
       ELSE UNCHANGED <<m_currentCustomerDocument, m_dataWriteDelay>>
    /\ UNCHANGED <<disk, directoryChanged, m_fileList, m_currentCustomerFileName,
                   fileSelected>>

(* The write timer runs out.                                               *)
WriteTimeout ==
    /\ m_dataWriteDelay
    /\ m_dataWriteDelay' = FALSE
    /\ disk' \in writeCustomerdata
    /\ directoryChanged' = TRUE
    /\ UNCHANGED <<m_fileList, m_currentCustomerFileName, m_currentCustomerDocument,
                   component, fileSelected>>

(* The file watcher announces that the directory changed.                  *)
DirectoryChanged ==
    /\ directoryChanged
    /\ directoryChanged' = FALSE
    /\ updateCustomerDataFileList(disk)
    /\ UNCHANGED <<disk, m_dataWriteDelay>>

(***************************************************************************)
(* The procedures that change the directory, on a valid file name.  What   *)
(* customerDataAdd writes is not checked, it may get lost or cut short.    *)
(***************************************************************************)
customerDataAdd(f) ==
    /\ UNCHANGED m_dataWriteDelay
    /\ \/ /\ ~Exists(Lower[f], disk)
          /\ \E content \in {[x \in Field |-> Empty]}
                                 \cup (IF MayFail THEN {Blank, Broken} ELSE {}) :
                disk' = [disk EXCEPT ![Lower[f]] = content]
          /\ directoryChanged' = TRUE
          /\ updateCustomerDataFileList(disk')
       \/ /\ Exists(Lower[f], disk) \/ MayFail
          /\ UNCHANGED <<disk, directoryChanged, m_fileList, m_currentCustomerFileName,
                         m_currentCustomerDocument, component, fileSelected>>

customerDataRemove(f) ==
    /\ UNCHANGED m_dataWriteDelay
    /\ \/ /\ Exists(f, disk)
          /\ disk' = [disk EXCEPT ![f] = Absent]
          /\ directoryChanged' = TRUE
          /\ updateCustomerDataFileList(disk')
       \/ /\ ~Exists(f, disk) \/ disk[f] = Unreadable \/ MayFail
          /\ UNCHANGED <<disk, directoryChanged, m_fileList, m_currentCustomerFileName,
                         m_currentCustomerDocument, component, fileSelected>>

(* Others edit a file or put one there, or remove one; the watcher sees    *)
(* the directory, not the content of its files.                            *)
OutsideWrite(f, content) ==
    /\ disk' = [disk EXCEPT ![f] = content]
    /\ directoryChanged' = (directoryChanged \/ ~Exists(f, disk))
    /\ UNCHANGED <<m_fileList, m_currentCustomerFileName, m_currentCustomerDocument,
                   m_dataWriteDelay, component, fileSelected>>

OutsideRemove(f) ==
    /\ OutsideRemoves
    /\ Exists(f, disk)
    /\ disk' = [disk EXCEPT ![f] = Absent]
    /\ directoryChanged' = TRUE
    /\ UNCHANGED <<m_fileList, m_currentCustomerFileName, m_currentCustomerDocument,
                   m_dataWriteDelay, component, fileSelected>>

FilesNext ==
    \/ \E f \in File : SelectFile(f) \/ customerDataAdd(f) \/ customerDataRemove(f)
    \/ \E x \in Field, v \in Value : SetField(x, v)
    \/ WriteTimeout
    \/ DirectoryChanged
    \/ \E f \in File, content \in Outside : OutsideWrite(f, content)
    \/ \E f \in File : OutsideRemove(f)

FilesSpec == FilesInit /\ [][FilesNext]_fileVars

----------------------------------------------------------------------------
(* A write is pending only when there is a file name to write to: the      *)
(* timer never fires with the empty name, whatever was removed since.      *)
TimerHasFile == m_dataWriteDelay => m_currentCustomerFileName \in File

(* In a field the current document has, clients see what the document      *)
(* holds, or nothing since a file could not be opened (a switch to such a  *)
(* file, or to none, unsets every component and keeps the document): no    *)
(* value of another customer is left over there, whatever others do to the *)
(* files.  (A field the document lacks keeps what was shown before.)       *)
ShownIsStoredOrUnset ==
    \A x \in Field \cap Keys(m_currentCustomerDocument) :
        component[x] \in {toString(m_currentCustomerDocument[x]), Empty}

(* A pending write stays pending for the file it was meant for, or is made *)
(* in this very step, or the file is gone or cannot be opened: no accepted *)
(* value is forgotten, and none lands in another customer's file.          *)
PendingWriteKept ==
    [][(m_dataWriteDelay /\ m_currentCustomerFileName \in File) =>
          \/ m_dataWriteDelay' /\ m_currentCustomerFileName' = m_currentCustomerFileName
          \/ disk'[m_currentCustomerFileName]
                \in {m_currentCustomerDocument, Unreadable, Absent}]_fileVars

(* FileSelected, the "Currently selected customer data file", names the    *)
(* file that changes go to (customerdatasystem.h:94).                      *)
SelectedIsCurrent ==
    fileSelected \in File =>
        m_currentCustomerFileName \in {fileSelected, Lower[fileSelected]}

(* The file customerDataRemove removed is not written again: a pending     *)
(* write belongs to a file that exists (customerdatasystem.h:101).         *)
RemovedStaysRemoved == m_dataWriteDelay => Exists(m_currentCustomerFileName, disk)
=============================================================================
