----------------------------- MODULE StoredFilesProofs -----------------------------
(***************************************************************************)
(* Theorems about StoredFiles: for any number of rows, files and requests  *)
(* in flight, which may be cut short anywhere, and whatever paths operators*)
(* type into orders, the pictures that rows name are on disk unless their  *)
(* path was typed, and the life of a file is the one FileLife promises.    *)
(***************************************************************************)
EXTENDS StoredFiles, TLAPS

(***************************************************************************)
(* The inductive invariant                                                 *)
(***************************************************************************)

\* The files the request of s is to remove.  Files whose path an operator has typed
\* are left out, here and below: nothing is known of them.
Old(s) ==
  IF requests[s].phase \in {"saving", "naming", "deleting", "erasing", "removing"}
  THEN requests[s].old \ typed ELSE {}

\* The file it has saved for a row.
File(s) ==
  IF requests[s].phase \in {"naming", "inserting"} THEN {requests[s].file} \ typed ELSE {}

\* The rows that may still name what it is to remove.
MayName(s) ==
  CASE requests[s].phase \in {"saving", "naming", "deleting"} -> {requests[s].row}
    [] requests[s].phase = "erasing" -> Profiles \cup Orders
    [] requests[s].phase = "removing" -> IF erased THEN Orders ELSE {}
    [] OTHER -> {}

\* Names that are in use are not fresh.
NamesAreUsed ==
  /\ \A q \in Rows : FilesOf(q) \subseteq 1..saved
  /\ \A s \in Sessions : Old(s) \subseteq 1..saved /\ File(s) \subseteq 1..saved
  /\ typed \subseteq 1..saved

\* A file that waits for its row is on disk, and is nobody else's.
SavedFilesWait ==
  \A s \in Sessions :
    /\ File(s) \subseteq disk
    /\ \A q \in Rows : image[q] \notin File(s)
    /\ \A t \in Sessions : /\ File(s) \cap Old(t) = {}
                           /\ s # t => File(s) \cap File(t) = {}

\* What a request is to remove is named by the row it writes first, if at all.
RemovedIsDropped ==
  \A s \in Sessions : \A q \in Rows : image[q] \in Old(s) => q \in MayName(s)

IInv ==
  /\ TypeOK
  /\ NamesAreUsed
  /\ SavedFilesWait
  /\ RemovedIsDropped
  /\ NamedFilesExist
  /\ PhotoKeptUntilErased
  /\ OneRowPerFile

(***************************************************************************)
(* Type correctness                                                        *)
(***************************************************************************)

LEMMA RequestShapes ==
  ASSUME NEW r \in Request
  PROVE  /\ r.phase \in {"idle", "saving", "naming", "savingNew", "inserting", "deleting",
                         "gallery", "erasing", "removing"}
         /\ r.phase \in {"saving", "naming", "deleting", "erasing", "removing"} =>
              r.old \in SUBSET Files
         /\ r.phase \in {"naming", "inserting"} => r.file \in Files
         /\ r.phase \in {"saving", "naming"} => r.row \in Pictured
         /\ r.phase = "deleting" => r.row \in Dishes
         /\ r.phase \in {"savingNew", "inserting"} => r.table \in {Dishes, Orders}
<1>1. CASE r = Idle
  BY <1>1 DEF Idle
<1>2. CASE r \in [phase: {"saving"}, row: Pictured, old: SUBSET Files]
  BY <1>2
<1>3. CASE r \in [phase: {"naming"}, row: Pictured, old: SUBSET Files, file: Files]
  BY <1>3
<1>4. CASE r \in [phase: {"savingNew"}, table: {Dishes, Orders}]
  BY <1>4
<1>5. CASE r \in [phase: {"inserting"}, table: {Dishes, Orders}, file: Files]
  BY <1>5
<1>6. CASE r \in [phase: {"deleting"}, row: Dishes, old: SUBSET Files]
  BY <1>6
<1>7. CASE r \in [phase: {"gallery"}]
  BY <1>7
<1>8. CASE r \in [phase: {"erasing", "removing"}, old: SUBSET Files]
  BY <1>8
<1> QED
  BY <1>1, <1>2, <1>3, <1>4, <1>5, <1>6, <1>7, <1>8 DEF Request

LEMMA NumbersAreNumbers ==
  TypeOK => /\ saved \in Nat /\ MaxFiles \in Nat /\ saved <= MaxFiles
            /\ 1..saved \subseteq Files
            /\ NoImage \notin Files /\ Absent \notin Files /\ Gone \notin Files
            /\ Elsewhere \notin Files
  BY StoredFilesAssumption DEF TypeOK, Files, NoImage, Absent, Gone, Elsewhere

\* The files of a row are those it names.
LEMMA FilesOfRow == \A q \in Rows : \A f \in Files : f \in FilesOf(q) <=> image[q] = f
  BY DEF FilesOf

LEMMA ThenRemoveShape ==
  ASSUME NEW old \in SUBSET Files
  PROVE  /\ ThenRemove(old) \in Request
         /\ ThenRemove(old).phase \in {"idle", "removing"}
         /\ ThenRemove(old).phase = "removing" => ThenRemove(old).old = old
<1>1. CASE old = {}
  BY <1>1 DEF ThenRemove, Request, Idle
<1>2. CASE old # {}
  BY <1>2 DEF ThenRemove, Request
<1> QED
  BY <1>1, <1>2

LEMMA ToMoves ==
  ASSUME TypeOK, NEW s \in Sessions, NEW r \in Request, To(s, r)
  PROVE  /\ requests' \in [Sessions -> Request]
         /\ requests'[s] = r
         /\ \A t \in Sessions : t # s => requests'[t] = requests[t]
  BY DEF TypeOK, To

LEMMA SaveFileRequest ==
  ASSUME TypeOK, NEW s \in Sessions, SaveFile(s)
  PROVE  \E r \in Request :
           /\ To(s, r)
           /\ \/ r.phase = "naming" /\ r.file = saved + 1
                   /\ requests[s].phase = "saving"
                   /\ r.row = requests[s].row /\ r.old = requests[s].old
              \/ r.phase = "inserting" /\ r.file = saved + 1
              \/ r.phase = "idle"
<1>1. requests[s] \in Request /\ saved + 1 \in Files
  BY NumbersAreNumbers DEF TypeOK, SaveFile, Files
<1>2. CASE requests[s].phase = "saving"
  <2> DEFINE r == [phase |-> "naming", row |-> requests[s].row, old |-> requests[s].old,
                   file |-> FreshName]
  <2>1. requests[s].row \in Pictured /\ requests[s].old \in SUBSET Files
    BY <1>1, <1>2, RequestShapes
  <2>2. r \in Request
    BY <1>1, <2>1 DEF Request, FreshName
  <2>3. To(s, r)
    BY <1>2 DEF SaveFile
  <2> QED
    BY <1>2, <2>2, <2>3 DEF FreshName
<1>3. CASE requests[s].phase = "savingNew"
  <2> DEFINE r == [phase |-> "inserting", table |-> requests[s].table, file |-> FreshName]
  <2>1. requests[s].table \in {Dishes, Orders}
    BY <1>1, <1>3, RequestShapes
  <2>2. r \in Request
    BY <1>1, <2>1 DEF Request, FreshName
  <2>3. To(s, r)
    BY <1>3 DEF SaveFile
  <2> QED
    BY <2>2, <2>3 DEF FreshName
<1>4. CASE requests[s].phase = "gallery"
  <2>1. To(s, Idle)
    BY <1>4 DEF SaveFile
  <2> QED
    BY <2>1 DEF Request, Idle
<1> QED
  BY <1>2, <1>3, <1>4 DEF SaveFile

LEMMA IdleIsRequest == Idle \in Request /\ Idle.phase = "idle"
  BY DEF Request, Idle

LEMMA FilesOfType ==
  TypeOK => /\ \A q \in Rows : FilesOf(q) \in SUBSET Files
            /\ CollectDeletionFilePaths \in SUBSET Files
  BY DEF FilesOf, CollectDeletionFilePaths

\* The first actions of the handlers: only the request changes.
LEMMA StartShapes ==
  ASSUME TypeOK, NEW s \in Sessions, Starts(s)
  PROVE  /\ UNCHANGED <<image, disk, saved, erased, typed>>
         /\ \E r \in Request :
              /\ To(s, r)
              /\ \/ r.phase \in {"saving", "deleting"} /\ r.row \in Pictured
                                                       /\ r.old = FilesOf(r.row)
                 \/ r.phase \in {"savingNew", "gallery"}
                 \/ r.phase = "erasing" /\ r.old = CollectDeletionFilePaths
<1>1. ASSUME NEW p \in Profiles, UpdateProfileImage(s, p)
      PROVE  \E r \in Request : To(s, r) /\ r.phase = "saving" /\ r.row \in Pictured
                                         /\ r.old = FilesOf(r.row)
  <2> DEFINE r == [phase |-> "saving", row |-> p, old |-> FilesOf(p)]
  <2>1. p \in Pictured /\ FilesOf(p) \in SUBSET Files
    BY FilesOfType DEF Rows, Pictured
  <2>2. r \in Request /\ To(s, r)
    BY <1>1, <2>1 DEF Request, UpdateProfileImage
  <2> QED
    BY <2>1, <2>2
<1>2. ASSUME NEW d \in Dishes, UpdateDish(s, d)
      PROVE  \E r \in Request : To(s, r) /\ r.phase = "saving" /\ r.row \in Pictured
                                         /\ r.old = FilesOf(r.row)
  <2> DEFINE r == [phase |-> "saving", row |-> d, old |-> FilesOf(d)]
  <2>1. d \in Pictured /\ FilesOf(d) \in SUBSET Files
    BY FilesOfType DEF Rows, Pictured
  <2>2. r \in Request /\ To(s, r)
    BY <1>2, <2>1 DEF Request, UpdateDish
  <2> QED
    BY <2>1, <2>2
<1>3. ASSUME NEW d \in Dishes, DeleteDish(s, d)
      PROVE  \E r \in Request : To(s, r) /\ r.phase = "deleting" /\ r.row \in Pictured
                                         /\ r.old = FilesOf(r.row)
  <2> DEFINE r == [phase |-> "deleting", row |-> d, old |-> FilesOf(d)]
  <2>1. d \in Pictured /\ FilesOf(d) \in SUBSET Files
    BY FilesOfType DEF Rows, Pictured
  <2>2. r \in Request /\ To(s, r)
    BY <1>3, <2>1 DEF Request, DeleteDish
  <2> QED
    BY <2>1, <2>2
<1>4. CASE CreateDish(s)
  <2>1. [phase |-> "savingNew", table |-> Dishes] \in Request
    BY DEF Request
  <2> QED
    BY <1>4, <2>1 DEF CreateDish
<1>5. CASE Checkout(s)
  <2>1. [phase |-> "savingNew", table |-> Orders] \in Request
    BY DEF Request
  <2> QED
    BY <1>5, <2>1 DEF Checkout
<1>6. CASE DeleteAccount(s)
  <2> DEFINE r == [phase |-> "erasing", old |-> CollectDeletionFilePaths]
  <2>1. r \in Request /\ To(s, r)
    BY <1>6, FilesOfType DEF Request, DeleteAccount
  <2> QED
    BY <1>6, <2>1 DEF DeleteAccount
<1>7. CASE UploadToGallery(s)
  <2>1. [phase |-> "gallery"] \in Request
    BY DEF Request
  <2> QED
    BY <1>7, <2>1 DEF UploadToGallery
<1>8. UNCHANGED <<image, disk, saved, erased, typed>>
  BY DEF Starts, UpdateProfileImage, UpdateDish, DeleteDish, CreateDish, Checkout,
         DeleteAccount, UploadToGallery
<1> QED
  BY <1>1, <1>2, <1>3, <1>4, <1>5, <1>6, <1>7, <1>8 DEF Starts

LEMMA TypeOKStep == TypeOK /\ [Next]_vars => TypeOK'
<1> SUFFICES ASSUME TypeOK, [Next]_vars PROVE TypeOK'
  OBVIOUS
<1>1. ASSUME NEW s \in Sessions, Starts(s)
      PROVE  TypeOK'
  BY <1>1, StartShapes, ToMoves DEF TypeOK
<1>2. ASSUME NEW s \in Sessions, SaveFile(s)
      PROVE  TypeOK'
  <2>1. requests' \in [Sessions -> Request]
    BY <1>2, SaveFileRequest, ToMoves
  <2>2. saved' \in 0..MaxFiles /\ disk' \subseteq Files
    BY <1>2, NumbersAreNumbers DEF SaveFile, FreshName, Files, TypeOK
  <2> QED
    BY <1>2, <2>1, <2>2 DEF SaveFile, TypeOK
<1>3. ASSUME NEW s \in Sessions, RemoveStoredFiles(s)
      PROVE  TypeOK'
  BY <1>3, IdleIsRequest, ToMoves DEF RemoveStoredFiles, TypeOK
<1>4. ASSUME NEW s \in Sessions, WriteRow(s)
      PROVE  TypeOK'
  <2>1. /\ requests[s] \in Request
        /\ requests[s].file \in Files /\ requests[s].old \in SUBSET Files
    BY <1>4, RequestShapes DEF TypeOK, WriteRow
  <2>2. requests' \in [Sessions -> Request]
    BY <1>4, <2>1, IdleIsRequest, ThenRemoveShape, ToMoves DEF WriteRow
  <2>3. image' \in [Rows -> Files \cup {NoImage, Absent, Gone, Elsewhere}]
    BY <1>4, <2>1 DEF WriteRow, TypeOK
  <2> QED
    BY <1>4, <2>2, <2>3 DEF WriteRow, TypeOK
<1>5. ASSUME NEW s \in Sessions, InsertRow(s)
      PROVE  TypeOK'
  <2>1. requests[s] \in Request /\ requests[s].file \in Files
    BY <1>5, RequestShapes DEF TypeOK, InsertRow
  <2>2. image' \in [Rows -> Files \cup {NoImage, Absent, Gone, Elsewhere}]
    BY <1>5, <2>1 DEF InsertRow, TypeOK
  <2> QED
    BY <1>5, <2>2, IdleIsRequest, ToMoves DEF InsertRow, TypeOK
<1>6. ASSUME NEW s \in Sessions, DeleteDishRow(s)
      PROVE  TypeOK'
  <2>1. requests[s] \in Request /\ requests[s].old \in SUBSET Files
    BY <1>6, RequestShapes DEF TypeOK, DeleteDishRow
  <2>2. requests' \in [Sessions -> Request]
    BY <1>6, <2>1, IdleIsRequest, ThenRemoveShape, ToMoves DEF DeleteDishRow
  <2> QED
    BY <1>6, <2>2 DEF DeleteDishRow, TypeOK
<1>7. ASSUME NEW s \in Sessions, EraseRows(s)
      PROVE  TypeOK'
  <2>1. requests[s] \in Request /\ requests[s].old \in SUBSET Files
    BY <1>7, RequestShapes DEF TypeOK, EraseRows
  <2>2. requests' \in [Sessions -> Request]
    BY <1>7, <2>1, IdleIsRequest, ThenRemoveShape, ToMoves DEF EraseRows
  <2>3. ASSUME NEW q \in Rows, NEW sold
        PROVE  ErasedImage(q, sold) \in Files \cup {NoImage, Absent, Gone, Elsewhere}
    BY DEF ErasedImage, TypeOK
  <2>4. image' \in [Rows -> Files \cup {NoImage, Absent, Gone, Elsewhere}]
    BY <1>7, <2>3 DEF EraseRows, TypeOK
  <2> QED
    BY <1>7, <2>2, <2>4 DEF EraseRows, TypeOK
<1>8. ASSUME NEW s \in Sessions, Fail(s)
      PROVE  TypeOK'
  BY <1>8, IdleIsRequest, ToMoves DEF Fail, TypeOK
<1>9. ASSUME NEW s \in Sessions, NEW o \in Orders, NEW path \in Paths,
             PatchOrderByAdmin(s, o, path)
      PROVE  TypeOK'
  <2>1. path \in Files \cup {NoImage, Absent, Gone, Elsewhere}
    BY NumbersAreNumbers DEF Paths
  <2> QED
    BY <1>9, <2>1 DEF PatchOrderByAdmin, TypeOK
<1>10. CASE UNCHANGED vars
  BY <1>10 DEF vars, TypeOK
<1> QED
  BY <1>1, <1>2, <1>3, <1>4, <1>5, <1>6, <1>7, <1>8, <1>9, <1>10 DEF Next, Steps

(***************************************************************************)
(* The steps                                                               *)
(***************************************************************************)

LEMMA OldAndFile ==
  ASSUME TypeOK, NEW s \in Sessions
  PROVE  Old(s) \in SUBSET Files /\ File(s) \in SUBSET Files
<1>1. requests[s] \in Request
  BY DEF TypeOK
<1> QED
  BY <1>1, RequestShapes DEF Old, File

\* What the other requests hold is what they held, or it has been typed.
LEMMA OthersHold ==
  ASSUME TypeOK, NEW s \in Sessions, NEW r \in Request, To(s, r), erased => erased',
         typed \subseteq typed'
  PROVE  \A t \in Sessions : t # s => /\ Old(t)' \subseteq Old(t)
                                      /\ File(t)' \subseteq File(t)
                                      /\ MayName(t) \subseteq MayName(t)'
<1> SUFFICES ASSUME NEW t \in Sessions, t # s
             PROVE  /\ Old(t)' \subseteq Old(t)
                    /\ File(t)' \subseteq File(t)
                    /\ MayName(t) \subseteq MayName(t)'
  OBVIOUS
<1>1. requests'[t] = requests[t]
  BY ToMoves
<1>2. Old(t)' \subseteq Old(t) /\ File(t)' \subseteq File(t)
  BY <1>1 DEF Old, File
<1>3. MayName(t) \subseteq MayName(t)'
  BY <1>1 DEF MayName
<1> QED
  BY <1>2, <1>3

\* A step of s that leaves the disk alone.  Rows keep their picture, lose it, get
\* the file that s has saved, which one of them does, or one whose path was typed; s
\* waits for no row afterwards, and is to remove what it was to remove already or
\* what rows name.
LEMMA MovesKeepIInv ==
  ASSUME IInv, TypeOK', NEW s \in Sessions, NEW r \in Request, To(s, r),
         r.phase \notin {"naming", "inserting"},
         UNCHANGED <<disk, saved>>,
         erased => erased',
         typed \subseteq typed', typed' \subseteq 1..saved,
         \A q \in Rows : \/ image'[q] = image[q]
                         \/ image'[q] \notin Files
                         \/ image'[q] \in File(s)
                         \/ image'[q] \in typed',
         \A p, q \in Rows : p # q /\ image'[p] \in File(s) => image'[q] \notin File(s),
         \A f \in Old(s)' : f \in Old(s) \/ \E q \in Rows : f \in FilesOf(q),
         \A q \in Rows : image'[q] \in Old(s)' => q \in MayName(s)'
  PROVE  IInv'
<1>1. TypeOK
  BY DEF IInv
<1>2. requests'[s] = r /\ File(s)' = {}
  BY <1>1, ToMoves DEF File
<1>3. \A t \in Sessions : t # s => /\ Old(t)' \subseteq Old(t)
                                   /\ File(t)' \subseteq File(t)
                                   /\ MayName(t) \subseteq MayName(t)'
  BY <1>1, OthersHold
<1>4. \A t \in Sessions : /\ Old(t) \in SUBSET Files /\ File(t) \in SUBSET Files
                          /\ Old(t)' \cap typed' = {} /\ File(t)' \cap typed' = {}
  <2>1. \A t \in Sessions : Old(t)' \cap typed' = {} /\ File(t)' \cap typed' = {}
    BY DEF Old, File
  <2> QED
    BY <1>1, <2>1, OldAndFile
<1>5. \A q \in Rows : \A f \in FilesOf(q)' : f \in FilesOf(q) \/ f \in File(s) \/ f \in typed'
  BY DEF FilesOf
<1>6. \A q \in Rows : \A f \in FilesOf(q) : f \in 1..saved /\ image[q] = f /\ f \in Files
  BY DEF IInv, NamesAreUsed, FilesOf
<1>7. NamesAreUsed'
  <2>1. \A q \in Rows : FilesOf(q)' \subseteq 1..saved
    BY <1>5, <1>6 DEF IInv, NamesAreUsed
  <2>2. Old(s)' \subseteq 1..saved
    BY <1>6 DEF IInv, NamesAreUsed
  <2> QED
    BY <1>2, <1>3, <2>1, <2>2 DEF IInv, NamesAreUsed
<1>8. SavedFilesWait'
  <2> SUFFICES ASSUME NEW t \in Sessions, t # s
               PROVE  /\ File(t)' \subseteq disk
                      /\ \A q \in Rows : image'[q] \notin File(t)'
                      /\ \A u \in Sessions : /\ File(t)' \cap Old(u)' = {}
                                             /\ t # u => File(t)' \cap File(u)' = {}
    BY <1>2 DEF SavedFilesWait
  <2>1. \A q \in Rows : image[q] \notin File(t)
    BY DEF IInv, SavedFilesWait
  <2>2. File(t) \cap File(s) = {} /\ File(t) \cap Old(s) = {} /\ File(t) \subseteq disk
    BY DEF IInv, SavedFilesWait
  <2>3. File(t)' \subseteq File(t)
    BY <1>3
  <2>4. \A q \in Rows : image'[q] \notin File(t)'
    BY <1>4, <2>1, <2>2, <2>3
  <2>5. File(t)' \cap Old(s)' = {}
    BY <1>6, <2>1, <2>2, <2>3
  <2>6. \A u \in Sessions : u # s => /\ File(t) \cap Old(u)' = {}
                                     /\ t # u => File(t) \cap File(u)' = {}
    BY <1>3 DEF IInv, SavedFilesWait
  <2> QED
    BY <1>2, <2>2, <2>3, <2>4, <2>5, <2>6
<1>9. RemovedIsDropped'
  <2> SUFFICES ASSUME NEW t \in Sessions, t # s, NEW q \in Rows, image'[q] \in Old(t)'
               PROVE  q \in MayName(t)'
    BY DEF RemovedIsDropped
  <2>1. File(s) \cap Old(t) = {}
    BY DEF IInv, SavedFilesWait
  <2>2. image'[q] \in Old(t) /\ image'[q] \notin typed'
    BY <1>3, <1>4
  <2>3. image'[q] = image[q]
    BY <1>4, <2>1, <2>2
  <2> QED
    BY <1>3, <2>2, <2>3 DEF IInv, RemovedIsDropped
<1>10. File(s) \subseteq disk
  BY DEF IInv, SavedFilesWait
<1>11. NamedFilesExist'
  <2>1. \A q \in Pictured : q \in Rows
    BY DEF Rows, Pictured
  <2> QED
    BY <1>5, <1>10, <2>1 DEF IInv, NamedFilesExist
<1>12. PhotoKeptUntilErased'
  <2>1. \A q \in Orders : q \in Rows
    BY DEF Rows
  <2> QED
    BY <1>5, <1>10, <2>1 DEF IInv, PhotoKeptUntilErased
<1>13. OneRowPerFile'
  <2> SUFFICES ASSUME NEW p \in Rows, NEW q \in Rows, p # q,
                      NEW f \in Files, image'[p] = f, image'[q] = f, f \notin typed'
               PROVE  FALSE
    BY DEF OneRowPerFile, FilesOf
  <2>1. CASE f \in File(s)
    BY <2>1
  <2>2. CASE f \notin File(s)
    <3>1. image[p] = f /\ image[q] = f
      BY <2>2
    <3> QED
      BY <3>1 DEF IInv, OneRowPerFile, FilesOf
  <2> QED
    BY <2>1, <2>2
<1> QED
  BY <1>7, <1>8, <1>9, <1>11, <1>12, <1>13 DEF IInv

\* A request ends, and the rows stay as they are.
LEMMA EndKeepsIInv ==
  ASSUME IInv, NEW s \in Sessions, To(s, Idle),
         UNCHANGED <<image, disk, saved, erased, typed>>
  PROVE  IInv'
<1>1. TypeOK' /\ requests'[s] = Idle
  BY IdleIsRequest, ToMoves DEF IInv, TypeOK
<1>2. Old(s)' = {} /\ \A q \in Rows : image'[q] = image[q]
  BY <1>1, IdleIsRequest DEF Old
<1>3. \A p, q \in Rows : p # q /\ image'[p] \in File(s) => image'[q] \notin File(s)
  BY DEF IInv, SavedFilesWait
<1>4. typed' \subseteq 1..saved
  BY DEF IInv, NamesAreUsed
<1> QED
  BY <1>1, <1>2, <1>3, <1>4, IdleIsRequest, MovesKeepIInv

LEMMA StartKeepsIInv ==
  ASSUME IInv, TypeOK', NEW s \in Sessions, Starts(s)
  PROVE  IInv'
<1>1. TypeOK
  BY DEF IInv
<1>2. /\ UNCHANGED <<image, disk, saved, erased, typed>>
      /\ typed \subseteq 1..saved
  BY <1>1, StartShapes DEF IInv, NamesAreUsed
<1>3. PICK r \in Request :
        /\ To(s, r)
        /\ \/ r.phase \in {"saving", "deleting"} /\ r.row \in Pictured /\ r.old = FilesOf(r.row)
           \/ r.phase \in {"savingNew", "gallery"}
           \/ r.phase = "erasing" /\ r.old = CollectDeletionFilePaths
  BY <1>1, StartShapes
<1>4. requests'[s] = r
  BY <1>1, <1>3, ToMoves
<1>5. \A p, q \in Rows : p # q /\ image'[p] \in File(s) => image'[q] \notin File(s)
  BY <1>2 DEF IInv, SavedFilesWait
<1>6. /\ \A f \in Old(s)' : f \in Old(s) \/ \E q \in Rows : f \in FilesOf(q)
      /\ \A q \in Rows : image'[q] \in Old(s)' => q \in MayName(s)'
  <2>1. CASE r.phase \in {"saving", "deleting"} /\ r.row \in Pictured /\ r.old = FilesOf(r.row)
    <3>1. /\ Old(s)' = FilesOf(r.row) \ typed
          /\ MayName(s)' = {r.row} /\ r.row \in Rows
      BY <1>2, <1>4, <2>1 DEF Old, MayName, Rows, Pictured
    <3>2. \A q \in Rows : image[q] \in FilesOf(r.row) \ typed => q = r.row
      BY <3>1 DEF IInv, OneRowPerFile, FilesOf
    <3> QED
      BY <1>2, <3>1, <3>2
  <2>2. CASE r.phase \in {"savingNew", "gallery"}
    BY <1>4, <2>2 DEF Old
  <2>3. CASE r.phase = "erasing" /\ r.old = CollectDeletionFilePaths
    <3>1. /\ Old(s)' = CollectDeletionFilePaths \ typed
          /\ MayName(s)' = Profiles \cup Orders
      BY <1>2, <1>4, <2>3 DEF Old, MayName
    <3>2. \A f \in CollectDeletionFilePaths : \E p \in Profiles \cup Orders : f \in FilesOf(p)
      BY DEF CollectDeletionFilePaths
    <3>3. \A p \in Profiles \cup Orders : p \in Rows
      BY DEF Rows
    <3>4. \A p, q \in Rows : image[q] \in FilesOf(p) \ typed => q = p
      BY DEF IInv, OneRowPerFile, FilesOf
    <3>5. \A q \in Rows : image[q] \in CollectDeletionFilePaths \ typed =>
                            q \in Profiles \cup Orders
      BY <3>2, <3>3, <3>4
    <3> QED
      BY <1>2, <3>1, <3>2, <3>3, <3>5
  <2> QED
    BY <1>3, <2>1, <2>2, <2>3
<1>7. r.phase \notin {"naming", "inserting"}
  BY <1>3
<1> QED
  BY <1>2, <1>3, <1>5, <1>6, <1>7, MovesKeepIInv

LEMMA SaveFileKeepsIInv ==
  ASSUME IInv, TypeOK', NEW s \in Sessions, SaveFile(s)
  PROVE  IInv'
<1> DEFINE new == saved + 1
<1>1. TypeOK
  BY DEF IInv
<1>2. /\ saved' = new /\ disk' = disk \cup {new} /\ UNCHANGED <<image, erased, typed>>
      /\ requests[s].phase \in {"saving", "savingNew", "gallery"}
  BY DEF SaveFile, FreshName
<1>3. PICK r \in Request :
        /\ To(s, r)
        /\ \/ r.phase = "naming" /\ r.file = new /\ requests[s].phase = "saving"
                /\ r.row = requests[s].row /\ r.old = requests[s].old
           \/ r.phase = "inserting" /\ r.file = new
           \/ r.phase = "idle"
  BY <1>1, SaveFileRequest
<1>4. requests'[s] = r
  BY <1>1, <1>3, ToMoves
<1>5. \A t \in Sessions : t # s => /\ Old(t)' \subseteq Old(t)
                                   /\ File(t)' \subseteq File(t)
                                   /\ MayName(t) \subseteq MayName(t)'
  BY <1>1, <1>2, <1>3, OthersHold
<1>6. File(s)' \subseteq {new} /\ File(s) = {}
  BY <1>2, <1>3, <1>4 DEF File
<1>7. /\ Old(s)' \subseteq Old(s)
      /\ \A q \in MayName(s) : Old(s)' # {} => q \in MayName(s)'
  <2>1. CASE r.phase = "naming"
    BY <1>2, <1>3, <1>4, <2>1 DEF Old, MayName
  <2>2. CASE r.phase # "naming"
    BY <1>2, <1>3, <1>4, <2>2 DEF Old
  <2> QED
    BY <2>1, <2>2
<1>8. saved \in Nat /\ 1..saved \subseteq 1..new /\ new \in 1..new /\ new \notin 1..saved
  BY <1>1, NumbersAreNumbers
<1> HIDE DEF new
<1>9. \A q \in Rows : FilesOf(q)' = FilesOf(q) /\ image[q] # new
  <2>1. new \in Files
    BY <1>1, NumbersAreNumbers DEF SaveFile, Files, new
  <2>2. \A q \in Rows : image[q] # new
    BY <1>8, <2>1 DEF IInv, NamesAreUsed, FilesOf
  <2> QED
    BY <1>2, <2>2 DEF FilesOf
<1>10. NamesAreUsed'
  <2>1. \A q \in Rows : FilesOf(q)' \subseteq 1..new
    BY <1>8, <1>9 DEF IInv, NamesAreUsed
  <2>2. \A t \in Sessions : Old(t)' \subseteq 1..new /\ File(t)' \subseteq 1..new
    BY <1>5, <1>6, <1>7, <1>8 DEF IInv, NamesAreUsed
  <2>3. typed \subseteq 1..new
    BY <1>8 DEF IInv, NamesAreUsed
  <2> QED
    BY <1>2, <2>1, <2>2, <2>3 DEF NamesAreUsed
<1>11. SavedFilesWait'
  <2>1. \A t \in Sessions : File(t)' \subseteq disk'
    BY <1>2, <1>5, <1>6 DEF IInv, SavedFilesWait
  <2>2. \A t \in Sessions, q \in Rows : image'[q] \notin File(t)'
    BY <1>2, <1>5, <1>6, <1>9 DEF IInv, SavedFilesWait
  <2>3. \A t \in Sessions : new \notin Old(t) /\ new \notin File(t)
    BY <1>8 DEF IInv, NamesAreUsed
  <2>4. \A t, u \in Sessions : File(t)' \cap Old(u)' = {}
    <3> SUFFICES ASSUME NEW t \in Sessions, NEW u \in Sessions
                 PROVE  File(t)' \cap Old(u)' = {}
      OBVIOUS
    <3>1. Old(u)' \subseteq Old(u)
      BY <1>5, <1>7
    <3>2. File(t)' \subseteq File(t) \cup {new}
      BY <1>5, <1>6
    <3>3. File(t) \cap Old(u) = {}
      BY DEF IInv, SavedFilesWait
    <3> QED
      BY <2>3, <3>1, <3>2, <3>3
  <2>5. \A t, u \in Sessions : t # u => File(t)' \cap File(u)' = {}
    <3> SUFFICES ASSUME NEW t \in Sessions, NEW u \in Sessions, t # u
                 PROVE  File(t)' \cap File(u)' = {}
      OBVIOUS
    <3>1. File(t) \cap File(u) = {}
      BY DEF IInv, SavedFilesWait
    <3>2. CASE t = s
      BY <1>5, <1>6, <2>3, <3>2
    <3>3. CASE u = s
      BY <1>5, <1>6, <2>3, <3>3
    <3>4. CASE t # s /\ u # s
      BY <1>5, <3>1, <3>4
    <3> QED
      BY <3>2, <3>3, <3>4
  <2> QED
    BY <2>1, <2>2, <2>4, <2>5 DEF SavedFilesWait
<1>12. RemovedIsDropped'
  <2> SUFFICES ASSUME NEW t \in Sessions, NEW q \in Rows, image[q] \in Old(t)'
               PROVE  q \in MayName(t)'
    BY <1>2 DEF RemovedIsDropped
  <2>1. image[q] \in Old(t)
    BY <1>5, <1>7
  <2>2. q \in MayName(t)
    BY <2>1 DEF IInv, RemovedIsDropped
  <2> QED
    BY <1>5, <1>7, <2>2
<1>13. NamedFilesExist' /\ PhotoKeptUntilErased' /\ OneRowPerFile'
  <2>1. Pictured \subseteq Rows /\ Orders \subseteq Rows
    BY DEF Rows, Pictured
  <2>2. NamedFilesExist'
    BY <1>2, <1>9, <2>1 DEF IInv, NamedFilesExist
  <2>3. PhotoKeptUntilErased'
    BY <1>2, <1>9, <2>1 DEF IInv, PhotoKeptUntilErased
  <2>4. OneRowPerFile'
    BY <1>2, <1>9 DEF IInv, OneRowPerFile
  <2> QED
    BY <2>2, <2>3, <2>4
<1> QED
  BY <1>10, <1>11, <1>12, <1>13 DEF IInv

\* What a request removes is named by no profile and no dish, and by an order only
\* once the account is deleted; nor does any request wait to name it.
LEMMA RemovalKeepsIInv ==
  ASSUME IInv, TypeOK', NEW s \in Sessions, RemoveStoredFiles(s)
  PROVE  IInv'
<1> DEFINE gone == requests[s].old
<1>1. TypeOK
  BY DEF IInv
<1>2. /\ requests[s].phase = "removing" /\ To(s, Idle)
      /\ disk' = disk \ gone
      /\ UNCHANGED <<image, saved, erased, typed>>
  BY DEF RemoveStoredFiles
<1>3. Old(s) = gone \ typed /\ MayName(s) = IF erased THEN Orders ELSE {}
  BY <1>2 DEF Old, MayName
<1>4. requests'[s] = Idle
  BY <1>1, <1>2, IdleIsRequest, ToMoves
<1>5. Old(s)' = {} /\ File(s)' = {}
  BY <1>4, IdleIsRequest DEF Old, File
<1>6. \A t \in Sessions : t # s => /\ Old(t)' \subseteq Old(t)
                                   /\ File(t)' \subseteq File(t)
                                   /\ MayName(t) \subseteq MayName(t)'
  BY <1>1, <1>2, IdleIsRequest, OthersHold
<1>7. \A q \in Rows : FilesOf(q)' = FilesOf(q) /\ image'[q] = image[q]
  BY <1>2 DEF FilesOf
<1>8. NamesAreUsed'
  BY <1>2, <1>5, <1>6, <1>7 DEF IInv, NamesAreUsed
<1>9. SavedFilesWait'
  <2>1. \A t \in Sessions : File(t)' \subseteq File(t) /\ Old(t)' \subseteq Old(t)
    BY <1>5, <1>6
  <2>2. \A t \in Sessions : File(t) \subseteq disk'
    <3>1. \A t \in Sessions : File(t) \subseteq disk /\ File(t) \cap Old(s) = {}
      BY DEF IInv, SavedFilesWait
    <3>2. \A t \in Sessions : File(t) \cap typed = {}
      BY DEF File
    <3> QED
      BY <1>2, <1>3, <3>1, <3>2
  <2>3. \A t \in Sessions, q \in Rows : image'[q] \notin File(t)
    BY <1>7 DEF IInv, SavedFilesWait
  <2>4. \A t, u \in Sessions : /\ File(t) \cap Old(u) = {}
                               /\ t # u => File(t) \cap File(u) = {}
    BY DEF IInv, SavedFilesWait
  <2> QED
    BY <2>1, <2>2, <2>3, <2>4 DEF SavedFilesWait
<1>10. RemovedIsDropped'
  BY <1>5, <1>6, <1>7 DEF IInv, RemovedIsDropped
<1>11. \A q \in Rows : q \notin MayName(s) => FilesOf(q) \cap gone \subseteq typed
  BY <1>3 DEF IInv, RemovedIsDropped, FilesOf
<1>12. NamedFilesExist'
  <2> SUFFICES ASSUME NEW q \in Pictured
               PROVE  FilesOf(q)' \ typed \subseteq disk'
    BY <1>2 DEF NamedFilesExist
  <2>1. q \in Rows /\ q \notin MayName(s)
    BY <1>3, StoredFilesAssumption DEF Rows, Pictured
  <2>2. FilesOf(q) \ typed \subseteq disk
    BY DEF IInv, NamedFilesExist
  <2> QED
    BY <1>2, <1>7, <1>11, <2>1, <2>2
<1>13. PhotoKeptUntilErased'
  <2> SUFFICES ASSUME ~erased, NEW q \in Orders
               PROVE  FilesOf(q)' \ typed \subseteq disk'
    BY <1>2 DEF PhotoKeptUntilErased
  <2>1. q \in Rows /\ q \notin MayName(s)
    BY <1>3 DEF Rows
  <2>2. FilesOf(q) \ typed \subseteq disk
    BY DEF IInv, PhotoKeptUntilErased
  <2> QED
    BY <1>2, <1>7, <1>11, <2>1, <2>2
<1>14. OneRowPerFile'
  BY <1>2, <1>7 DEF IInv, OneRowPerFile
<1> QED
  BY <1>8, <1>9, <1>10, <1>12, <1>13, <1>14 DEF IInv

LEMMA WriteRowKeepsIInv ==
  ASSUME IInv, TypeOK', NEW s \in Sessions, WriteRow(s)
  PROVE  IInv'
<1> DEFINE r == requests[s]
<1>1. TypeOK
  BY DEF IInv
<1>2. /\ r \in Request /\ r.phase = "naming" /\ UNCHANGED <<disk, saved, erased, typed>>
      /\ typed \subseteq 1..saved
  BY <1>1 DEF WriteRow, TypeOK, IInv, NamesAreUsed
<1>3. r.row \in Rows /\ r.file \in Files /\ r.old \in SUBSET Files
  BY <1>2, RequestShapes DEF Rows, Pictured
<1>4. Old(s) = r.old \ typed /\ File(s) = {r.file} \ typed /\ MayName(s) = {r.row}
  BY <1>2 DEF Old, File, MayName
<1>5. CASE To(s, Idle) /\ UNCHANGED image
  BY <1>2, <1>5, EndKeepsIInv
<1>6. CASE image' = [image EXCEPT ![r.row] = r.file] /\ To(s, ThenRemove(r.old))
  <2> DEFINE n == ThenRemove(r.old)
  <2>1. /\ n \in Request /\ n.phase \in {"idle", "removing"}
        /\ n.phase = "removing" => n.old = r.old
    BY <1>3, ThenRemoveShape
  <2>2. requests'[s] = n
    BY <1>1, <1>6, <2>1, ToMoves
  <2>3. Old(s)' \subseteq Old(s)
    BY <1>2, <1>4, <2>1, <2>2 DEF Old
  <2>4. \A q \in Rows : image'[q] = IF q = r.row THEN r.file ELSE image[q]
    BY <1>1, <1>3, <1>6 DEF TypeOK
  <2>5. \A q \in Rows : image[q] \notin File(s)
    BY DEF IInv, SavedFilesWait
  <2>6. r.file \notin Old(s)
    BY <1>4 DEF IInv, SavedFilesWait
  <2>7. \A q \in Rows : q # r.row => image[q] \notin Old(s)
    BY <1>4 DEF IInv, RemovedIsDropped
  <2>8. \A q \in Rows : image'[q] \notin Old(s)'
    BY <2>3, <2>4, <2>6, <2>7
  <2>9. \A q \in Rows : \/ image'[q] = image[q]
                        \/ image'[q] \in File(s)
                        \/ image'[q] \in typed'
    BY <1>2, <1>4, <2>4
  <2>10. \A p, q \in Rows : p # q /\ image'[p] \in File(s) => image'[q] \notin File(s)
    BY <2>4, <2>5
  <2>11. To(s, n) /\ n.phase \notin {"naming", "inserting"}
    BY <1>6, <2>1
  <2> HIDE DEF n
  <2> QED
    BY <1>2, <2>1, <2>3, <2>8, <2>9, <2>10, <2>11, MovesKeepIInv
<1> QED
  BY <1>5, <1>6 DEF WriteRow

LEMMA InsertRowKeepsIInv ==
  ASSUME IInv, TypeOK', NEW s \in Sessions, InsertRow(s)
  PROVE  IInv'
<1> DEFINE r == requests[s]
<1>1. TypeOK
  BY DEF IInv
<1>2. /\ r \in Request /\ r.phase = "inserting"
      /\ To(s, Idle) /\ UNCHANGED <<disk, saved, erased, typed>>
      /\ typed \subseteq 1..saved
  BY <1>1 DEF InsertRow, TypeOK, IInv, NamesAreUsed
<1>3. File(s) = {r.file} \ typed /\ r.table \subseteq Rows
  BY <1>2, RequestShapes DEF File, Rows, Pictured
<1>4. requests'[s] = Idle
  BY <1>1, <1>2, IdleIsRequest, ToMoves
<1>5. Old(s)' = {}
  BY <1>4, IdleIsRequest DEF Old
<1>6. CASE UNCHANGED image
  BY <1>2, <1>6, EndKeepsIInv
<1>7. ASSUME NEW x \in r.table, image' = [image EXCEPT ![x] = r.file]
      PROVE  IInv'
  <2>1. \A q \in Rows : image'[q] = IF q = x THEN r.file ELSE image[q]
    BY <1>1, <1>3, <1>7 DEF TypeOK
  <2>2. \A q \in Rows : image[q] \notin File(s)
    BY DEF IInv, SavedFilesWait
  <2>3. \A q \in Rows : \/ image'[q] = image[q]
                        \/ image'[q] \in File(s)
                        \/ image'[q] \in typed'
    BY <1>2, <1>3, <2>1
  <2>4. \A p, q \in Rows : p # q /\ image'[p] \in File(s) => image'[q] \notin File(s)
    BY <2>1, <2>2
  <2> QED
    BY <1>2, <1>5, <2>3, <2>4, IdleIsRequest, MovesKeepIInv
<1> QED
  BY <1>6, <1>7 DEF InsertRow

LEMMA DeleteDishRowKeepsIInv ==
  ASSUME IInv, TypeOK', NEW s \in Sessions, DeleteDishRow(s)
  PROVE  IInv'
<1> DEFINE r == requests[s]
<1>1. TypeOK
  BY DEF IInv
<1>2. /\ r \in Request /\ r.phase = "deleting" /\ UNCHANGED <<disk, saved, erased, typed>>
      /\ typed \subseteq 1..saved
  BY <1>1 DEF DeleteDishRow, TypeOK, IInv, NamesAreUsed
<1>3. r.row \in Rows /\ r.old \in SUBSET Files
  BY <1>2, RequestShapes DEF Rows, Pictured
<1>4. Old(s) = r.old \ typed /\ File(s) = {} /\ MayName(s) = {r.row}
  BY <1>2 DEF Old, File, MayName
<1>5. CASE To(s, Idle) /\ UNCHANGED image
  BY <1>2, <1>5, EndKeepsIInv
<1>6. CASE image' = [image EXCEPT ![r.row] = Gone] /\ To(s, ThenRemove(r.old))
  <2> DEFINE n == ThenRemove(r.old)
  <2>1. /\ n \in Request /\ n.phase \in {"idle", "removing"}
        /\ n.phase = "removing" => n.old = r.old
    BY <1>3, ThenRemoveShape
  <2>2. requests'[s] = n
    BY <1>1, <1>6, <2>1, ToMoves
  <2>3. Old(s)' \subseteq Old(s)
    BY <1>2, <1>4, <2>1, <2>2 DEF Old
  <2>4. \A q \in Rows : image'[q] = IF q = r.row THEN Gone ELSE image[q]
    BY <1>1, <1>3, <1>6 DEF TypeOK
  <2>5. Gone \notin Files
    BY <1>1, NumbersAreNumbers
  <2>6. \A q \in Rows : q # r.row => image[q] \notin Old(s)
    BY <1>4 DEF IInv, RemovedIsDropped
  <2>7. \A q \in Rows : image'[q] \notin Old(s)'
    BY <1>3, <1>4, <2>3, <2>4, <2>5, <2>6
  <2>8. To(s, n) /\ n.phase \notin {"naming", "inserting"}
    BY <1>6, <2>1
  <2> HIDE DEF n
  <2> QED
    BY <1>2, <1>4, <2>1, <2>3, <2>4, <2>5, <2>7, <2>8, MovesKeepIInv
<1> QED
  BY <1>5, <1>6 DEF DeleteDishRow

LEMMA EraseRowsKeepsIInv ==
  ASSUME IInv, TypeOK', NEW s \in Sessions, EraseRows(s)
  PROVE  IInv'
<1> DEFINE r == requests[s]
<1>1. TypeOK
  BY DEF IInv
<1>2. /\ r \in Request /\ r.phase = "erasing" /\ UNCHANGED <<disk, saved, typed>>
      /\ typed \subseteq 1..saved
  BY <1>1 DEF EraseRows, TypeOK, IInv, NamesAreUsed
<1>3. r.old \in SUBSET Files
  BY <1>2, RequestShapes
<1>4. Old(s) = r.old \ typed /\ File(s) = {} /\ MayName(s) = Profiles \cup Orders
  BY <1>2 DEF Old, File, MayName
<1>5. CASE To(s, Idle) /\ UNCHANGED <<image, erased>>
  BY <1>2, <1>5, EndKeepsIInv
<1>6. ASSUME NEW sold \in SUBSET Dishes,
             image' = [x \in Rows |-> ErasedImage(x, sold)],
             erased' = TRUE, To(s, ThenRemove(r.old))
      PROVE  IInv'
  <2> DEFINE n == ThenRemove(r.old)
  <2>1. /\ n \in Request /\ n.phase \in {"idle", "removing"}
        /\ n.phase = "removing" => n.old = r.old
    BY <1>3, ThenRemoveShape
  <2>2. requests'[s] = n
    BY <1>1, <1>6, <2>1, ToMoves
  <2>3. Old(s)' \subseteq Old(s)
    BY <1>2, <1>4, <2>1, <2>2 DEF Old
  <2>4. NoImage \notin Files /\ Gone \notin Files
    BY <1>1, NumbersAreNumbers
  <2>5. \A q \in Rows : image'[q] = ErasedImage(q, sold)
    BY <1>6
  <2>6. \A q \in Rows : image'[q] = image[q] \/ image'[q] \notin Files
    BY <2>4, <2>5 DEF ErasedImage
  <2>7. \A q \in Profiles : q \in Rows /\ image'[q] \notin Files
    BY <2>4, <2>5 DEF ErasedImage, Rows
  <2>8. \A q \in Rows : image'[q] \in Old(s)' => q \in Orders
    <3> SUFFICES ASSUME NEW q \in Rows, image'[q] \in Old(s)
                 PROVE  q \in Orders
      BY <2>3
    <3>1. image'[q] = image[q]
      BY <1>3, <1>4, <2>6
    <3>2. q \in Profiles \cup Orders
      BY <1>4, <3>1 DEF IInv, RemovedIsDropped
    <3> QED
      BY <1>3, <1>4, <2>7, <3>2
  <2>9. n.phase = "removing" => MayName(s)' = Orders
    BY <1>6, <2>2 DEF MayName
  <2>10. n.phase = "idle" => Old(s)' = {}
    BY <2>2 DEF Old
  <2>11. \A q \in Rows : image'[q] \in Old(s)' => q \in MayName(s)'
    BY <2>1, <2>8, <2>9, <2>10
  <2>12. To(s, n) /\ n.phase \notin {"naming", "inserting"}
    BY <1>6, <2>1
  <2> HIDE DEF n
  <2> QED
    BY <1>2, <1>4, <1>6, <2>1, <2>3, <2>6, <2>11, <2>12, MovesKeepIInv
<1> QED
  BY <1>5, <1>6 DEF EraseRows

\* The path an operator types is the order's own, or none of these files, or counts
\* as typed from now on.
LEMMA PatchShapes ==
  ASSUME TypeOK, typed \subseteq 1..saved,
         NEW s \in Sessions, NEW o \in Orders, NEW path \in Paths,
         PatchOrderByAdmin(s, o, path)
  PROVE  /\ UNCHANGED <<disk, saved, erased, requests>>
         /\ typed \subseteq typed' /\ typed' \subseteq 1..saved
         /\ \A q \in Rows : \/ image'[q] = image[q]
                            \/ image'[q] \notin Files
                            \/ image'[q] \in typed'
<1>1. NoImage \notin Files /\ Elsewhere \notin Files
  BY NumbersAreNumbers
<1>2. {path} \cap Files \subseteq 1..saved
  BY <1>1 DEF Paths
<1>3. \A q \in Rows : image'[q] = IF q = o THEN path ELSE image[q]
  BY DEF PatchOrderByAdmin, TypeOK
<1>4. path \in Files => path \in FilesOf(o) \/ path \in typed'
  BY DEF PatchOrderByAdmin
<1>5. path \in FilesOf(o) => path = image[o]
  BY DEF FilesOf
<1>6. typed \subseteq typed' /\ typed' \subseteq 1..saved
  BY <1>2 DEF PatchOrderByAdmin
<1> QED
  BY <1>3, <1>4, <1>5, <1>6 DEF PatchOrderByAdmin

LEMMA PatchKeepsIInv ==
  ASSUME IInv, TypeOK', NEW s \in Sessions, NEW o \in Orders, NEW path \in Paths,
         PatchOrderByAdmin(s, o, path)
  PROVE  IInv'
<1>1. TypeOK /\ typed \subseteq 1..saved /\ requests[s] = Idle
  BY DEF IInv, NamesAreUsed, PatchOrderByAdmin
<1>2. /\ UNCHANGED <<disk, saved, erased, requests>>
      /\ typed \subseteq typed' /\ typed' \subseteq 1..saved
      /\ \A q \in Rows : \/ image'[q] = image[q]
                         \/ image'[q] \notin Files
                         \/ image'[q] \in typed'
  BY <1>1, PatchShapes
<1>3. To(s, Idle)
  BY <1>1, <1>2 DEF To, TypeOK
<1>4. Old(s)' = {}
  BY <1>1, <1>2, IdleIsRequest DEF Old
<1>5. File(s) = {}
  BY <1>1, IdleIsRequest DEF File
<1> QED
  BY <1>2, <1>3, <1>4, <1>5, IdleIsRequest, MovesKeepIInv

(***************************************************************************)
(* Invariance                                                              *)
(***************************************************************************)

LEMMA IInvInit == Init => IInv
<1> SUFFICES ASSUME Init PROVE IInv
  OBVIOUS
<1>1. TypeOK
  <2>1. image \in [Rows -> Files \cup {NoImage, Absent, Gone, Elsewhere}]
    BY DEF Init
  <2>2. saved \in 0..MaxFiles
    BY StoredFilesAssumption DEF Init
  <2>3. requests \in [Sessions -> Request]
    BY IdleIsRequest DEF Init
  <2> QED
    BY <2>1, <2>2, <2>3 DEF Init, TypeOK
<1>2. \A q \in Rows : FilesOf(q) = {}
  BY <1>1, NumbersAreNumbers DEF Init, FilesOf
<1>3. \A s \in Sessions : Old(s) = {} /\ File(s) = {}
  BY IdleIsRequest DEF Init, Old, File
<1>4. Pictured \subseteq Rows /\ Orders \subseteq Rows
  BY DEF Rows, Pictured
<1>5. typed = {}
  BY DEF Init
<1> QED
  BY <1>1, <1>2, <1>3, <1>4, <1>5
  DEF IInv, NamesAreUsed, SavedFilesWait, RemovedIsDropped, NamedFilesExist,
      PhotoKeptUntilErased, OneRowPerFile

LEMMA IInvStep == IInv /\ [Next]_vars => IInv'
<1> SUFFICES ASSUME IInv, [Next]_vars PROVE IInv'
  OBVIOUS
<1>1. TypeOK'
  BY TypeOKStep DEF IInv
<1>2. ASSUME NEW s \in Sessions, Starts(s) PROVE IInv'
  BY <1>1, <1>2, StartKeepsIInv
<1>3. ASSUME NEW s \in Sessions, SaveFile(s) PROVE IInv'
  BY <1>1, <1>3, SaveFileKeepsIInv
<1>4. ASSUME NEW s \in Sessions, RemoveStoredFiles(s) PROVE IInv'
  BY <1>1, <1>4, RemovalKeepsIInv
<1>5. ASSUME NEW s \in Sessions, WriteRow(s) PROVE IInv'
  BY <1>1, <1>5, WriteRowKeepsIInv
<1>6. ASSUME NEW s \in Sessions, InsertRow(s) PROVE IInv'
  BY <1>1, <1>6, InsertRowKeepsIInv
<1>7. ASSUME NEW s \in Sessions, DeleteDishRow(s) PROVE IInv'
  BY <1>1, <1>7, DeleteDishRowKeepsIInv
<1>8. ASSUME NEW s \in Sessions, EraseRows(s) PROVE IInv'
  BY <1>1, <1>8, EraseRowsKeepsIInv
<1>9. ASSUME NEW s \in Sessions, Fail(s) PROVE IInv'
  BY <1>9, EndKeepsIInv DEF Fail
<1>10. ASSUME NEW s \in Sessions, NEW o \in Orders, NEW path \in Paths,
              PatchOrderByAdmin(s, o, path)
       PROVE  IInv'
  BY <1>1, <1>10, PatchKeepsIInv
<1>11. CASE UNCHANGED vars
  <2>1. \A s \in Sessions : Old(s)' = Old(s) /\ File(s)' = File(s) /\ MayName(s)' = MayName(s)
    BY <1>11 DEF vars, Old, File, MayName
  <2>2. \A q \in Rows : FilesOf(q)' = FilesOf(q)
    BY <1>11 DEF vars, FilesOf
  <2>3. NamesAreUsed' /\ SavedFilesWait' /\ RemovedIsDropped'
    BY <1>11, <2>1, <2>2 DEF vars, IInv, NamesAreUsed, SavedFilesWait, RemovedIsDropped
  <2>4. NamedFilesExist' /\ PhotoKeptUntilErased' /\ OneRowPerFile'
    BY <1>11 DEF vars, IInv, NamedFilesExist, PhotoKeptUntilErased, OneRowPerFile, FilesOf
  <2> QED
    BY <1>1, <2>3, <2>4 DEF IInv
<1> QED
  BY <1>2, <1>3, <1>4, <1>5, <1>6, <1>7, <1>8, <1>9, <1>10, <1>11 DEF Next, Steps

\* A saved file waits on disk for one row, and what a request is to remove is named
\* by the row it writes first only.
THEOREM InductiveInvariant == Spec => []IInv
  BY IInvInit, IInvStep, PTL DEF Spec

\* Rows, files and requests in flight stay well formed.
THEOREM TypeCorrectness == Spec => []TypeOK
<1>1. IInv => TypeOK
  BY DEF IInv
<1> QED
  BY <1>1, InductiveInvariant, PTL

\* The picture a profile or a dish names is on disk, however requests overlap and
\* wherever they are cut short, unless an operator has typed its path into an order.
THEOREM PicturesExist == Spec => []NamedFilesExist
<1>1. IInv => NamedFilesExist
  BY DEF IInv
<1> QED
  BY <1>1, InductiveInvariant, PTL

\* The photo an order names is kept until the account is deleted, unless an operator
\* has typed its path.
THEOREM PhotosAreKept == Spec => []PhotoKeptUntilErased
<1>1. IInv => PhotoKeptUntilErased
  BY DEF IInv
<1> QED
  BY <1>1, InductiveInvariant, PTL

\* Two rows name one file only if an operator has typed its path into an order.
THEOREM RowsShareNoFile == Spec => []OneRowPerFile
<1>1. IInv => OneRowPerFile
  BY DEF IInv
<1> QED
  BY <1>1, InductiveInvariant, PTL

(***************************************************************************)
(* Refinement                                                              *)
(***************************************************************************)

\* A step saves a file, or removes what a request is to remove, or writes rows:
\* these then name what they named, no file, one that waits for its row, or one
\* whose path an operator has typed.
LEMMA StepShapes ==
  ASSUME IInv, NEW s \in Sessions,
         \/ Starts(s) \/ Steps(s) \/ Fail(s)
         \/ \E o \in Orders, path \in Paths : PatchOrderByAdmin(s, o, path)
  PROVE  \/ /\ UNCHANGED <<image, typed>>
            /\ saved' = saved + 1 /\ disk' = disk \cup {saved + 1}
         \/ UNCHANGED <<image, saved, typed>> /\ disk' \subseteq disk
         \/ /\ UNCHANGED <<disk, saved>> /\ typed \subseteq typed'
            /\ \A q \in Rows : \/ image'[q] = image[q]
                               \/ image'[q] \notin Files
                               \/ image'[q] \in File(s)
                               \/ image'[q] \in typed'
<1>1. TypeOK /\ typed \subseteq 1..saved
  BY DEF IInv, NamesAreUsed
<1>2. NoImage \notin Files /\ Gone \notin Files
  BY <1>1, NumbersAreNumbers
<1>3. CASE Starts(s) \/ Fail(s)
  BY <1>1, <1>3, StartShapes DEF Fail
<1>4. CASE SaveFile(s)
  BY <1>4 DEF SaveFile, FreshName
<1>5. CASE RemoveStoredFiles(s)
  BY <1>5 DEF RemoveStoredFiles
<1>6. CASE WriteRow(s)
  <2>1. File(s) = {requests[s].file} \ typed
    BY <1>6 DEF WriteRow, File
  <2> QED
    BY <1>1, <1>6, <2>1 DEF WriteRow, TypeOK
<1>7. CASE InsertRow(s)
  <2>1. File(s) = {requests[s].file} \ typed
    BY <1>7 DEF InsertRow, File
  <2> QED
    BY <1>1, <1>7, <2>1 DEF InsertRow, TypeOK
<1>8. CASE DeleteDishRow(s)
  BY <1>1, <1>2, <1>8 DEF DeleteDishRow, TypeOK
<1>9. CASE EraseRows(s)
  BY <1>1, <1>2, <1>9 DEF EraseRows, ErasedImage, TypeOK
<1>10. CASE \E o \in Orders, path \in Paths : PatchOrderByAdmin(s, o, path)
  BY <1>1, <1>10, PatchShapes
<1> QED
  BY <1>3, <1>4, <1>5, <1>6, <1>7, <1>8, <1>9, <1>10 DEF Steps

\* A profile or a dish names the file.
Named(f) == \E r \in Pictured : image[r] = f

LEMMA StageOfFile ==
  ASSUME TypeOK, NEW f \in Files
  PROVE  FileLifeStage[f] = IF f > saved THEN "unused"
                            ELSE IF f \in typed THEN "typed"
                            ELSE IF Named(f) THEN "named"
                            ELSE IF f \in disk THEN "loose" ELSE "removed"
  BY DEF FileLifeStage, Named

LEMMA NamedFiles ==
  ASSUME IInv, NEW f \in Files, Named(f)
  PROVE  (f \in disk \/ f \in typed) /\ f <= saved
<1>1. PICK r \in Pictured : image[r] = f
  BY DEF Named
<1>2. r \in Rows /\ f \in FilesOf(r)
  BY <1>1 DEF Rows, Pictured, FilesOf
<1>3. (f \in disk \/ f \in typed) /\ f \in 1..saved
  BY <1>1, <1>2 DEF IInv, NamedFilesExist, NamesAreUsed
<1> QED
  BY <1>3

LEMMA FilesTakeLifeSteps ==
  ASSUME IInv, IInv', [Next]_vars, NEW f \in Files
  PROVE  \/ FileLifeStage'[f] = FileLifeStage[f]
         \/ <<FileLifeStage[f], FileLifeStage'[f]>> \in Abstract!LifeSteps
<1> USE DEF Abstract!LifeSteps
<1>1. TypeOK /\ TypeOK'
  BY DEF IInv
<1>2. /\ saved \in Nat /\ f \in Nat
      /\ Named(f) => (f \in disk \/ f \in typed) /\ f <= saved
      /\ f \in typed => f <= saved
  BY <1>1, NumbersAreNumbers, NamedFiles DEF Files, IInv, NamesAreUsed
<1>3. /\ saved' \in Nat
      /\ Named(f)' => (f \in disk' \/ f \in typed') /\ f <= saved'
      /\ f \in typed' => f <= saved'
  <2>1. \A r \in Pictured : r \in Rows
    BY DEF Rows, Pictured
  <2>2. Named(f)' => (f \in disk' \/ f \in typed') /\ f \in 1..saved'
    BY <2>1 DEF Named, IInv, NamedFilesExist, NamesAreUsed, FilesOf
  <2>3. f \in typed' => f \in 1..saved'
    BY DEF IInv, NamesAreUsed
  <2> QED
    BY <1>1, <2>2, <2>3 DEF TypeOK
<1>4. FileLifeStage[f] = IF f > saved THEN "unused"
                         ELSE IF f \in typed THEN "typed"
                         ELSE IF Named(f) THEN "named"
                         ELSE IF f \in disk THEN "loose" ELSE "removed"
  BY <1>1, StageOfFile
<1>5. FileLifeStage'[f] = IF f > saved' THEN "unused"
                          ELSE IF f \in typed' THEN "typed"
                          ELSE IF Named(f)' THEN "named"
                          ELSE IF f \in disk' THEN "loose" ELSE "removed"
  BY DEF FileLifeStage, Named
<1>6. ASSUME UNCHANGED <<image, typed>>, saved' = saved + 1, disk' = disk \cup {saved + 1}
      PROVE  \/ FileLifeStage'[f] = FileLifeStage[f]
             \/ <<FileLifeStage[f], FileLifeStage'[f]>> \in Abstract!LifeSteps
  <2>1. Named(f)' <=> Named(f)
    BY <1>6 DEF Named
  <2> QED
    BY <1>2, <1>4, <1>5, <1>6, <2>1
<1>7. ASSUME UNCHANGED <<image, saved, typed>>, disk' \subseteq disk
      PROVE  \/ FileLifeStage'[f] = FileLifeStage[f]
             \/ <<FileLifeStage[f], FileLifeStage'[f]>> \in Abstract!LifeSteps
  <2>1. Named(f)' <=> Named(f)
    BY <1>7 DEF Named
  <2> QED
    BY <1>2, <1>4, <1>5, <1>7, <2>1
<1>8. ASSUME NEW s \in Sessions, UNCHANGED <<disk, saved>>, typed \subseteq typed',
             \A q \in Rows : \/ image'[q] = image[q]
                             \/ image'[q] \notin Files
                             \/ image'[q] \in File(s)
                             \/ image'[q] \in typed'
      PROVE  \/ FileLifeStage'[f] = FileLifeStage[f]
             \/ <<FileLifeStage[f], FileLifeStage'[f]>> \in Abstract!LifeSteps
  <2>1. Pictured \subseteq Rows
    BY DEF Rows, Pictured
  <2>2. File(s) \subseteq disk
    BY DEF IInv, SavedFilesWait
  <2>3. Named(f)' => Named(f) \/ f \in disk \/ f \in typed'
    BY <1>8, <2>1, <2>2 DEF Named
  <2>4. CASE f \in typed'
    BY <1>2, <1>3, <1>4, <1>5, <1>8, <2>4
  <2>5. CASE f \notin typed'
    BY <1>2, <1>3, <1>4, <1>5, <1>8, <2>3, <2>5
  <2> QED
    BY <2>4, <2>5
<1>9. CASE UNCHANGED vars
  BY <1>9 DEF vars, FileLifeStage
<1> QED
  BY <1>6, <1>7, <1>8, <1>9, StepShapes DEF Next

\* StoredFiles implements FileLife: a file is written under a fresh name, is named
\* only while it is on disk, is removed only when no profile and no dish names it,
\* and never comes back.
THEOREM FilesLiveInOrder == Spec => LivesInOrder
<1>1. Init => Abstract!Init
  <2> SUFFICES ASSUME Init PROVE FileLifeStage = [f \in Files |-> "unused"]
    BY DEF Abstract!Init
  <2>1. \A f \in Files : f > saved
    BY StoredFilesAssumption DEF Init, Files
  <2> QED
    BY <2>1 DEF FileLifeStage
<1>2. IInv /\ IInv' /\ [Next]_vars => [Abstract!Next]_FileLifeStage
  <2> SUFFICES ASSUME IInv, IInv', [Next]_vars
               PROVE  Abstract!Next
    OBVIOUS
  <2>1. FileLifeStage' \in [Files -> Abstract!Life]
    BY DEF FileLifeStage, Abstract!Life
  <2>2. \A f \in Files : \/ FileLifeStage'[f] = FileLifeStage[f]
                         \/ <<FileLifeStage[f], FileLifeStage'[f]>> \in Abstract!LifeSteps
    BY FilesTakeLifeSteps
  <2> QED
    BY <2>1, <2>2 DEF Abstract!Next
<1> QED
  BY <1>1, <1>2, InductiveInvariant, PTL DEF Spec, LivesInOrder, Abstract!Spec
=============================================================================
