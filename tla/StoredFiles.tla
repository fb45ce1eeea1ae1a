------------------------------- MODULE StoredFiles -------------------------------
(***************************************************************************)
(* StoredFiles: the pictures of one account, on disk and in the rows that  *)
(* name them, under requests that overlap.                                 *)
(*                                                                         *)
(* Profile rows (the cook's profile image, the user's avatar) and dishes   *)
(* replace their picture in the order: read the row, save the new file     *)
(* under a fresh name, write the row, remove the file the row named when   *)
(* it was read.  A checkout saves a photo before the transaction that      *)
(* makes the order row; the gallery only ever adds files.  Operators may   *)
(* type any path into an order.  Each await is the end of an action.       *)
(***************************************************************************)
EXTENDS Integers, FiniteSets

CONSTANTS
  Profiles,   \* rows that always exist: the cook's profile, the user
  Dishes,     \* dish rows that may be created
  Orders,     \* order rows that may be created with a checkout photo
  Sessions,   \* requests the server may be handling at the same time
  MaxFiles,   \* bound: files saved in a behaviour
  Failures    \* whether a request may be cut short (crash, database error)

Rows == Profiles \cup Dishes \cup Orders

\* Rows whose picture can be replaced.
Pictured == Profiles \cup Dishes

\* File names carry a fresh uuid: the n-th file saved is n.
Files == 1..MaxFiles

NoImage == 0    \* the column is null
Absent == -1    \* the row has not been created
Gone == -2      \* the row has been deleted; ids are not used again
Elsewhere == -3 \* a path under which there is none of these files

ASSUME StoredFilesAssumption ==
  /\ MaxFiles \in Nat /\ Failures \in BOOLEAN
  /\ Dishes # Orders
  /\ Profiles \cap Dishes = {} /\ Pictured \cap Orders = {}

Idle == [phase |-> "idle"]

Request ==
  {Idle}
    \cup [phase: {"saving"}, row: Pictured, old: SUBSET Files]
    \cup [phase: {"naming"}, row: Pictured, old: SUBSET Files, file: Files]
    \cup [phase: {"savingNew"}, table: {Dishes, Orders}]
    \cup [phase: {"inserting"}, table: {Dishes, Orders}, file: Files]
    \cup [phase: {"deleting"}, row: Dishes, old: SUBSET Files]
    \cup [phase: {"gallery"}]
    \cup [phase: {"erasing", "removing"}, old: SUBSET Files]

VARIABLES
  image,     \* image[r]: the file row r names, or NoImage, Absent or Gone
  disk,      \* the files in the upload directory
  saved,     \* how many files have been saved (makes names fresh)
  erased,    \* whether the account has been deleted
  typed,     \* history: the files whose path an operator has typed into an order
  requests   \* requests[s]: where the handler of session s is

vars == <<image, disk, saved, erased, typed, requests>>

Init ==
  /\ image = [r \in Rows |-> IF r \in Profiles THEN NoImage ELSE Absent]
  /\ disk = {}
  /\ saved = 0
  /\ erased = FALSE
  /\ typed = {}
  /\ requests = [s \in Sessions |-> Idle]

TypeOK ==
  /\ image \in [Rows -> Files \cup {NoImage, Absent, Gone, Elsewhere}]
  /\ disk \subseteq Files
  /\ saved \in 0..MaxFiles
  /\ erased \in BOOLEAN
  /\ typed \subseteq Files
  /\ requests \in [Sessions -> Request]

-----------------------------------------------------------------------------
(* Rows and files *)

To(s, r) == requests' = [requests EXCEPT ![s] = r]

Exists(r) == image[r] \notin {Absent, Gone}

\* The file a row names, as a set.
FilesOf(r) == {image[r]} \cap Files

\* What is left to do once the row is written.
ThenRemove(old) == IF old = {} THEN Idle ELSE [phase |-> "removing", old |-> old]

\* Bug variant: names repeat, as when the extension is all that differs.
FreshName_Repeats == 1

\* `${kind}-${uuid()}${ext}`
FreshName == saved + 1

\* storage.save*: the file is on disk when the call returns its path.
SaveFile(s) ==
  LET r == requests[s]
  IN  /\ r.phase \in {"saving", "savingNew", "gallery"}
      /\ saved < MaxFiles
      /\ saved' = saved + 1
      /\ disk' = disk \cup {FreshName}
      /\ \/ /\ r.phase = "saving"
            /\ To(s, [phase |-> "naming", row |-> r.row, old |-> r.old, file |-> FreshName])
         \/ /\ r.phase = "savingNew"
            /\ To(s, [phase |-> "inserting", table |-> r.table, file |-> FreshName])
         \/ /\ r.phase = "gallery"
            /\ To(s, Idle)
      /\ UNCHANGED <<image, erased, typed>>

\* Bug variant: the removal is left out.
RemoveStoredFiles_Skips(s) ==
  /\ requests[s].phase = "removing"
  /\ To(s, Idle)
  /\ UNCHANGED <<disk, image, saved, erased, typed>>

\* A file that is missing already is ignored.
RemoveStoredFiles(s) ==
  /\ requests[s].phase = "removing"
  /\ disk' = disk \ requests[s].old
  /\ To(s, Idle)
  /\ UNCHANGED <<image, saved, erased, typed>>

-----------------------------------------------------------------------------
(* Replacing a picture *)

\* updateMyProfileImage of the cook, and updateProfileImageForCrm, which operators
\* may use after the account was deleted as well.
UpdateProfileImage(s, p) ==
  /\ requests[s] = Idle
  /\ To(s, [phase |-> "saving", row |-> p, old |-> FilesOf(p)])
  /\ UNCHANGED <<image, disk, saved, erased, typed>>

\* updateForCook, when the form has an image; its other columns are not here.
UpdateDish(s, d) ==
  /\ requests[s] = Idle /\ ~erased
  /\ Exists(d)
  /\ To(s, [phase |-> "saving", row |-> d, old |-> FilesOf(d)])
  /\ UNCHANGED <<image, disk, saved, erased, typed>>

\* Bug variant: the old file is removed first, while the row still names it.
WriteRow_RemovesFirst(s) ==
  LET r == requests[s]
  IN  /\ r.phase = "naming" /\ Exists(r.row)
      /\ IF r.old \cap disk # {}
         THEN /\ disk' = disk \ r.old
              /\ UNCHANGED <<image, requests>>
         ELSE /\ image' = [image EXCEPT ![r.row] = r.file]
              /\ To(s, Idle)
              /\ UNCHANGED disk
      /\ UNCHANGED <<saved, erased, typed>>

\* The update by id; it fails, and the new file stays, if the dish is gone.
WriteRow(s) ==
  LET r == requests[s]
  IN  /\ r.phase = "naming"
      /\ \/ /\ image[r.row] # Gone
            /\ image' = [image EXCEPT ![r.row] = r.file]
            /\ To(s, ThenRemove(r.old))
         \/ /\ image[r.row] = Gone
            /\ To(s, Idle)
            /\ UNCHANGED image
      /\ UNCHANGED <<disk, saved, erased, typed>>

-----------------------------------------------------------------------------
(* Rows that are created with a picture *)

\* createForCook
CreateDish(s) ==
  /\ requests[s] = Idle /\ ~erased
  /\ To(s, [phase |-> "savingNew", table |-> Dishes])
  /\ UNCHANGED <<image, disk, saved, erased, typed>>

\* createFromCart with a photo; the order is the first of the checkout.
Checkout(s) ==
  /\ requests[s] = Idle /\ ~erased
  /\ To(s, [phase |-> "savingNew", table |-> Orders])
  /\ UNCHANGED <<image, disk, saved, erased, typed>>

\* The insert of a row with an id of its own; or a refusal of what is checked
\* after the file was saved (the dish's text; the cooks and the transaction of
\* the checkout): the file stays.
InsertRow(s) ==
  LET r == requests[s]
  IN  /\ r.phase = "inserting"
      /\ \/ \E x \in r.table : /\ image[x] = Absent
                              /\ image' = [image EXCEPT ![x] = r.file]
         \/ UNCHANGED image
      /\ To(s, Idle)
      /\ UNCHANGED <<disk, saved, erased, typed>>

-----------------------------------------------------------------------------
(* Deletions, and the gallery *)

DeleteDish(s, d) ==
  /\ requests[s] = Idle /\ ~erased
  /\ Exists(d)
  /\ To(s, [phase |-> "deleting", row |-> d, old |-> FilesOf(d)])
  /\ UNCHANGED <<image, disk, saved, erased, typed>>

\* dish.delete: an error if the dish is gone, or if a cart or an order refers
\* to it (foreign keys).
DeleteDishRow(s) ==
  LET r == requests[s]
  IN  /\ r.phase = "deleting"
      /\ \/ /\ Exists(r.row)
            /\ image' = [image EXCEPT ![r.row] = Gone]
            /\ To(s, ThenRemove(r.old))
         \/ To(s, Idle) /\ UNCHANGED image
      /\ UNCHANGED <<disk, saved, erased, typed>>

\* The files that removeStoredFiles finds under the collected paths.  A dish
\* names its picture by the public URL, under which no file is found.
CollectDeletionFilePaths ==
  UNION {FilesOf(r) : r \in Profiles \cup Orders}

DeleteAccount(s) ==
  /\ requests[s] = Idle /\ ~erased
  /\ To(s, [phase |-> "erasing", old |-> CollectDeletionFilePaths])
  /\ UNCHANGED <<image, disk, saved, erased, typed>>

\* Dishes in somebody's order keep their row; orders keep the photo's path.
ErasedImage(r, sold) ==
  IF r \in Profiles THEN NoImage
  ELSE IF r \in Dishes /\ Exists(r) THEN IF r \in sold THEN NoImage ELSE Gone
  ELSE image[r]

\* Bug variant: the files are removed first, as submitDocuments does.
EraseRows_RemovesFirst(s) ==
  /\ requests[s].phase = "erasing"
  /\ disk' = disk \ requests[s].old
  /\ \/ /\ \E sold \in SUBSET Dishes : image' = [x \in Rows |-> ErasedImage(x, sold)]
        /\ erased' = TRUE
     \/ UNCHANGED <<image, erased>>
  /\ To(s, Idle)
  /\ UNCHANGED <<saved, typed>>

\* The transaction of deleteAccount.  (Another customer's cart with a dish of
\* this cook makes it fail as a whole.)
EraseRows(s) ==
  LET r == requests[s]
  IN  /\ r.phase = "erasing"
      /\ \/ /\ \E sold \in SUBSET Dishes :
                 image' = [x \in Rows |-> ErasedImage(x, sold)]
            /\ erased' = TRUE
            /\ To(s, ThenRemove(r.old))
         \/ To(s, Idle) /\ UNCHANGED <<image, erased>>
      /\ UNCHANGED <<disk, saved, typed>>

\* The paths an operator can type: none, those of files that have been saved (whether
\* they are still there or not), others.  A name to come has a uuid nobody knows.
Paths == {NoImage, Elsewhere} \cup 1..saved

\* patchOrderByAdmin with a checkoutPhotoPath, which is written as it is; no file is
\* saved or removed.  The order's own path, sent again, changes nothing.
PatchOrderByAdmin(s, o, path) ==
  /\ requests[s] = Idle
  /\ Exists(o)
  /\ path \in Paths
  /\ image' = [image EXCEPT ![o] = path]
  /\ typed' = typed \cup (({path} \cap Files) \ FilesOf(o))
  /\ UNCHANGED <<disk, saved, erased, requests>>

\* uploadImage of the gallery: the directory is the list.
UploadToGallery(s) ==
  /\ requests[s] = Idle
  /\ To(s, [phase |-> "gallery"])
  /\ UNCHANGED <<image, disk, saved, erased, typed>>

\* The server dies, or a statement or a write of a file fails.
Fail(s) ==
  /\ Failures
  /\ requests[s] # Idle
  /\ To(s, Idle)
  /\ UNCHANGED <<image, disk, saved, erased, typed>>

Steps(s) ==
  \/ SaveFile(s) \/ RemoveStoredFiles(s)
  \/ WriteRow(s) \/ InsertRow(s)
  \/ DeleteDishRow(s) \/ EraseRows(s)

Starts(s) ==
  \/ \E p \in Profiles : UpdateProfileImage(s, p)
  \/ \E d \in Dishes : UpdateDish(s, d) \/ DeleteDish(s, d)
  \/ CreateDish(s)
  \/ Checkout(s)
  \/ DeleteAccount(s)
  \/ UploadToGallery(s)

Next ==
  \E s \in Sessions :
    \/ Starts(s) \/ Steps(s) \/ Fail(s)
    \/ \E o \in Orders, path \in Paths : PatchOrderByAdmin(s, o, path)

Spec == Init /\ [][Next]_vars

\* What the server owes a request it has begun: its steps are taken.
FairSpec == Spec /\ \A s \in Sessions : WF_vars(Steps(s))

-----------------------------------------------------------------------------
(* Properties *)

\* However requests overlap and wherever they are cut short, the picture a
\* profile or a dish names is on disk, unless an operator has typed its path into an
\* order: a file is removed only after the row that named it has been written, and
\* no request can name it again.
NamedFilesExist ==
  \A r \in Pictured : FilesOf(r) \ typed \subseteq disk

\* The photo that a checkout has saved for an order is on disk as long as the order
\* names it, until the account is deleted (the order then keeps the path of a file
\* that is gone).  A path that an operator has typed is no promise.
PhotoKeptUntilErased ==
  ~erased => \A o \in Orders : FilesOf(o) \ typed \subseteq disk

\* Two rows name one file only if an operator has typed its path into an order, so
\* that replacing a picture never takes away another row's.
OneRowPerFile ==
  \A q, r \in Rows : q # r => FilesOf(q) \cap FilesOf(r) \subseteq typed

Quiet == \A s \in Sessions : requests[s] = Idle

\* FileLife, with the pictures of profiles and dishes as the named files, and a file
\* left to the operator who typed its path.
FileLifeStage ==
  [f \in Files |->
     IF f > saved THEN "unused"
     ELSE IF f \in typed THEN "typed"
     ELSE IF \E r \in Pictured : image[r] = f THEN "named"
     ELSE IF f \in disk THEN "loose" ELSE "removed"]

Abstract == INSTANCE FileLife WITH life <- FileLifeStage

LivesInOrder == Abstract!Spec

\* With one request at a time and none cut short, a picture that a profile or a
\* dish has named stays named or is removed in the end: nothing but the account's
\* deletion leaves a replaced file behind.
ReplacedFilesRemoved ==
  \A f \in Files, r \in Pictured :
    [](image[r] = f => \/ <>(f \notin disk)
                       \/ <>[](image[r] = f)
                       \/ r \in Dishes /\ <>erased)
=============================================================================
