----------------------------- MODULE CookVerification -----------------------------
(***************************************************************************)
(* CookVerification: a cook's application, the documents it rests on and   *)
(* the verdict, under requests that overlap.                               *)
(*                                                                         *)
(* A submission reads the former documents, saves the new files, removes   *)
(* the former ones and then writes, in one transaction, the row that names *)
(* the files and the cook's status.  An operator's verdict reads, checks   *)
(* and writes both rows in one transaction; moderation writes the cook's   *)
(* row only.  The documents of one cook have nothing to do with another's, *)
(* so there is one cook here; and no operator types the path of a document *)
(* into an order.                                                          *)
(***************************************************************************)
EXTENDS Integers

CONSTANTS
  Sessions,   \* requests the server may be handling at the same time
  MaxFiles    \* bound: files saved in a behaviour

VerificationStatus == {"PENDING", "UNDER_REVIEW", "APPROVED", "REJECTED"}

NoProfile == "NO_PROFILE"   \* the user has no Cook row yet

\* File names carry a fresh uuid: the n-th file saved is n.  The kitchen photos of
\* one submission (1 to 6) are saved, named and removed together: they are one.
Files == 1..MaxFiles

NoFile == 0    \* null, or '' in databases where the column is not nullable

Documents == [kitchen: Files, health: Files \cup {NoFile}, certificate: Files,
              rejectionReason: {"null", "set"}]

NoDocuments == [kitchen |-> NoFile, health |-> NoFile, certificate |-> NoFile,
                rejectionReason |-> "null"]

Idle == [phase |-> "idle"]

\* What a submission carries: whether it has a health certificate, the files to
\* remove, and the files to name.
Submission == [phase: {"reading", "kitchen", "health", "certificate", "removing", "writing"},
               withHealth: BOOLEAN, old: SUBSET Files,
               new: [kitchen: Files \cup {NoFile}, health: Files \cup {NoFile},
                     certificate: Files \cup {NoFile}, rejectionReason: {"null"}]]

Request ==
  {Idle} \cup Submission
    \cup [phase: {"creating"}, submits: BOOLEAN, withHealth: BOOLEAN]
    \cup [phase: {"deciding"}, status: VerificationStatus]
    \cup [phase: {"erasing", "erased"}, old: SUBSET Files]

VARIABLES
  cookStatus,  \* Cook.verificationStatus, or NoProfile
  documents,   \* the CookVerification row, or NoDocuments
  moderated,   \* history: moderation has rejected the cook since the last verdict
  disk,        \* the files in the upload directory
  saved,       \* how many files have been saved (makes names fresh)
  accountGone, \* whether the account has been deleted
  requests,    \* requests[s]: where the handler of session s is
  overlapped,  \* history: something was done while a request was under way
  cut          \* history: some request was cut short

vars == <<cookStatus, documents, moderated, disk, saved, accountGone, requests, overlapped, cut>>
rows == <<cookStatus, documents, moderated, accountGone>>
files == <<disk, saved>>

Init ==
  /\ cookStatus \in {NoProfile, "PENDING"}
  /\ documents = NoDocuments
  /\ moderated = FALSE
  /\ disk = {}
  /\ saved = 0
  /\ accountGone = FALSE
  /\ requests = [s \in Sessions |-> Idle]
  /\ overlapped = FALSE /\ cut = FALSE

TypeOK ==
  /\ cookStatus \in VerificationStatus \cup {NoProfile}
  /\ documents \in Documents \cup {NoDocuments}
  /\ moderated \in BOOLEAN /\ accountGone \in BOOLEAN
  /\ disk \subseteq Files
  /\ saved \in 0..MaxFiles
  /\ requests \in [Sessions -> Request]
  /\ overlapped \in BOOLEAN /\ cut \in BOOLEAN

-----------------------------------------------------------------------------
(* Finding the cook *)

UnderWay(S) == \E t \in S : requests[t] # Idle

Moves(s, r) ==
  /\ requests' = [requests EXCEPT ![s] = r]
  /\ overlapped' = (overlapped \/ UnderWay(Sessions \ {s}))

To(s, r) == Moves(s, r) /\ UNCHANGED cut

Submitting(withHealth) ==
  [phase |-> "reading", withHealth |-> withHealth, old |-> {}, new |-> NoDocuments]

\* loadCookForUserOrCreate, of getStatusForUser (submits = FALSE) and of
\* submitForUser.  The files were checked for number, type and size.
LoadCook(s, submits, withHealth) ==
  /\ requests[s] = Idle /\ ~accountGone
  /\ \/ /\ cookStatus = NoProfile
        /\ To(s, [phase |-> "creating", submits |-> submits, withHealth |-> withHealth])
     \/ /\ cookStatus # NoProfile /\ submits
        /\ To(s, Submitting(withHealth))
  /\ UNCHANGED <<rows, files>>

\* cook.create: an error if another request has created the row (userId is unique).
CreateCook(s) ==
  LET r == requests[s]
  IN  /\ r.phase = "creating"
      /\ \/ /\ cookStatus = NoProfile
            /\ cookStatus' = "PENDING"
            /\ To(s, IF r.submits THEN Submitting(r.withHealth) ELSE Idle)
         \/ /\ cookStatus # NoProfile
            /\ To(s, Idle)
            /\ UNCHANGED cookStatus
      /\ UNCHANGED <<documents, moderated, accountGone, files>>

-----------------------------------------------------------------------------
(* Submitting documents *)

\* Bug variant: the former health certificate is removed even if it is kept.
OldPaths_All(withHealth) ==
  {documents.kitchen, documents.certificate, documents.health} \ {NoFile}

\* The former files that the submission replaces.
OldPaths(withHealth) ==
  {documents.kitchen, documents.certificate, IF withHealth THEN documents.health ELSE NoFile}
    \ {NoFile}

\* findUnique of the former row; without a new health certificate the former one
\* is kept.
ReadExisting(s) ==
  LET r == requests[s]
  IN  /\ r.phase = "reading"
      /\ To(s, [r EXCEPT !.phase = "kitchen", !.old = OldPaths(r.withHealth),
                         !.new = [NoDocuments EXCEPT
                                    !.health = IF r.withHealth THEN NoFile
                                               ELSE documents.health]])
      /\ UNCHANGED <<rows, files>>

\* Bug variant: the name is the kind of document, without the uuid.
FreshName_Repeats == 1

\* `${kind}-${uuid()}${ext}`
FreshName == saved + 1

\* saveVerificationFile
Save(s, r) ==
  /\ saved < MaxFiles
  /\ saved' = saved + 1
  /\ disk' = disk \cup {FreshName}
  /\ To(s, r)
  /\ UNCHANGED rows

SaveKitchenPhotos(s) ==
  LET r == requests[s]
  IN  /\ r.phase = "kitchen"
      /\ Save(s, [r EXCEPT !.phase = IF r.withHealth THEN "health" ELSE "certificate",
                           !.new.kitchen = FreshName])

SaveHealthCert(s) ==
  LET r == requests[s]
  IN  /\ r.phase = "health"
      /\ Save(s, [r EXCEPT !.phase = "certificate", !.new.health = FreshName])

SaveCertificate(s) ==
  LET r == requests[s]
  IN  /\ r.phase = "certificate"
      /\ Save(s, [r EXCEPT !.phase = "removing", !.new.certificate = FreshName])

\* removeStoredFiles, before the transaction: the row still names the files.
RemoveOldPaths(s) ==
  /\ requests[s].phase = "removing"
  /\ disk' = disk \ requests[s].old
  /\ To(s, [requests[s] EXCEPT !.phase = "writing"])
  /\ UNCHANGED <<rows, saved>>

\* Bug variant: the upsert leaves the reason of the former verdict alone.
Upserted_KeepsReason(new) == [new EXCEPT !.rejectionReason = documents.rejectionReason]

Upserted(new) == new

\* Bug variant: two statements that commit on their own, the status first.
WriteDocuments_StatusFirst(s) ==
  LET r == requests[s]
  IN  /\ r.phase = "writing"
      /\ IF cookStatus # "UNDER_REVIEW"
         THEN cookStatus' = "UNDER_REVIEW" /\ UNCHANGED <<documents, requests, overlapped, cut>>
         ELSE documents' = Upserted(r.new) /\ To(s, Idle) /\ UNCHANGED cookStatus
      /\ moderated' = FALSE
      /\ UNCHANGED <<accountGone, files>>

\* The transaction: the upsert of the documents, and the cook's status.
WriteDocuments(s) ==
  LET r == requests[s]
  IN  /\ r.phase = "writing"
      /\ documents' = Upserted(r.new)
      /\ cookStatus' = "UNDER_REVIEW"
      /\ moderated' = FALSE
      /\ To(s, Idle)
      /\ UNCHANGED <<accountGone, files>>

-----------------------------------------------------------------------------
(* The verdict *)

\* updateStatusByAdmin: the cook has submitted documents.  (A rejection comes with
\* a reason.)
UpdateStatusByAdmin(s, status) ==
  /\ requests[s] = Idle
  /\ cookStatus # NoProfile
  /\ documents # NoDocuments
  /\ To(s, [phase |-> "deciding", status |-> status])
  /\ UNCHANGED <<rows, files>>

ReasonOf(status) == IF status = "REJECTED" THEN "set" ELSE "null"

\* The transaction; it fails as a whole if the documents are gone by now.
WriteVerdict(s) ==
  LET r == requests[s]
  IN  /\ r.phase = "deciding"
      /\ \/ /\ documents # NoDocuments
            /\ cookStatus' = r.status
            /\ documents' = [documents EXCEPT !.rejectionReason = ReasonOf(r.status)]
            /\ moderated' = FALSE
         \/ documents = NoDocuments /\ UNCHANGED <<cookStatus, documents, moderated>>
      /\ To(s, Idle)
      /\ UNCHANGED <<accountGone, files>>

\* resolveReport with REJECT_COOK: the cook's row only.
RejectCook ==
  /\ cookStatus # NoProfile
  /\ cookStatus' = "REJECTED"
  /\ moderated' = TRUE
  /\ overlapped' = (overlapped \/ UnderWay(Sessions))
  /\ UNCHANGED <<documents, accountGone, files, requests, cut>>

-----------------------------------------------------------------------------
(* Deleting the account, as far as it concerns the documents *)

DeleteAccount(s) ==
  /\ requests[s] = Idle /\ ~accountGone
  /\ To(s, [phase |-> "erasing",
            old |-> {documents.kitchen, documents.health, documents.certificate} \ {NoFile}])
  /\ UNCHANGED <<rows, files>>

\* Its transaction: the verification row goes, the cook's status stays.
EraseDocuments(s) ==
  LET r == requests[s]
  IN  /\ r.phase = "erasing"
      /\ documents' = NoDocuments
      /\ accountGone' = TRUE
      /\ To(s, [phase |-> "erased", old |-> r.old])
      /\ UNCHANGED <<cookStatus, moderated, files>>

RemoveErased(s) ==
  /\ requests[s].phase = "erased"
  /\ disk' = disk \ requests[s].old
  /\ To(s, Idle)
  /\ UNCHANGED <<rows, saved>>

\* The server dies, or a statement or a write of a file fails.
Fail(s) ==
  /\ requests[s] # Idle
  /\ Moves(s, Idle) /\ cut' = TRUE
  /\ UNCHANGED <<rows, files>>

Steps(s) ==
  \/ CreateCook(s) \/ ReadExisting(s)
  \/ SaveKitchenPhotos(s) \/ SaveHealthCert(s) \/ SaveCertificate(s)
  \/ RemoveOldPaths(s) \/ WriteDocuments(s)
  \/ WriteVerdict(s)
  \/ EraseDocuments(s) \/ RemoveErased(s)

Starts(s) ==
  \/ \E submits, withHealth \in BOOLEAN : LoadCook(s, submits, withHealth)
  \/ \E status \in VerificationStatus : UpdateStatusByAdmin(s, status)
  \/ DeleteAccount(s)

Next ==
  \/ \E s \in Sessions : Starts(s) \/ Steps(s) \/ Fail(s)
  \/ RejectCook

Spec == Init /\ [][Next]_vars

-----------------------------------------------------------------------------
(* Properties *)

Quiet == ~UnderWay(Sessions)

\* "rejectionReason is required when status is REJECTED ... For other statuses,
\* rejectionReason is cleared": a cook reads a reason exactly when the operators'
\* verdict stands as a rejection, whoever resubmits or decides meanwhile; only
\* moderation rejects without one.
ReasonIffRejected ==
  documents # NoDocuments =>
    /\ documents.rejectionReason = "set" => cookStatus = "REJECTED"
    /\ cookStatus = "REJECTED" /\ ~moderated => documents.rejectionReason = "set"

\* No verdict without documents: a cook of a live account is approved or under
\* review only while there are documents the verdict can rest on.
VerdictOnDocuments ==
  cookStatus \in {"UNDER_REVIEW", "APPROVED"} /\ ~accountGone => documents # NoDocuments

\* As long as no request was cut short, the kitchen photos and the certificate the row
\* names are on disk once all requests have ended, even if submissions overlap:
\* whoever removes them writes the row afterwards.
PapersOnDisk ==
  ~cut /\ Quiet /\ documents # NoDocuments =>
    {documents.kitchen, documents.certificate} \subseteq disk

\* As long as requests did not overlap and none was cut short, the disk holds exactly the files
\* the row names: a resubmission keeps the health certificate it does not replace
\* and leaves no former file behind, and a deleted account leaves none.
DiskHoldsDocuments ==
  ~overlapped /\ ~cut /\ Quiet =>
    disk = {documents.kitchen, documents.health, documents.certificate} \ {NoFile}

-----------------------------------------------------------------------------
(* What keeps PapersOnDisk: the files a submission has saved are its own     *)
(* until it names them, so that nobody removes them, and a row whose papers  *)
(* have been removed is about to be written.                                 *)

Submits(r) ==
  r.phase \in {"reading", "kitchen", "health", "certificate", "removing", "writing"}

Named(papers) == {papers.kitchen, papers.health, papers.certificate} \ {NoFile}

\* The files a request will name, those of them it has saved itself, and those it
\* will remove.
NamedBy(r) == IF Submits(r) THEN Named(r.new) ELSE {}

SavedBy(r) ==
  IF Submits(r)
  THEN ({r.new.kitchen, r.new.certificate}
          \cup (IF r.withHealth THEN {r.new.health} ELSE {})) \ {NoFile}
  ELSE {}

RemovedBy(r) == IF Submits(r) \/ r.phase \in {"erasing", "erased"} THEN r.old ELSE {}

PhasesAgree ==
  \A s \in Sessions :
    LET r == requests[s]
    IN  Submits(r) =>
          /\ r.phase \notin {"reading", "kitchen"} => r.new.kitchen # NoFile
          /\ r.phase \in {"removing", "writing"} => r.new.certificate # NoFile

NamesUsed ==
  /\ Named(documents) \subseteq 1..saved
  /\ \A s \in Sessions : NamedBy(requests[s]) \cup RemovedBy(requests[s]) \subseteq 1..saved

SavedFilesAreOwn ==
  \A s \in Sessions :
    LET own == SavedBy(requests[s])
    IN  /\ own \subseteq disk
        /\ own \cap Named(documents) = {}
        /\ \A t \in Sessions : own \cap RemovedBy(requests[t]) = {}
        /\ \A t \in Sessions \ {s} : own \cap NamedBy(requests[t]) = {}

PapersAwaited ==
  ~cut /\ documents # NoDocuments =>
    \/ {documents.kitchen, documents.certificate} \subseteq disk
    \/ \E s \in Sessions : requests[s].phase = "writing"

ErasedAreGone ==
  \A s \in Sessions : requests[s].phase = "erased" =>
    {documents.kitchen, documents.certificate} \cap requests[s].old = {}

PapersInv ==
  /\ TypeOK
  /\ PhasesAgree
  /\ NamesUsed
  /\ SavedFilesAreOwn
  /\ PapersAwaited
  /\ ErasedAreGone
  /\ ReasonIffRejected
  /\ VerdictOnDocuments

-----------------------------------------------------------------------------
(* What keeps DiskHoldsDocuments: where requests do not overlap, what one has *)
(* read of the row still holds, and the disk is known at each of its steps.   *)

\* The certificate that a submission may keep is none of the files it replaces.
HealthApart(papers) == papers.health \in {papers.kitchen, papers.certificate} =>
                         papers.health = NoFile

HealthFilesApart ==
  /\ HealthApart(documents)
  /\ \A s \in Sessions : Submits(requests[s]) => HealthApart(requests[s].new)

Alone ==
  ~overlapped => \A s, t \in Sessions : s = t \/ requests[s] = Idle \/ requests[t] = Idle

\* What a submission has not saved yet.
NotYetSaved(r) ==
  /\ r.phase \in {"reading", "kitchen"} => r.new.kitchen = NoFile
  /\ r.phase \in {"reading", "kitchen", "health"} /\ r.withHealth => r.new.health = NoFile
  /\ r.phase = "health" => r.withHealth
  /\ r.phase \in {"reading", "kitchen", "health", "certificate"} => r.new.certificate = NoFile

\* What a request has read of the row, and the disk at its step.
HasRead(r, papers) ==
  /\ NotYetSaved(r)
  /\ r.phase \in {"kitchen", "health", "certificate", "removing", "writing"} =>
       /\ r.old = {papers.kitchen, papers.certificate,
                   IF r.withHealth THEN papers.health ELSE NoFile} \ {NoFile}
       /\ ~r.withHealth => r.new.health = papers.health
  /\ r.phase = "erasing" => r.old = Named(papers)
  /\ r.phase = "erased" => papers = NoDocuments

ExpectedDisk(r, papers) ==
  IF r.phase = "writing" THEN Named(r.new)
  ELSE IF r.phase = "erased" THEN r.old
  ELSE Named(papers) \cup SavedBy(r)

DiskKnown ==
  ~overlapped /\ ~cut =>
    /\ ~UnderWay(Sessions) => disk = Named(documents)
    /\ \A s \in Sessions : requests[s] # Idle =>
         HasRead(requests[s], documents) /\ disk = ExpectedDisk(requests[s], documents)

DiskInv == HealthFilesApart /\ Alone /\ DiskKnown
=============================================================================
