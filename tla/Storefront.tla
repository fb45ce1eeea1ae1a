-------------------------------- MODULE Storefront --------------------------------
(***************************************************************************)
(* Storefront: what customers are shown of the cooks, from the columns     *)
(* that decide it: the verification status, the working hours, the blocks  *)
(* and the clock.                                                          *)
(*                                                                         *)
(* The same questions are answered in two places and in two languages: the *)
(* list of cooks asks the database (CookService.listForClient), a cook's   *)
(* page and the flags ask isCookActiveNow.  Each request is one step       *)
(* here; what is shown are operators on the state.                         *)
(***************************************************************************)
EXTENDS Integers

CONSTANTS
  Cooks,      \* users with a Cook row
  Viewers,    \* customers
  MaxTime     \* bound on the clock and on the hours: 0..MaxTime

Times == 0..MaxTime
Null == -1

VerificationStatus == {"PENDING", "UNDER_REVIEW", "APPROVED", "REJECTED"}

Anonymous == "anonymous"   \* the client is not logged in

VARIABLES
  now,      \* the server's clock
  cooks,    \* the Cook rows: status and hours
  dishes,   \* dishes[c]: the dish on cook c's menu, "offered" or "hidden"
  blocks    \* blocks[v]: the cooks viewer v has blocked

vars == <<now, cooks, dishes, blocks>>

Init ==
  /\ now \in Times
  /\ cooks = [c \in Cooks |-> [verificationStatus |-> "PENDING",
                               workStartAt |-> Null, workEndAt |-> Null]]
  /\ dishes = [c \in Cooks |-> "offered"]
  /\ blocks = [v \in Viewers |-> {}]

-----------------------------------------------------------------------------
(* Requests *)

Tick ==
  /\ now + 1 \in Times
  /\ now' = now + 1
  /\ UNCHANGED <<cooks, dishes, blocks>>

\* Bug variant: hours that end when they begin are accepted.
ScheduleRange_Empty(start, end) == start <= end

\* parseScheduleRangeOrThrow
ScheduleRange(start, end) == start < end

UpdateMySchedule(c, start, end) ==
  /\ ScheduleRange(start, end)
  /\ cooks' = [cooks EXCEPT ![c].workStartAt = start, ![c].workEndAt = end]
  /\ UNCHANGED <<now, dishes, blocks>>

\* updateStatusByAdmin, a submission of documents, REJECT_COOK.
StatusTurns(c, status) ==
  /\ cooks' = [cooks EXCEPT ![c].verificationStatus = status]
  /\ UNCHANGED <<now, dishes, blocks>>

\* deleteAccount leaves the row, without hours, and its status; dishes are taken off.
EraseCook(c) ==
  /\ cooks' = [cooks EXCEPT ![c].workStartAt = Null, ![c].workEndAt = Null]
  /\ dishes' = [dishes EXCEPT ![c] = "hidden"]
  /\ UNCHANGED <<now, blocks>>

DishTurns(c) ==
  /\ dishes' = [dishes EXCEPT ![c] = IF @ = "offered" THEN "hidden" ELSE "offered"]
  /\ UNCHANGED <<now, cooks, blocks>>

BlockTurns(v, c) ==
  /\ blocks' = [blocks EXCEPT ![v] = IF c \in @ THEN @ \ {c} ELSE @ \cup {c}]
  /\ UNCHANGED <<now, cooks, dishes>>

Next ==
  \/ Tick
  \/ \E c \in Cooks :
       \/ \E start, end \in Times : UpdateMySchedule(c, start, end)
       \/ \E status \in VerificationStatus : StatusTurns(c, status)
       \/ EraseCook(c) \/ DishTurns(c)
       \/ \E v \in Viewers : BlockTurns(v, c)

Spec == Init /\ [][Next]_vars

-----------------------------------------------------------------------------
(* What is shown *)

\* Bug variant: closing time counts as open.
IsCookActiveNow_Inclusive(c) ==
  LET row == cooks[c]
  IN  /\ row.verificationStatus = "APPROVED"
      /\ row.workStartAt # Null /\ row.workEndAt # Null
      /\ row.workStartAt <= now /\ now <= row.workEndAt

IsCookActiveNow(c) ==
  LET row == cooks[c]
  IN  /\ row.verificationStatus = "APPROVED"
      /\ row.workStartAt # Null /\ row.workEndAt # Null
      /\ row.workStartAt <= now /\ now < row.workEndAt

BlockedBy(viewer) == IF viewer = Anonymous THEN {} ELSE blocks[viewer]

\* listForClient without the filter.
Listed(viewer) ==
  {c \in Cooks \ BlockedBy(viewer) : cooks[c].verificationStatus = "APPROVED"}

\* The filter isAvailable=true: workStartAt and workEndAt are compared by the
\* database, for which a comparison with null does not hold.
ListedAvailable(viewer) ==
  {c \in Listed(viewer) : /\ cooks[c].workStartAt # Null /\ cooks[c].workStartAt <= now
                          /\ cooks[c].workEndAt # Null /\ cooks[c].workEndAt > now}

\* The filter isAvailable=false.
ListedUnavailable(viewer) ==
  {c \in Listed(viewer) :
     \/ cooks[c].workStartAt = Null \/ cooks[c].workEndAt = Null
     \/ cooks[c].workStartAt > now \/ cooks[c].workEndAt <= now}

\* Bug variant: the page is for verified cooks, whoever asks.
HasPage_AnyViewer(viewer, c) == cooks[c].verificationStatus = "APPROVED"

\* getMenuInformationForClient finds the cook.
HasPage(viewer, c) ==
  /\ cooks[c].verificationStatus = "APPROVED"
  /\ c \notin BlockedBy(viewer)

\* The dish on the page is flagged as available.
DishShownAvailable(c) == dishes[c] = "offered" /\ IsCookActiveNow(c)

-----------------------------------------------------------------------------
(* Properties *)

Clients == {Anonymous} \cup Viewers

TypeOK ==
  /\ now \in Times
  /\ cooks \in [Cooks -> [verificationStatus: VerificationStatus,
                          workStartAt: Times \cup {Null}, workEndAt: Times \cup {Null}]]
  /\ \A c \in Cooks : \/ cooks[c].workStartAt = Null /\ cooks[c].workEndAt = Null
                      \/ 0 <= cooks[c].workStartAt /\ cooks[c].workStartAt < cooks[c].workEndAt
  /\ dishes \in [Cooks -> {"offered", "hidden"}]
  /\ blocks \in [Viewers -> SUBSET Cooks]

\* The two answers to "is the cook available" agree: the filter of the list picks
\* the cooks whose flag says so, and its two values split the list, also at the
\* moments work begins and ends and for cooks without hours.
FilterAgreesWithFlag ==
  \A viewer \in Clients :
    /\ ListedAvailable(viewer) = {c \in Listed(viewer) : IsCookActiveNow(c)}
    /\ ListedUnavailable(viewer) = Listed(viewer) \ ListedAvailable(viewer)

\* "Authenticated users do not see cooks they blocked", "Hidden when the
\* authenticated user blocked this cook": who is in the list has a page, and the
\* other way round, and neither shows a cook that the viewer has blocked; a page
\* that offers a dish is one the filter of the list leads to.
ListAgreesWithPages ==
  \A viewer \in Clients, c \in Cooks :
    /\ HasPage(viewer, c) <=> c \in Listed(viewer)
    /\ HasPage(viewer, c) /\ DishShownAvailable(c) => c \in ListedAvailable(viewer)
=============================================================================
