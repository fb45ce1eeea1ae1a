------------------------------- MODULE CooksProofs -------------------------------
(***************************************************************************)
(* Theorems about what MCCooks brings together: a cook's menus (Menus),    *)
(* the application with its documents (CookVerification), what customers   *)
(* are shown (Storefront), and the three of them.  They hold for any       *)
(* sessions, menus, dishes, days, files, cooks, customers and hours.       *)
(***************************************************************************)
EXTENDS MCCooks, Integers, TLAPS

(***************************************************************************)
(* Menus                                                                   *)
(***************************************************************************)

\* A request in flight may write dishes of one cook only: that of the new menu, or
\* that of the menu it names, while there is one.  The ids of menus are not used
\* again, so the menu it names is the one it found.
WritesOwnDishes(s) ==
  LET r == requests[s]
  IN  /\ r.phase = "creating" => \A d \in r.menu.dishes : CookOf[d] = r.menu.cook
      /\ r.phase = "updating" =>
           /\ r.id \in 1..created
           /\ r.id \in DOMAIN menus =>
                \A given \in r.dishes : \A d \in given : CookOf[d] = menus[r.id].cook

IInv ==
  /\ TypeOK
  /\ OneMenuPerDay
  /\ MenusOfOwnDishes
  /\ \A s \in Sessions : WritesOwnDishes(s)

(***************************************************************************)
(* Lemmas                                                                  *)
(***************************************************************************)

LEMMA GivenValue ==
  ASSUME NEW S, NEW field \in Optional(S), NEW else \in S
  PROVE  /\ Given(field, else) \in S
         /\ field = {} => Given(field, else) = else
         /\ field # {} => Given(field, else) \in field
<1>1. CASE field = {}
  BY <1>1 DEF Given
<1>2. CASE field # {}
  <2>1. PICK x \in S : field = {x}
    BY <1>2 DEF Optional
  <2>2. (CHOOSE y \in field : TRUE) \in field
    BY <2>1
  <2> QED
    BY <1>2, <2>1, <2>2 DEF Given
<1> QED
  BY <1>1, <1>2

LEMMA RequestShapes ==
  ASSUME NEW r \in Request
  PROVE  /\ r.phase = "creating" => r.menu \in Menu
         /\ r.phase = "updating" => /\ r.id \in Ids
                                    /\ r.date \in Optional(Days)
                                    /\ r.dishes \in Optional(SUBSET Dishes)
         /\ r.phase = "deleting" => r.id \in Ids
<1>1. CASE r = Idle
  BY <1>1 DEF Idle
<1>2. CASE r \in [phase: {"creating"}, menu: Menu]
  BY <1>2
<1>3. CASE r \in [phase: {"updating"}, id: Ids, date: Optional(Days), dishes: Optional(SUBSET Dishes)]
  BY <1>3
<1>4. CASE r \in [phase: {"deleting"}, id: Ids]
  BY <1>4
<1> QED
  BY <1>1, <1>2, <1>3, <1>4 DEF Request

\* A request that starts may write the dishes it has counted.
LEMMA StartingKeepsIInv ==
  ASSUME IInv, NEW s \in Sessions, NEW r \in Request, To(s, r),
         UNCHANGED <<dishes, menus, created>>,
         r.phase = "creating" => \A d \in r.menu.dishes : CookOf[d] = r.menu.cook,
         r.phase = "updating" =>
           /\ r.id \in DOMAIN menus
           /\ \A given \in r.dishes : \A d \in given : CookOf[d] = menus[r.id].cook
  PROVE  IInv'
<1>1. requests' \in [Sessions -> Request] /\ requests'[s] = r
  BY DEF IInv, TypeOK, To
<1>2. \A t \in Sessions : t # s => requests'[t] = requests[t]
  BY DEF IInv, TypeOK, To
<1>3. TypeOK'
  BY <1>1 DEF IInv, TypeOK
<1>4. r.phase = "updating" => r.id \in 1..created
  BY DEF IInv, TypeOK
<1>5. \A t \in Sessions : WritesOwnDishes(t)'
  BY <1>1, <1>2, <1>4 DEF IInv, WritesOwnDishes
<1>6. OneMenuPerDay' /\ MenusOfOwnDishes'
  BY DEF IInv, OneMenuPerDay, MenusOfOwnDishes, DishesOf
<1> QED
  BY <1>3, <1>5, <1>6 DEF IInv

LEMMA InsertKeepsIInv ==
  ASSUME IInv, NEW s \in Sessions, InsertMenu(s)
  PROVE  IInv'
<1> DEFINE new == requests[s].menu
           id == created + 1
<1>1. requests[s] \in Request /\ requests[s].phase = "creating"
  BY DEF IInv, TypeOK, InsertMenu
<1>2. new \in Menu
  BY <1>1, RequestShapes
<1>3. \A d \in new.dishes : CookOf[d] = new.cook
  BY <1>1 DEF IInv, WritesOwnDishes
<1>4. /\ requests' = [requests EXCEPT ![s] = Idle]
      /\ dishes' = dishes
  BY DEF InsertMenu, To
<1>5. requests' \in [Sessions -> Request] /\ requests'[s].phase = "idle"
  BY <1>4 DEF IInv, TypeOK, Request, Idle
<1>6. \A t \in Sessions : t # s => requests'[t] = requests[t]
  BY <1>4 DEF IInv, TypeOK
<1>7. CASE UNCHANGED <<menus, created>>
  <2>1. TypeOK'
    BY <1>4, <1>5, <1>7 DEF IInv, TypeOK
  <2>2. \A t \in Sessions : WritesOwnDishes(t)'
    BY <1>5, <1>6, <1>7 DEF IInv, WritesOwnDishes
  <2>3. OneMenuPerDay' /\ MenusOfOwnDishes'
    BY <1>4, <1>7 DEF IInv, OneMenuPerDay, MenusOfOwnDishes, DishesOf
  <2> QED
    BY <2>1, <2>2, <2>3 DEF IInv
<1>8. CASE ~UNCHANGED <<menus, created>>
  <2>1. /\ created < MaxMenus /\ created' = id
        /\ menus' = [m \in DOMAIN menus \cup {id} |-> IF m = id THEN new ELSE menus[m]]
        /\ DateIsFree(new.cook, new.date, DOMAIN menus)
        /\ Connects(new.dishes)
    BY <1>8 DEF InsertMenu
  <2>2. created \in Nat /\ MaxMenus \in Nat /\ DOMAIN menus \subseteq 1..created
    BY MenusAssumption DEF IInv, TypeOK
  <2>3. id \notin DOMAIN menus /\ id \in 1..created'
    BY <2>1, <2>2
  <2>4. /\ DOMAIN menus' = DOMAIN menus \cup {id}
        /\ menus'[id] = new
        /\ \A m \in DOMAIN menus : menus'[m] = menus[m]
    BY <2>1, <2>3
  <2>5. TypeOK'
    <3>1. created' \in 0..MaxMenus /\ DOMAIN menus' \subseteq 1..created'
      BY <2>1, <2>2, <2>3, <2>4
    <3>2. menus' \in [DOMAIN menus' -> Menu]
      BY <1>2, <2>1, <2>4 DEF IInv, TypeOK
    <3> QED
      BY <1>4, <1>5, <3>1, <3>2 DEF IInv, TypeOK
  <2>6. OneMenuPerDay'
    BY <2>1, <2>4 DEF IInv, OneMenuPerDay, DateIsFree
  <2>7. new.dishes \subseteq DishesOf(new.cook)
    BY <1>3, <2>1 DEF Connects, DishesOf
  <2>8. MenusOfOwnDishes'
    BY <1>4, <2>4, <2>7 DEF IInv, MenusOfOwnDishes, DishesOf
  <2>9. ASSUME NEW t \in Sessions PROVE WritesOwnDishes(t)'
    <3>1. CASE t = s
      BY <1>5, <3>1 DEF WritesOwnDishes
    <3>2. CASE t # s
      <4>1. requests'[t] = requests[t] /\ WritesOwnDishes(t)
        BY <1>6, <3>2 DEF IInv
      <4>2. \A m \in 1..created : m \in 1..created' /\ m # id
        BY <2>1, <2>2
      <4> QED
        BY <2>4, <4>1, <4>2 DEF WritesOwnDishes
    <3> QED
      BY <3>1, <3>2
  <2> QED
    BY <2>5, <2>6, <2>8, <2>9 DEF IInv
<1> QED
  BY <1>7, <1>8

LEMMA WriteKeepsIInv ==
  ASSUME IInv, NEW s \in Sessions, WriteMenu(s)
  PROVE  IInv'
<1> DEFINE r == requests[s]
           old == menus[r.id]
           date == Given(r.date, old.date)
           ds == Linked(Given(r.dishes, old.dishes))
<1>1. r \in Request /\ r.phase = "updating"
  BY DEF IInv, TypeOK, WriteMenu
<1>2. r.id \in Ids /\ r.date \in Optional(Days) /\ r.dishes \in Optional(SUBSET Dishes)
  BY <1>1, RequestShapes
<1>3. /\ requests' = [requests EXCEPT ![s] = Idle]
      /\ dishes' = dishes /\ created' = created
  BY DEF WriteMenu, To
<1>4. requests' \in [Sessions -> Request] /\ requests'[s].phase = "idle"
  BY <1>3 DEF IInv, TypeOK, Request, Idle
<1>5. \A t \in Sessions : t # s => requests'[t] = requests[t]
  BY <1>3 DEF IInv, TypeOK
<1>6. CASE menus' = menus
  <2>1. TypeOK'
    BY <1>3, <1>4, <1>6 DEF IInv, TypeOK
  <2>2. \A t \in Sessions : WritesOwnDishes(t)'
    BY <1>3, <1>4, <1>5, <1>6 DEF IInv, WritesOwnDishes
  <2>3. OneMenuPerDay' /\ MenusOfOwnDishes'
    BY <1>3, <1>6 DEF IInv, OneMenuPerDay, MenusOfOwnDishes, DishesOf
  <2> QED
    BY <2>1, <2>2, <2>3 DEF IInv
<1>7. CASE menus' # menus
  <2>1. /\ r.id \in DOMAIN menus
        /\ DateIsFree(old.cook, date, DOMAIN menus \ {r.id})
        /\ menus' = [menus EXCEPT ![r.id].date = date, ![r.id].dishes = ds]
    BY <1>7 DEF WriteMenu
  <2>2. menus \in [DOMAIN menus -> Menu] /\ old \in Menu
    BY <2>1 DEF IInv, TypeOK
  <2>3. date \in Days
    BY <1>2, <2>2, GivenValue DEF Menu
  <2>4. old.dishes \in SUBSET Dishes
    BY <2>2 DEF Menu
  <2>5. /\ Given(r.dishes, old.dishes) \in SUBSET Dishes
        /\ r.dishes = {} => Given(r.dishes, old.dishes) = old.dishes
        /\ r.dishes # {} => Given(r.dishes, old.dishes) \in r.dishes
    BY <1>2, <2>4, GivenValue
  <2>6. ds \subseteq DishesOf(old.cook)
    <3>1. CASE r.dishes = {}
      <4>1. old.dishes \subseteq DishesOf(old.cook)
        BY <2>1 DEF IInv, MenusOfOwnDishes
      <4> QED
        BY <2>5, <3>1, <4>1 DEF Linked
    <3>2. CASE r.dishes # {}
      <4>1. \A d \in Given(r.dishes, old.dishes) : CookOf[d] = old.cook
        BY <1>1, <2>1, <2>5, <3>2 DEF IInv, WritesOwnDishes
      <4> QED
        BY <4>1 DEF Linked, DishesOf
    <3> QED
      BY <3>1, <3>2
  <2>7. ds \in SUBSET Dishes
    BY <2>5 DEF Linked
  <2> HIDE DEF date, ds
  <2>8. /\ DOMAIN menus' = DOMAIN menus
        /\ menus'[r.id] = [cook |-> old.cook, date |-> date, dishes |-> ds]
        /\ \A m \in DOMAIN menus : m # r.id => menus'[m] = menus[m]
    BY <2>1, <2>2 DEF Menu
  <2>9. menus' \in [DOMAIN menus' -> Menu]
    BY <2>1, <2>2, <2>3, <2>7, <2>8 DEF Menu
  <2>10. TypeOK'
    BY <1>3, <1>4, <2>8, <2>9 DEF IInv, TypeOK
  <2>11. OneMenuPerDay'
    BY <2>1, <2>8 DEF IInv, OneMenuPerDay, DateIsFree
  <2>12. MenusOfOwnDishes'
    BY <1>3, <2>6, <2>8 DEF IInv, MenusOfOwnDishes, DishesOf
  <2>13. \A m \in DOMAIN menus : menus'[m].cook = menus[m].cook
    BY <2>8
  <2>14. \A t \in Sessions : WritesOwnDishes(t)'
    BY <1>3, <1>4, <1>5, <2>8, <2>13 DEF IInv, WritesOwnDishes
  <2> QED
    BY <2>10, <2>11, <2>12, <2>14 DEF IInv
<1> QED
  BY <1>6, <1>7

\* Menus may go.
LEMMA FewerMenusKeepIInv ==
  ASSUME IInv, NEW kept \in SUBSET DOMAIN menus, menus' = [m \in kept |-> menus[m]],
         UNCHANGED <<dishes, created>>,
         requests' \in [Sessions -> Request],
         \A t \in Sessions : requests'[t] = requests[t] \/ requests'[t] = Idle
  PROVE  IInv'
<1>1. DOMAIN menus' = kept /\ \A m \in kept : m \in DOMAIN menus /\ menus'[m] = menus[m]
  OBVIOUS
<1>2. menus' \in [DOMAIN menus' -> Menu] /\ DOMAIN menus' \subseteq 1..created'
  BY <1>1 DEF IInv, TypeOK
<1>3. TypeOK'
  BY <1>2 DEF IInv, TypeOK
<1>4. \A t \in Sessions : WritesOwnDishes(t)'
  BY <1>1 DEF IInv, WritesOwnDishes, Idle
<1>5. OneMenuPerDay'
  BY <1>1 DEF IInv, OneMenuPerDay
<1>6. MenusOfOwnDishes'
  BY <1>1 DEF IInv, MenusOfOwnDishes, DishesOf
<1> QED
  BY <1>3, <1>4, <1>5, <1>6 DEF IInv

\* Deleting a dish unlinks it.
LEMMA DeleteDishKeepsIInv ==
  ASSUME IInv, NEW d \in Dishes, DeleteDish(d)
  PROVE  IInv'
<1>1. /\ dishes' = dishes \ {d}
      /\ menus' = [m \in DOMAIN menus |-> [menus[m] EXCEPT !.dishes = @ \ {d}]]
      /\ UNCHANGED <<created, requests>>
  BY DEF DeleteDish, Unlinked
<1>2. /\ DOMAIN menus' = DOMAIN menus
      /\ \A m \in DOMAIN menus : /\ menus[m] \in Menu
                                 /\ menus'[m] = [menus[m] EXCEPT !.dishes = @ \ {d}]
  BY <1>1 DEF IInv, TypeOK
<1>3. \A m \in DOMAIN menus : /\ menus'[m] \in Menu
                              /\ menus'[m].cook = menus[m].cook
                              /\ menus'[m].date = menus[m].date
                              /\ menus'[m].dishes = menus[m].dishes \ {d}
  BY <1>2 DEF Menu
<1>4. TypeOK'
  BY <1>1, <1>2, <1>3 DEF IInv, TypeOK
<1>5. OneMenuPerDay'
  BY <1>2, <1>3 DEF IInv, OneMenuPerDay
<1>6. MenusOfOwnDishes'
  BY <1>1, <1>2, <1>3 DEF IInv, MenusOfOwnDishes, DishesOf
<1>7. \A t \in Sessions : WritesOwnDishes(t)'
  BY <1>1, <1>2, <1>3 DEF IInv, WritesOwnDishes
<1> QED
  BY <1>4, <1>5, <1>6, <1>7 DEF IInv

(***************************************************************************)
(* Invariance                                                              *)
(***************************************************************************)

LEMMA IInvInit == Init => IInv
<1> SUFFICES ASSUME Init PROVE IInv
  OBVIOUS
<1>1. DOMAIN menus = {} /\ created = 0 /\ dishes = {}
  BY DEF Init
<1>2. \A s \in Sessions : requests[s] = Idle
  BY DEF Init
<1>3. menus \in [DOMAIN menus -> Menu]
  BY DEF Init
<1>4. TypeOK
  BY <1>1, <1>3, MenusAssumption DEF Init, TypeOK, Request
<1> QED
  BY <1>1, <1>2, <1>4 DEF IInv, OneMenuPerDay, MenusOfOwnDishes, WritesOwnDishes, Idle

LEMMA IInvStep == IInv /\ [Next]_vars => IInv'
<1> SUFFICES ASSUME IInv, [Next]_vars PROVE IInv'
  OBVIOUS
<1>1. ASSUME NEW s \in Sessions, NEW c \in Cooks, NEW date \in Days, NEW ds \in SUBSET Dishes,
             CreateForCook(s, c, date, ds)
      PROVE  IInv'
  <2> DEFINE r == [phase |-> "creating", menu |-> [cook |-> c, date |-> date, dishes |-> ds]]
  <2>1. r \in Request /\ r.phase = "creating"
    BY DEF Request, Menu
  <2>2. \A d \in r.menu.dishes : CookOf[d] = r.menu.cook
    BY <1>1 DEF CreateForCook, AllCounted, DishesOf
  <2>3. To(s, r) /\ UNCHANGED <<dishes, menus, created>>
    BY <1>1 DEF CreateForCook
  <2> QED
    BY <2>1, <2>2, <2>3, StartingKeepsIInv
<1>2. ASSUME NEW s \in Sessions, NEW c \in Cooks, NEW m \in DOMAIN menus,
             NEW date \in Optional(Days), NEW ds \in Optional(SUBSET Dishes),
             UpdateForCook(s, c, m, date, ds)
      PROVE  IInv'
  <2> DEFINE r == [phase |-> "updating", id |-> m, date |-> date, dishes |-> ds]
  <2>1. m \in Ids
    BY MenusAssumption DEF IInv, TypeOK, Ids
  <2>2. r \in Request /\ r.phase = "updating" /\ r.id = m /\ r.dishes = ds
    BY <2>1 DEF Request
  <2>3. \A given \in ds : \A d \in given : CookOf[d] = menus[m].cook
    BY <1>2 DEF UpdateForCook, AllCounted, DishesOf, Finds
  <2>4. To(s, r) /\ UNCHANGED <<dishes, menus, created>>
    BY <1>2 DEF UpdateForCook
  <2> HIDE DEF r
  <2> QED
    BY <2>2, <2>3, <2>4, StartingKeepsIInv
<1>3. ASSUME NEW s \in Sessions, NEW c \in Cooks, NEW m \in DOMAIN menus,
             DeleteForCook(s, c, m)
      PROVE  IInv'
  <2> DEFINE r == [phase |-> "deleting", id |-> m]
  <2>1. m \in Ids
    BY MenusAssumption DEF IInv, TypeOK, Ids
  <2>2. r \in Request /\ r.phase = "deleting"
    BY <2>1 DEF Request
  <2>3. To(s, r) /\ UNCHANGED <<dishes, menus, created>>
    BY <1>3 DEF DeleteForCook
  <2> QED
    BY <2>2, <2>3, StartingKeepsIInv
<1>4. ASSUME NEW s \in Sessions, InsertMenu(s)
      PROVE  IInv'
  BY <1>4, InsertKeepsIInv
<1>5. ASSUME NEW s \in Sessions, WriteMenu(s)
      PROVE  IInv'
  BY <1>5, WriteKeepsIInv
<1>6. ASSUME NEW s \in Sessions, DeleteMenu(s)
      PROVE  IInv'
  <2>1. /\ requests' = [requests EXCEPT ![s] = Idle]
        /\ menus' = [m \in DOMAIN menus \ {requests[s].id} |-> menus[m]]
        /\ UNCHANGED <<dishes, created>>
    BY <1>6 DEF DeleteMenu, To
  <2>2. /\ requests' \in [Sessions -> Request]
        /\ \A t \in Sessions : requests'[t] = requests[t] \/ requests'[t] = Idle
    BY <2>1 DEF IInv, TypeOK, Request
  <2> QED
    BY <2>1, <2>2, FewerMenusKeepIInv
<1>7. ASSUME NEW d \in Dishes, CreateDish(d)
      PROVE  IInv'
  BY <1>7 DEF CreateDish, IInv, TypeOK, OneMenuPerDay, MenusOfOwnDishes, DishesOf, WritesOwnDishes
<1>8. ASSUME NEW d \in Dishes, DeleteDish(d)
      PROVE  IInv'
  BY <1>8, DeleteDishKeepsIInv
<1>9. ASSUME NEW c \in Cooks, DeleteMenus(c)
      PROVE  IInv'
  <2>1. /\ menus' = [m \in {n \in DOMAIN menus : menus[n].cook # c} |-> menus[m]]
        /\ UNCHANGED <<dishes, created, requests>>
    BY <1>9 DEF DeleteMenus
  <2>2. requests' \in [Sessions -> Request]
    BY <2>1 DEF IInv, TypeOK
  <2> QED
    BY <2>1, <2>2, FewerMenusKeepIInv
<1>10. CASE UNCHANGED vars
  BY <1>10 DEF vars, IInv, TypeOK, OneMenuPerDay, MenusOfOwnDishes, DishesOf, WritesOwnDishes
<1> QED
  BY <1>1, <1>2, <1>3, <1>4, <1>5, <1>6, <1>7, <1>8, <1>9, <1>10 DEF Next

\* What a menu's request in flight will write is of the cook it counted dishes of.
THEOREM InductiveInvariant == Spec => []IInv
  BY IInvInit, IInvStep, PTL DEF Spec

\* Dishes, menus and requests in flight stay well formed.
THEOREM TypeCorrectness == Spec => []TypeOK
<1>1. IInv => TypeOK
  BY DEF IInv
<1> QED
  BY <1>1, InductiveInvariant, PTL

\* A cook has one menu for a day, however many requests create and move menus.
THEOREM OneMenuForADay == Spec => []OneMenuPerDay
<1>1. IInv => OneMenuPerDay
  BY DEF IInv
<1> QED
  BY <1>1, InductiveInvariant, PTL

\* A menu has dishes of its own cook, which are there, however many requests delete
\* dishes between the count and the write.
THEOREM MenusHaveOwnDishes == Spec => []MenusOfOwnDishes
<1>1. IInv => MenusOfOwnDishes
  BY DEF IInv
<1> QED
  BY <1>1, InductiveInvariant, PTL

-----------------------------------------------------------------------------
(* CookVerification: types *)

\* Where the sessions are after a step of one of them.
LEMMA OneSubmissionMoves ==
  ASSUME Papers!TypeOK, NEW s \in Sessions, NEW q, Papers!Moves(s, q)
  PROVE  /\ submissions'[s] = q
         /\ \A t \in Sessions \ {s} : submissions'[t] = submissions[t]
         /\ q \in Papers!Request => submissions' \in [Sessions -> Papers!Request]
         /\ overlapped' \in BOOLEAN
  BY DEF Papers!TypeOK, Papers!Moves, Papers!UnderWay

\* What a session holds, by the phase it is in.
LEMMA SubmissionShapes ==
  ASSUME Papers!TypeOK, NEW s \in Sessions
  PROVE  LET r == submissions[s]
         IN  /\ Papers!Submits(r) => r \in Papers!Submission
             /\ r.phase = "creating" => r.withHealth \in BOOLEAN /\ r.submits \in BOOLEAN
             /\ r.phase = "deciding" => r.status \in Papers!VerificationStatus
             /\ r.phase \in {"erasing", "erased"} => r.old \subseteq Papers!Files
<1>1. submissions[s] \in Papers!Request
  BY DEF Papers!TypeOK
<1> QED
  BY <1>1 DEF Papers!Request, Papers!Submission, Papers!Submits, Papers!Idle

\* A row's files, or none.
LEMMA DocumentShapes ==
  ASSUME NEW d \in Papers!Documents \cup {Papers!NoDocuments}
  PROVE  /\ d.kitchen \in Papers!Files \cup {Papers!NoFile}
         /\ d.health \in Papers!Files \cup {Papers!NoFile}
         /\ d.certificate \in Papers!Files \cup {Papers!NoFile}
         /\ d # Papers!NoDocuments =>
              d.kitchen \in Papers!Files /\ d.certificate \in Papers!Files
         /\ Papers!Named(d) \subseteq Papers!Files
  BY DEF Papers!Documents, Papers!NoDocuments, Papers!Named, Papers!NoFile

\* A fresh name is not one of the names used, and not "no file".
LEMMA FreshFile ==
  ASSUME Papers!TypeOK, saved < MaxFiles
  PROVE  /\ Papers!FreshName \in Papers!Files /\ Papers!FreshName = saved + 1
         /\ saved + 1 \in 1..MaxFiles /\ saved + 1 # Papers!NoFile
         /\ saved + 1 \notin 1..saved /\ 1..saved \subseteq 1..(saved + 1)
  BY MaxFilesAssumption DEF Papers!TypeOK, Papers!FreshName, Papers!Files, Papers!NoFile

LEMMA PapersStartsType ==
  ASSUME Papers!TypeOK, NEW s \in Sessions, Papers!Starts(s)
  PROVE  Papers!TypeOK'
<1>1. ASSUME NEW withHealth \in BOOLEAN
      PROVE  Papers!Submitting(withHealth) \in Papers!Request
  BY DEF Papers!Submitting, Papers!Request, Papers!Submission, Papers!NoDocuments
<1>2. \E q \in Papers!Request : Papers!Moves(s, q)
  <2>1. ASSUME NEW submits \in BOOLEAN, NEW withHealth \in BOOLEAN,
               Papers!LoadCook(s, submits, withHealth)
        PROVE  \E q \in Papers!Request : Papers!Moves(s, q)
    <3>1. [phase |-> "creating", submits |-> submits, withHealth |-> withHealth]
            \in Papers!Request
      BY DEF Papers!Request
    <3> QED
      BY <1>1, <2>1, <3>1 DEF Papers!LoadCook, Papers!To
  <2>2. ASSUME NEW status \in Papers!VerificationStatus, Papers!UpdateStatusByAdmin(s, status)
        PROVE  \E q \in Papers!Request : Papers!Moves(s, q)
    BY <2>2 DEF Papers!UpdateStatusByAdmin, Papers!To, Papers!Request
  <2>3. CASE Papers!DeleteAccount(s)
    <3> DEFINE old == {documents.kitchen, documents.health, documents.certificate}
                        \ {Papers!NoFile}
    <3>1. old \subseteq Papers!Files
      BY DocumentShapes DEF Papers!TypeOK
    <3>2. Papers!Moves(s, [phase |-> "erasing", old |-> old])
      BY <2>3 DEF Papers!DeleteAccount, Papers!To
    <3> HIDE DEF old
    <3> QED
      BY <3>1, <3>2 DEF Papers!Request
  <2> QED
    BY <2>1, <2>2, <2>3 DEF Papers!Starts
<1>3. UNCHANGED <<cookStatus, documents, moderated, disk, saved, accountGone, cut>>
  BY DEF Papers!Starts, Papers!LoadCook, Papers!UpdateStatusByAdmin, Papers!DeleteAccount,
         Papers!To, Papers!rows, Papers!files
<1> QED
  BY <1>2, <1>3, OneSubmissionMoves DEF Papers!TypeOK

-----------------------------------------------------------------------------
(* CookVerification: the files *)

\* What PhasesAgree says of one request.
PhaseAgrees(r) ==
  Papers!Submits(r) =>
    /\ r.phase \notin {"reading", "kitchen"} => r.new.kitchen # Papers!NoFile
    /\ r.phase \in {"removing", "writing"} => r.new.certificate # Papers!NoFile

\* The part of PapersInv that is about files.
FilesKept ==
  /\ Papers!PhasesAgree
  /\ Papers!NamesUsed
  /\ Papers!SavedFilesAreOwn
  /\ Papers!PapersAwaited
  /\ Papers!ErasedAreGone

\* A request that has not submitted anything, or not any more.
LEMMA NothingInHand ==
  ASSUME NEW r, ~Papers!Submits(r)
  PROVE  /\ PhaseAgrees(r) /\ Papers!SavedBy(r) = {} /\ Papers!NamedBy(r) = {}
         /\ r.phase \notin {"erasing", "erased"} => Papers!RemovedBy(r) = {}
  BY DEF PhaseAgrees, Papers!SavedBy, Papers!NamedBy, Papers!RemovedBy

\* A step that changes neither the disk nor the names in the row, and after which the
\* session has saved nothing: what it has read are names of the row.
LEMMA QuietPapers ==
  ASSUME Papers!PapersInv, NEW s \in Sessions, NEW q, Papers!Moves(s, q),
         UNCHANGED <<disk, saved>>,
         documents'.kitchen = documents.kitchen, documents'.health = documents.health,
         documents'.certificate = documents.certificate,
         documents' # Papers!NoDocuments => documents # Papers!NoDocuments,
         PhaseAgrees(q), Papers!SavedBy(q) = {},
         Papers!NamedBy(q) \subseteq Papers!Named(documents),
         Papers!RemovedBy(q) \subseteq Papers!Named(documents),
         q.phase # "erased",
         submissions[s].phase = "writing" => cut', cut => cut'
  PROVE  FilesKept'
<1>1. submissions'[s] = q /\ \A t \in Sessions \ {s} : submissions'[t] = submissions[t]
  BY OneSubmissionMoves DEF Papers!PapersInv
<1>2. Papers!Named(documents)' = Papers!Named(documents)
  BY DEF Papers!Named
<1>3. Papers!PhasesAgree'
  BY <1>1 DEF Papers!PapersInv, Papers!PhasesAgree, PhaseAgrees
<1>4. Papers!NamesUsed'
  BY <1>1, <1>2 DEF Papers!PapersInv, Papers!NamesUsed
<1>5. Papers!SavedFilesAreOwn'
  <2> SUFFICES ASSUME NEW t \in Sessions
               PROVE  LET own == Papers!SavedBy(submissions'[t])
                      IN  /\ own \subseteq disk'
                          /\ own \cap Papers!Named(documents)' = {}
                          /\ \A u \in Sessions :
                               own \cap Papers!RemovedBy(submissions'[u]) = {}
                          /\ \A u \in Sessions \ {t} :
                               own \cap Papers!NamedBy(submissions'[u]) = {}
    BY DEF Papers!SavedFilesAreOwn
  <2>1. CASE t = s
    BY <1>1, <2>1
  <2>2. CASE t # s
    BY <1>1, <1>2, <2>2 DEF Papers!PapersInv, Papers!SavedFilesAreOwn
  <2> QED
    BY <2>1, <2>2
<1>6. Papers!PapersAwaited'
  BY <1>1 DEF Papers!PapersInv, Papers!PapersAwaited
<1>7. Papers!ErasedAreGone'
  BY <1>1 DEF Papers!PapersInv, Papers!ErasedAreGone
<1> QED
  BY <1>3, <1>4, <1>5, <1>6, <1>7 DEF FilesKept

\* A step that saves a file under a fresh name.
LEMMA SavingKeepsFiles ==
  ASSUME Papers!PapersInv, NEW s \in Sessions, NEW q, Papers!Save(s, q),
         submissions[s].phase # "writing", q.phase # "erased", PhaseAgrees(q),
         Papers!SavedBy(q) \subseteq Papers!SavedBy(submissions[s]) \cup {saved + 1},
         Papers!NamedBy(q) \subseteq Papers!NamedBy(submissions[s]) \cup {saved + 1},
         Papers!RemovedBy(q) = Papers!RemovedBy(submissions[s])
  PROVE  FilesKept'
<1>1. submissions'[s] = q /\ \A t \in Sessions \ {s} : submissions'[t] = submissions[t]
  BY OneSubmissionMoves DEF Papers!PapersInv, Papers!Save, Papers!To
<1>2. /\ saved' = saved + 1 /\ disk' = disk \cup {saved + 1}
      /\ UNCHANGED <<documents, cut>>
  BY DEF Papers!Save, Papers!FreshName, Papers!To, Papers!rows
<1>3. saved + 1 \notin 1..saved /\ 1..saved \subseteq 1..saved' /\ saved + 1 \in 1..saved'
  BY <1>2, FreshFile DEF Papers!PapersInv, Papers!Save, Papers!TypeOK
<1>4. Papers!PhasesAgree'
  BY <1>1 DEF Papers!PapersInv, Papers!PhasesAgree, PhaseAgrees
<1>5. Papers!NamesUsed'
  BY <1>1, <1>2, <1>3 DEF Papers!PapersInv, Papers!NamesUsed, Papers!Named
<1>6. Papers!SavedFilesAreOwn'
  <2> SUFFICES ASSUME NEW t \in Sessions
               PROVE  LET own == Papers!SavedBy(submissions'[t])
                      IN  /\ own \subseteq disk'
                          /\ own \cap Papers!Named(documents) = {}
                          /\ \A u \in Sessions :
                               own \cap Papers!RemovedBy(submissions'[u]) = {}
                          /\ \A u \in Sessions \ {t} :
                               own \cap Papers!NamedBy(submissions'[u]) = {}
    BY <1>2 DEF Papers!SavedFilesAreOwn, Papers!Named
  <2> DEFINE fresh == saved + 1
             used == 1..saved
  <2>1. /\ Papers!Named(documents) \subseteq used
        /\ \A u \in Sessions : /\ Papers!RemovedBy(submissions[u]) \subseteq used
                               /\ Papers!NamedBy(submissions[u]) \subseteq used
                               /\ Papers!SavedBy(submissions[u]) \subseteq used
    BY DEF Papers!PapersInv, Papers!NamesUsed, Papers!SavedBy, Papers!NamedBy, Papers!Named
  <2>2. \A u, v \in Sessions :
          /\ Papers!SavedBy(submissions[u]) \subseteq disk
          /\ Papers!SavedBy(submissions[u]) \cap Papers!Named(documents) = {}
          /\ Papers!SavedBy(submissions[u]) \cap Papers!RemovedBy(submissions[v]) = {}
          /\ u # v => Papers!SavedBy(submissions[u]) \cap Papers!NamedBy(submissions[v]) = {}
    BY DEF Papers!PapersInv, Papers!SavedFilesAreOwn
  <2>3. /\ fresh \notin used /\ disk' = disk \cup {fresh}
        /\ Papers!SavedBy(q) \subseteq Papers!SavedBy(submissions[s]) \cup {fresh}
        /\ Papers!NamedBy(q) \subseteq Papers!NamedBy(submissions[s]) \cup {fresh}
    BY <1>2, <1>3
  <2> HIDE DEF fresh, used
  <2>4. CASE t = s
    BY <1>1, <2>1, <2>2, <2>3, <2>4
  <2>5. CASE t # s
    BY <1>1, <2>1, <2>2, <2>3, <2>5
  <2> QED
    BY <2>4, <2>5
<1>7. Papers!PapersAwaited'
  BY <1>1, <1>2 DEF Papers!PapersInv, Papers!PapersAwaited
<1>8. Papers!ErasedAreGone'
  BY <1>1, <1>2 DEF Papers!PapersInv, Papers!ErasedAreGone
<1> QED
  BY <1>4, <1>5, <1>6, <1>7, <1>8 DEF FilesKept

\* A step that removes the files its session has set aside.
LEMMA RemovingKeepsFiles ==
  ASSUME Papers!PapersInv, NEW s \in Sessions, NEW q, Papers!To(s, q),
         disk' = disk \ Papers!RemovedBy(submissions[s]), UNCHANGED <<documents, saved>>,
         q.phase # "erased", PhaseAgrees(q),
         Papers!SavedBy(q) \subseteq Papers!SavedBy(submissions[s]),
         Papers!NamedBy(q) \subseteq Papers!NamedBy(submissions[s]),
         Papers!RemovedBy(q) \subseteq Papers!RemovedBy(submissions[s]),
         submissions[s].phase # "writing",
         \/ q.phase = "writing"
         \/ Papers!RemovedBy(submissions[s])
              \cap {documents.kitchen, documents.certificate} = {}
  PROVE  FilesKept'
<1>1. submissions'[s] = q /\ \A t \in Sessions \ {s} : submissions'[t] = submissions[t]
  BY OneSubmissionMoves DEF Papers!PapersInv, Papers!To
<1>2. UNCHANGED cut
  BY DEF Papers!To
<1>3. Papers!PhasesAgree'
  BY <1>1 DEF Papers!PapersInv, Papers!PhasesAgree, PhaseAgrees
<1>4. Papers!NamesUsed'
  BY <1>1 DEF Papers!PapersInv, Papers!NamesUsed, Papers!Named
<1>5. Papers!SavedFilesAreOwn'
  <2> SUFFICES ASSUME NEW t \in Sessions
               PROVE  LET own == Papers!SavedBy(submissions'[t])
                      IN  /\ own \subseteq disk'
                          /\ own \cap Papers!Named(documents) = {}
                          /\ \A u \in Sessions :
                               own \cap Papers!RemovedBy(submissions'[u]) = {}
                          /\ \A u \in Sessions \ {t} :
                               own \cap Papers!NamedBy(submissions'[u]) = {}
    BY DEF Papers!SavedFilesAreOwn, Papers!Named
  <2>1. \A u, v \in Sessions :
          /\ Papers!SavedBy(submissions[u]) \subseteq disk
          /\ Papers!SavedBy(submissions[u]) \cap Papers!Named(documents) = {}
          /\ Papers!SavedBy(submissions[u]) \cap Papers!RemovedBy(submissions[v]) = {}
          /\ u # v => Papers!SavedBy(submissions[u]) \cap Papers!NamedBy(submissions[v]) = {}
    BY DEF Papers!PapersInv, Papers!SavedFilesAreOwn
  <2>2. \A u \in Sessions :
          /\ Papers!SavedBy(submissions'[u]) \subseteq Papers!SavedBy(submissions[u])
          /\ Papers!NamedBy(submissions'[u]) \subseteq Papers!NamedBy(submissions[u])
          /\ Papers!RemovedBy(submissions'[u]) \subseteq Papers!RemovedBy(submissions[u])
    BY <1>1
  <2> QED
    BY <2>1, <2>2
<1>6. Papers!PapersAwaited'
  BY <1>1, <1>2 DEF Papers!PapersInv, Papers!PapersAwaited
<1>7. Papers!ErasedAreGone'
  BY <1>1 DEF Papers!PapersInv, Papers!ErasedAreGone
<1> QED
  BY <1>3, <1>4, <1>5, <1>6, <1>7 DEF FilesKept

\* A step that writes the row, with the files its session has named, or erases it.
LEMMA WritingKeepsFiles ==
  ASSUME Papers!PapersInv, NEW s \in Sessions, NEW q, Papers!To(s, q),
         UNCHANGED <<disk, saved>>, ~Papers!Submits(q),
         \/ /\ Papers!Submits(submissions[s])
            /\ Papers!Named(documents') = Papers!NamedBy(submissions[s])
            /\ {documents'.kitchen, documents'.certificate}
                 \subseteq Papers!SavedBy(submissions[s])
            /\ Papers!RemovedBy(q) = {} /\ q.phase # "erased"
         \/ /\ documents' = Papers!NoDocuments
            /\ Papers!RemovedBy(q) \subseteq Papers!RemovedBy(submissions[s])
            /\ q.old \subseteq 1..saved
  PROVE  FilesKept'
<1>1. submissions'[s] = q /\ \A t \in Sessions \ {s} : submissions'[t] = submissions[t]
  BY OneSubmissionMoves DEF Papers!PapersInv, Papers!To
<1>2. /\ Papers!SavedBy(q) = {} /\ Papers!NamedBy(q) = {} /\ PhaseAgrees(q)
  BY NothingInHand
<1>3. /\ Papers!Named(documents)' = Papers!Named(documents')
      /\ Papers!Named(Papers!NoDocuments) = {}
  BY DEF Papers!Named, Papers!NoDocuments
<1>4. /\ \A u, v \in Sessions :
           /\ Papers!SavedBy(submissions[u]) \subseteq disk
           /\ Papers!SavedBy(submissions[u]) \cap Papers!Named(documents) = {}
           /\ Papers!SavedBy(submissions[u]) \cap Papers!RemovedBy(submissions[v]) = {}
           /\ u # v => Papers!SavedBy(submissions[u]) \cap Papers!NamedBy(submissions[v]) = {}
      /\ \A u \in Sessions : Papers!NamedBy(submissions[u]) \subseteq 1..saved
      /\ \A u \in Sessions : Papers!RemovedBy(submissions[u]) \subseteq 1..saved
  BY DEF Papers!PapersInv, Papers!SavedFilesAreOwn, Papers!NamesUsed
<1>5. Papers!PhasesAgree'
  BY <1>1, <1>2 DEF Papers!PapersInv, Papers!PhasesAgree, PhaseAgrees
<1>6. Papers!NamesUsed'
  BY <1>1, <1>2, <1>3, <1>4 DEF Papers!NamesUsed
<1>7. Papers!SavedFilesAreOwn'
  <2> SUFFICES ASSUME NEW t \in Sessions
               PROVE  LET own == Papers!SavedBy(submissions'[t])
                      IN  /\ own \subseteq disk
                          /\ own \cap Papers!Named(documents') = {}
                          /\ \A u \in Sessions :
                               own \cap Papers!RemovedBy(submissions'[u]) = {}
                          /\ \A u \in Sessions \ {t} :
                               own \cap Papers!NamedBy(submissions'[u]) = {}
    BY <1>3 DEF Papers!SavedFilesAreOwn
  <2>1. CASE t = s
    BY <1>1, <1>2, <2>1
  <2>2. CASE t # s
    BY <1>1, <1>2, <1>3, <1>4, <2>2
  <2> QED
    BY <2>1, <2>2
<1>8. Papers!PapersAwaited'
  BY <1>4 DEF Papers!PapersAwaited
<1>9. Papers!ErasedAreGone'
  <2> SUFFICES ASSUME NEW t \in Sessions, submissions'[t].phase = "erased"
               PROVE  {documents'.kitchen, documents'.certificate}
                        \cap submissions'[t].old = {}
    BY DEF Papers!ErasedAreGone
  <2>1. submissions'[t].old \subseteq 1..saved
    <3>1. CASE t = s
      BY <1>1, <3>1
    <3>2. CASE t # s
      BY <1>1, <1>4, <3>2 DEF Papers!RemovedBy
    <3> QED
      BY <3>1, <3>2
  <2>2. CASE documents' = Papers!NoDocuments
    BY <2>1, <2>2 DEF Papers!NoDocuments, Papers!NoFile
  <2>3. CASE documents' # Papers!NoDocuments
    BY <1>1, <1>4, <2>3 DEF Papers!RemovedBy
  <2> QED
    BY <2>2, <2>3
<1> QED
  BY <1>5, <1>6, <1>7, <1>8, <1>9 DEF FilesKept

-----------------------------------------------------------------------------
(* CookVerification: what each step keeps *)

CooksInv == Papers!PapersInv /\ Papers!DiskInv

\* The rows as they were keep what is said of them.
LEMMA RowsKept ==
  ASSUME Papers!PapersInv, UNCHANGED <<cookStatus, documents, moderated, accountGone>>
  PROVE  Papers!ReasonIffRejected' /\ Papers!VerdictOnDocuments'
  BY DEF Papers!PapersInv, Papers!ReasonIffRejected, Papers!VerdictOnDocuments

\* DiskInv from what a step of session s does to the disk as long as it is alone.
LEMMA DiskStep ==
  ASSUME CooksInv, NEW s \in Sessions, NEW q, Papers!Moves(s, q), cut => cut',
         Papers!HealthApart(documents'),
         Papers!Submits(q) => Papers!HealthApart(q.new),
         Papers!HasRead(submissions[s], documents)
           /\ disk = Papers!ExpectedDisk(submissions[s], documents)
           /\ ~overlapped /\ ~cut' =>
         Papers!HasRead(q, documents') /\ disk' = Papers!ExpectedDisk(q, documents')
  PROVE  Papers!DiskInv'
<1>1. submissions'[s] = q /\ \A t \in Sessions \ {s} : submissions'[t] = submissions[t]
  BY OneSubmissionMoves DEF CooksInv, Papers!PapersInv
<1>2. ~overlapped' => ~overlapped /\ \A t \in Sessions \ {s} : submissions[t] = Papers!Idle
  BY DEF Papers!Moves, Papers!UnderWay
<1>3. Papers!HealthFilesApart'
  BY <1>1 DEF CooksInv, Papers!DiskInv, Papers!HealthFilesApart, Papers!HealthApart
<1>4. Papers!Alone'
  <2> SUFFICES ASSUME ~overlapped', NEW t \in Sessions, NEW u \in Sessions
               PROVE  t = u \/ submissions'[t] = Papers!Idle \/ submissions'[u] = Papers!Idle
    BY DEF Papers!Alone, Papers!Idle
  <2> QED
    BY <1>1, <1>2
<1>5. ASSUME ~overlapped', ~cut'
      PROVE  Papers!HasRead(q, documents') /\ disk' = Papers!ExpectedDisk(q, documents')
  <2>1. ~overlapped /\ ~cut /\ \A t \in Sessions \ {s} : submissions[t] = Papers!Idle
    BY <1>2, <1>5
  <2>2. CASE submissions[s] = Papers!Idle
    <3>1. disk = Papers!Named(documents)
      BY <2>1, <2>2 DEF CooksInv, Papers!DiskInv, Papers!DiskKnown, Papers!UnderWay
    <3>2. /\ Papers!HasRead(submissions[s], documents)
          /\ disk = Papers!ExpectedDisk(submissions[s], documents)
      BY <2>2, <3>1 DEF Papers!HasRead, Papers!NotYetSaved, Papers!ExpectedDisk,
                        Papers!SavedBy, Papers!Submits, Papers!Idle
    <3> QED
      BY <1>5, <2>1, <3>2
  <2>3. CASE submissions[s] # Papers!Idle
    <3>1. /\ Papers!HasRead(submissions[s], documents)
          /\ disk = Papers!ExpectedDisk(submissions[s], documents)
      BY <2>1, <2>3 DEF CooksInv, Papers!DiskInv, Papers!DiskKnown
    <3> QED
      BY <1>5, <2>1, <3>1
  <2> QED
    BY <2>2, <2>3
<1>6. q = Papers!Idle => Papers!ExpectedDisk(q, documents') = Papers!Named(documents')
  BY DEF Papers!ExpectedDisk, Papers!SavedBy, Papers!Submits, Papers!Idle
<1>7. Papers!DiskKnown'
  <2>1. /\ Papers!Named(documents)' = Papers!Named(documents')
        /\ \A t \in Sessions : submissions'[t] # Papers!Idle /\ ~overlapped' => t = s
    BY <1>1, <1>2 DEF Papers!Named
  <2>2. ASSUME ~overlapped', ~cut', ~Papers!UnderWay(Sessions)'
        PROVE  disk' = Papers!Named(documents')
    BY <1>1, <1>5, <1>6, <2>2 DEF Papers!UnderWay, Papers!Idle
  <2>3. ASSUME ~overlapped', ~cut', NEW t \in Sessions, submissions'[t] # Papers!Idle
        PROVE  /\ Papers!HasRead(submissions'[t], documents')
               /\ disk' = Papers!ExpectedDisk(submissions'[t], documents')
    BY <1>1, <1>5, <2>1, <2>3
  <2> QED
    BY <2>1, <2>2, <2>3 DEF Papers!DiskKnown, Papers!Idle
<1> QED
  BY <1>3, <1>4, <1>7 DEF Papers!DiskInv

\* What remains to be shown of a step that leaves the cook's row and the documents
\* named in it alone.
LEMMA FileStep ==
  ASSUME CooksInv, NEW s \in Sessions, NEW q \in Papers!Request, Papers!Moves(s, q),
         UNCHANGED <<cookStatus, documents, moderated, accountGone>>, cut' \in BOOLEAN,
         disk' \subseteq Papers!Files, saved' \in 0..MaxFiles,
         FilesKept', Papers!DiskInv'
  PROVE  CooksInv'
<1>1. Papers!TypeOK'
  BY OneSubmissionMoves DEF CooksInv, Papers!PapersInv, Papers!TypeOK
<1>2. Papers!ReasonIffRejected' /\ Papers!VerdictOnDocuments'
  BY RowsKept DEF CooksInv
<1> QED
  BY <1>1, <1>2 DEF CooksInv, Papers!PapersInv, FilesKept

\* loadCookForUserOrCreate, updateStatusByAdmin and the deletion of the account begin.
LEMMA StartsKeepsInv ==
  ASSUME CooksInv, NEW s \in Sessions, Papers!Starts(s)
  PROVE  CooksInv'
<1>1. PICK q : /\ Papers!To(s, q)
               /\ \/ \E withHealth \in BOOLEAN : q = Papers!Submitting(withHealth)
                  \/ \E submits, withHealth \in BOOLEAN :
                       q = [phase |-> "creating", submits |-> submits, withHealth |-> withHealth]
                  \/ \E status \in Papers!VerificationStatus :
                       q = [phase |-> "deciding", status |-> status]
                  \/ q = [phase |-> "erasing", old |-> Papers!Named(documents)]
  <2>1. ASSUME NEW submits \in BOOLEAN, NEW withHealth \in BOOLEAN,
               Papers!LoadCook(s, submits, withHealth)
        PROVE  \/ Papers!To(s, Papers!Submitting(withHealth))
               \/ Papers!To(s, [phase |-> "creating", submits |-> submits,
                                withHealth |-> withHealth])
    BY <2>1 DEF Papers!LoadCook
  <2>2. ASSUME NEW status \in Papers!VerificationStatus, Papers!UpdateStatusByAdmin(s, status)
        PROVE  Papers!To(s, [phase |-> "deciding", status |-> status])
    BY <2>2 DEF Papers!UpdateStatusByAdmin
  <2>3. ASSUME Papers!DeleteAccount(s)
        PROVE  Papers!To(s, [phase |-> "erasing", old |-> Papers!Named(documents)])
    BY <2>3 DEF Papers!DeleteAccount, Papers!Named
  <2> QED
    BY <2>1, <2>2, <2>3 DEF Papers!Starts
<1>2. /\ submissions[s] = Papers!Idle
      /\ UNCHANGED <<cookStatus, documents, moderated, disk, saved, accountGone, cut>>
  BY DEF Papers!Starts, Papers!LoadCook, Papers!UpdateStatusByAdmin, Papers!DeleteAccount,
         Papers!To, Papers!rows, Papers!files
<1>3. Papers!Moves(s, q)
  BY <1>1 DEF Papers!To
<1>4. /\ Papers!SavedBy(q) = {} /\ Papers!NamedBy(q) = {} /\ PhaseAgrees(q)
      /\ Papers!RemovedBy(q) \subseteq Papers!Named(documents)
      /\ q.phase \notin {"kitchen", "health", "certificate", "removing", "writing", "erased"}
      /\ q.phase = "erasing" => q.old = Papers!Named(documents)
      /\ Papers!Submits(q) => Papers!HealthApart(q.new)
      /\ Papers!NotYetSaved(q)
  BY <1>1 DEF Papers!NotYetSaved, Papers!Submitting, Papers!Submits, Papers!SavedBy, Papers!NamedBy,
              Papers!Named, Papers!NoDocuments, PhaseAgrees, Papers!RemovedBy,
              Papers!HealthApart
<1>5. FilesKept'
  BY <1>2, <1>3, <1>4, QuietPapers DEF CooksInv, Papers!Idle
<1>6. Papers!DiskInv'
  <2>1. Papers!HealthApart(documents')
    BY <1>2 DEF CooksInv, Papers!DiskInv, Papers!HealthFilesApart
  <2>2. Papers!HasRead(q, documents')
    BY <1>2, <1>4 DEF Papers!HasRead
  <2>3. disk = Papers!ExpectedDisk(submissions[s], documents) =>
          disk' = Papers!ExpectedDisk(q, documents')
    BY <1>2, <1>4 DEF Papers!ExpectedDisk, Papers!Idle, Papers!SavedBy, Papers!Submits
  <2> QED
    BY <1>2, <1>3, <1>4, <2>1, <2>2, <2>3, DiskStep
<1>7. Papers!TypeOK'
  BY PapersStartsType DEF CooksInv, Papers!PapersInv
<1>8. Papers!ReasonIffRejected' /\ Papers!VerdictOnDocuments'
  BY <1>2, RowsKept DEF CooksInv
<1> QED
  BY <1>5, <1>6, <1>7, <1>8 DEF CooksInv, Papers!PapersInv, FilesKept

\* cook.create
LEMMA CreateCookKeepsInv ==
  ASSUME CooksInv, NEW s \in Sessions, Papers!CreateCook(s)
  PROVE  CooksInv'
<1> DEFINE r == submissions[s]
<1>1. PICK q : /\ Papers!To(s, q)
               /\ q = Papers!Idle \/ q = Papers!Submitting(r.withHealth)
               /\ \/ cookStatus = Papers!NoProfile /\ cookStatus' = "PENDING"
                  \/ UNCHANGED cookStatus
  BY DEF Papers!CreateCook
<1>2. /\ r.phase = "creating"
      /\ UNCHANGED <<documents, moderated, disk, saved, accountGone, cut>>
  BY DEF Papers!CreateCook, Papers!To, Papers!files
<1>3. r.withHealth \in BOOLEAN
  BY <1>2, SubmissionShapes DEF CooksInv, Papers!PapersInv
<1>4. Papers!Moves(s, q) /\ q \in Papers!Request
  BY <1>1, <1>3 DEF Papers!To, Papers!Submitting, Papers!Request, Papers!Submission,
                    Papers!NoDocuments
<1>5. /\ Papers!SavedBy(q) = {} /\ Papers!NamedBy(q) = {} /\ PhaseAgrees(q)
      /\ Papers!RemovedBy(q) = {}
      /\ q.phase \in {"idle", "reading"}
      /\ Papers!Submits(q) => Papers!HealthApart(q.new)
      /\ Papers!NotYetSaved(q)
  BY <1>1 DEF Papers!NotYetSaved, Papers!Submitting, Papers!Idle, Papers!Submits, Papers!SavedBy, Papers!NamedBy,
              Papers!Named, Papers!NoDocuments, PhaseAgrees, Papers!RemovedBy,
              Papers!HealthApart
<1>6. FilesKept'
  BY <1>2, <1>4, <1>5, QuietPapers DEF CooksInv
<1>7. Papers!DiskInv'
  <2>1. Papers!HealthApart(documents')
    BY <1>2 DEF CooksInv, Papers!DiskInv, Papers!HealthFilesApart
  <2>2. Papers!HasRead(q, documents')
    BY <1>5 DEF Papers!HasRead
  <2>3. disk = Papers!ExpectedDisk(submissions[s], documents) =>
          disk' = Papers!ExpectedDisk(q, documents')
    BY <1>2, <1>5 DEF Papers!ExpectedDisk, Papers!SavedBy, Papers!Submits
  <2> QED
    BY <1>2, <1>4, <1>5, <2>1, <2>2, <2>3, DiskStep
<1>8. Papers!TypeOK'
  BY <1>1, <1>2, <1>4, OneSubmissionMoves
  DEF CooksInv, Papers!PapersInv, Papers!TypeOK, Papers!VerificationStatus
<1>9. Papers!ReasonIffRejected' /\ Papers!VerdictOnDocuments'
  BY <1>1, <1>2 DEF CooksInv, Papers!PapersInv, Papers!ReasonIffRejected,
                    Papers!VerdictOnDocuments, Papers!NoProfile
<1> QED
  BY <1>6, <1>7, <1>8, <1>9 DEF CooksInv, Papers!PapersInv, FilesKept

\* findUnique of the former documents
LEMMA ReadExistingKeepsInv ==
  ASSUME CooksInv, NEW s \in Sessions, Papers!ReadExisting(s)
  PROVE  CooksInv'
<1> DEFINE r == submissions[s]
<1>1. PICK q : /\ Papers!To(s, q)
               /\ q = [r EXCEPT !.phase = "kitchen", !.old = Papers!OldPaths(r.withHealth),
                                !.new = [Papers!NoDocuments EXCEPT
                                           !.health = IF r.withHealth THEN Papers!NoFile
                                                      ELSE documents.health]]
  BY DEF Papers!ReadExisting
<1>2. /\ r.phase = "reading"
      /\ UNCHANGED <<cookStatus, documents, moderated, accountGone, disk, saved, cut>>
  BY DEF Papers!ReadExisting, Papers!To, Papers!rows, Papers!files
<1>3. r \in Papers!Submission
  BY <1>2, SubmissionShapes DEF CooksInv, Papers!PapersInv, Papers!Submits
<1>4. /\ q.phase = "kitchen" /\ q.withHealth = r.withHealth /\ q.withHealth \in BOOLEAN
      /\ q.old = Papers!OldPaths(r.withHealth)
      /\ q.new.kitchen = Papers!NoFile /\ q.new.certificate = Papers!NoFile
      /\ q.new.health = (IF r.withHealth THEN Papers!NoFile ELSE documents.health)
      /\ q = [phase |-> "kitchen", withHealth |-> r.withHealth, old |-> q.old, new |-> q.new]
      /\ q.new = [kitchen |-> Papers!NoFile, health |-> q.new.health,
                  certificate |-> Papers!NoFile, rejectionReason |-> "null"]
  BY <1>1, <1>3 DEF Papers!Submission, Papers!NoDocuments
<1>5. /\ documents.kitchen \in Papers!Files \cup {Papers!NoFile}
      /\ documents.health \in Papers!Files \cup {Papers!NoFile}
      /\ documents.certificate \in Papers!Files \cup {Papers!NoFile}
  BY DocumentShapes DEF CooksInv, Papers!PapersInv, Papers!TypeOK
<1>6. q.old \subseteq Papers!Files /\ q.old \subseteq Papers!Named(documents)
  BY <1>4, <1>5 DEF Papers!OldPaths, Papers!Named
<1>7. q \in Papers!Request
  <2>1. q.new.health \in Papers!Files \cup {Papers!NoFile}
    BY <1>4, <1>5
  <2>2. q.new \in [kitchen: Papers!Files \cup {Papers!NoFile},
                   health: Papers!Files \cup {Papers!NoFile},
                   certificate: Papers!Files \cup {Papers!NoFile}, rejectionReason: {"null"}]
    BY <1>4, <2>1
  <2>3. q \in Papers!Submission
    BY <1>4, <1>6, <2>2 DEF Papers!Submission
  <2> QED
    BY <2>3 DEF Papers!Request
<1>8. Papers!Moves(s, q)
  BY <1>1 DEF Papers!To
<1>9. /\ Papers!SavedBy(q) = {} /\ PhaseAgrees(q)
      /\ Papers!NamedBy(q) \subseteq Papers!Named(documents)
      /\ Papers!RemovedBy(q) \subseteq Papers!Named(documents)
  BY <1>4, <1>6 DEF Papers!Submits, Papers!SavedBy, Papers!NamedBy, Papers!Named, PhaseAgrees,
                    Papers!RemovedBy
<1>10. FilesKept'
  BY <1>2, <1>4, <1>8, <1>9, QuietPapers DEF CooksInv
<1>11. Papers!DiskInv'
  <2>1. Papers!HealthApart(documents')
    BY <1>2 DEF CooksInv, Papers!DiskInv, Papers!HealthFilesApart
  <2>2. Papers!HealthApart(q.new)
    BY <1>4 DEF Papers!HealthApart
  <2>3. Papers!HasRead(q, documents')
    BY <1>2, <1>4 DEF Papers!HasRead, Papers!NotYetSaved, Papers!OldPaths
  <2>4. ASSUME Papers!HasRead(r, documents), disk = Papers!ExpectedDisk(r, documents)
        PROVE  disk' = Papers!ExpectedDisk(q, documents')
    <3>1. Papers!SavedBy(r) = {}
      BY <1>2, <1>3, <2>4 DEF Papers!HasRead, Papers!NotYetSaved, Papers!SavedBy, Papers!Submission
    <3> QED
      BY <1>2, <1>4, <1>9, <2>4, <3>1 DEF Papers!ExpectedDisk
  <2> QED
    BY <1>2, <1>8, <2>1, <2>2, <2>3, <2>4, DiskStep
<1> QED
  BY <1>2, <1>7, <1>8, <1>10, <1>11, FileStep DEF CooksInv, Papers!PapersInv, Papers!TypeOK

\* What a step that saves a file makes of the request.
SavesIn(r, q) ==
  \/ /\ r.phase = "kitchen"
     /\ q.phase = IF r.withHealth THEN "health" ELSE "certificate"
     /\ q.new.kitchen = saved + 1
     /\ q.new.health = r.new.health /\ q.new.certificate = r.new.certificate
  \/ /\ r.phase = "health" /\ q.phase = "certificate"
     /\ q.new.health = saved + 1
     /\ q.new.kitchen = r.new.kitchen /\ q.new.certificate = r.new.certificate
  \/ /\ r.phase = "certificate" /\ q.phase = "removing"
     /\ q.new.certificate = saved + 1
     /\ q.new.kitchen = r.new.kitchen /\ q.new.health = r.new.health

Saves(s) ==
  Papers!SaveKitchenPhotos(s) \/ Papers!SaveHealthCert(s) \/ Papers!SaveCertificate(s)

LEMMA SavesShape ==
  ASSUME Papers!TypeOK, NEW s \in Sessions, Saves(s)
  PROVE  \E q \in Papers!Submission :
           /\ Papers!Save(s, q) /\ SavesIn(submissions[s], q)
           /\ q.withHealth = submissions[s].withHealth /\ q.old = submissions[s].old
<1> DEFINE r == submissions[s]
<1>1. r \in Papers!Submission
  BY SubmissionShapes DEF Saves, Papers!SaveKitchenPhotos, Papers!SaveHealthCert,
                          Papers!SaveCertificate, Papers!Submits
<1>2. Papers!FreshName \in Papers!Files /\ Papers!FreshName = saved + 1
  BY FreshFile DEF Saves, Papers!SaveKitchenPhotos, Papers!SaveHealthCert,
                   Papers!SaveCertificate, Papers!Save
<1>3. CASE Papers!SaveKitchenPhotos(s)
  <2> DEFINE q == [r EXCEPT !.phase = IF r.withHealth THEN "health" ELSE "certificate",
                            !.new.kitchen = Papers!FreshName]
  <2>1. r.phase = "kitchen" /\ Papers!Save(s, q)
    BY <1>3 DEF Papers!SaveKitchenPhotos
  <2>2. q \in Papers!Submission /\ q.withHealth = r.withHealth /\ q.old = r.old
    BY <1>1, <1>2 DEF Papers!Submission
  <2>3. SavesIn(r, q)
    BY <1>1, <1>2, <2>1 DEF Papers!Submission, SavesIn
  <2> QED
    BY <2>1, <2>2, <2>3
<1>4. CASE Papers!SaveHealthCert(s)
  <2> DEFINE q == [r EXCEPT !.phase = "certificate", !.new.health = Papers!FreshName]
  <2>1. r.phase = "health" /\ Papers!Save(s, q)
    BY <1>4 DEF Papers!SaveHealthCert
  <2>2. q \in Papers!Submission /\ q.withHealth = r.withHealth /\ q.old = r.old
    BY <1>1, <1>2 DEF Papers!Submission
  <2>3. SavesIn(r, q)
    BY <1>1, <1>2, <2>1 DEF Papers!Submission, SavesIn
  <2> QED
    BY <2>1, <2>2, <2>3
<1>5. CASE Papers!SaveCertificate(s)
  <2> DEFINE q == [r EXCEPT !.phase = "removing", !.new.certificate = Papers!FreshName]
  <2>1. r.phase = "certificate" /\ Papers!Save(s, q)
    BY <1>5 DEF Papers!SaveCertificate
  <2>2. q \in Papers!Submission /\ q.withHealth = r.withHealth /\ q.old = r.old
    BY <1>1, <1>2 DEF Papers!Submission
  <2>3. SavesIn(r, q)
    BY <1>1, <1>2, <2>1 DEF Papers!Submission, SavesIn
  <2> QED
    BY <2>1, <2>2, <2>3
<1> QED
  BY <1>3, <1>4, <1>5 DEF Saves

\* saveVerificationFile, of the kitchen photos, the health certificate and the
\* business certificate
LEMMA SavesKeepInv ==
  ASSUME CooksInv, NEW s \in Sessions, Saves(s)
  PROVE  CooksInv'
<1> DEFINE r == submissions[s]
           fresh == saved + 1
<1>1. PICK q \in Papers!Submission :
        /\ Papers!Save(s, q) /\ SavesIn(r, q) /\ q.withHealth = r.withHealth /\ q.old = r.old
  BY SavesShape DEF CooksInv, Papers!PapersInv
<1>2. r \in Papers!Submission
  BY <1>1, SubmissionShapes DEF CooksInv, Papers!PapersInv, SavesIn, Papers!Submits
<1>3. /\ Papers!Moves(s, q) /\ saved' = fresh /\ disk' = disk \cup {fresh}
      /\ UNCHANGED <<cookStatus, documents, moderated, accountGone, cut>>
  BY <1>1 DEF Papers!Save, Papers!To, Papers!FreshName, Papers!rows
<1>4. /\ fresh \in Papers!Files /\ fresh \in 0..MaxFiles
      /\ fresh # Papers!NoFile /\ fresh \notin 1..saved
  <2>1. fresh \in 1..MaxFiles => fresh \in 0..MaxFiles
    OBVIOUS
  <2> QED
    BY <1>1, <2>1, FreshFile DEF CooksInv, Papers!PapersInv, Papers!Save, Papers!Files
<1>5. /\ PhaseAgrees(r) /\ Papers!NamedBy(r) \subseteq 1..saved
      /\ Papers!HealthApart(r.new)
  BY <1>1, <1>2 DEF CooksInv, Papers!PapersInv, Papers!PhasesAgree, Papers!NamesUsed,
                    Papers!DiskInv, Papers!HealthFilesApart, PhaseAgrees, Papers!Submission,
                    Papers!Submits
<1>6. Papers!Submits(r) /\ Papers!Submits(q)
  BY <1>1, <1>2 DEF Papers!Submission, Papers!Submits
<1>7. /\ Papers!NamedBy(r) = {r.new.kitchen, r.new.health, r.new.certificate} \ {Papers!NoFile}
      /\ Papers!NamedBy(q) = {q.new.kitchen, q.new.health, q.new.certificate} \ {Papers!NoFile}
      /\ Papers!RemovedBy(q) = Papers!RemovedBy(r)
  BY <1>1, <1>6 DEF Papers!NamedBy, Papers!Named, Papers!RemovedBy
<1>8. /\ q.phase \in {"health", "certificate", "removing"}
      /\ r.phase \in {"kitchen", "health", "certificate"}
  BY <1>1, <1>2 DEF SavesIn, Papers!Submission
<1>9. FilesKept'
  <2>1. PhaseAgrees(q)
    BY <1>1, <1>2, <1>4, <1>5, <1>6 DEF SavesIn, PhaseAgrees
  <2>2. Papers!SavedBy(q) \subseteq Papers!SavedBy(r) \cup {fresh}
    BY <1>1, <1>4, <1>6 DEF SavesIn, Papers!SavedBy
  <2>3. Papers!NamedBy(q) \subseteq Papers!NamedBy(r) \cup {fresh}
    BY <1>1, <1>7 DEF SavesIn
  <2> HIDE DEF fresh
  <2> QED
    BY <1>1, <1>7, <1>8, <2>1, <2>2, <2>3, SavingKeepsFiles DEF CooksInv, fresh
<1>10. Papers!DiskInv'
  <2>1. Papers!HealthApart(documents')
    BY <1>3 DEF CooksInv, Papers!DiskInv, Papers!HealthFilesApart
  <2>2. Papers!HealthApart(q.new)
    BY <1>1, <1>4, <1>5, <1>7 DEF SavesIn, Papers!HealthApart
  <2>3. ASSUME Papers!HasRead(r, documents), disk = Papers!ExpectedDisk(r, documents)
        PROVE  /\ Papers!HasRead(q, documents')
               /\ disk' = Papers!ExpectedDisk(q, documents')
    <3>1. Papers!NotYetSaved(r)
      BY <2>3 DEF Papers!HasRead
    <3>2. Papers!NotYetSaved(q)
      BY <1>1, <3>1 DEF SavesIn, Papers!NotYetSaved
    <3>3. Papers!HasRead(q, documents')
      <4>1. ~q.withHealth => q.new.health = r.new.health
        BY <1>1, <3>1 DEF SavesIn, Papers!NotYetSaved
      <4> QED
        BY <1>1, <1>3, <1>8, <2>3, <3>2, <4>1 DEF Papers!HasRead
    <3>4. Papers!SavedBy(q) = Papers!SavedBy(r) \cup {fresh}
      BY <1>1, <1>4, <1>6, <3>1 DEF SavesIn, Papers!SavedBy, Papers!NotYetSaved
    <3>5. disk' = Papers!ExpectedDisk(q, documents')
      BY <1>3, <1>8, <2>3, <3>4 DEF Papers!ExpectedDisk
    <3> QED
      BY <3>3, <3>5
  <2> QED
    BY <1>3, <2>1, <2>2, <2>3, DiskStep
<1>11. q \in Papers!Request /\ disk' \subseteq Papers!Files /\ saved' \in 0..MaxFiles
       /\ cut' \in BOOLEAN
  BY <1>1, <1>3, <1>4 DEF Papers!Request, CooksInv, Papers!PapersInv, Papers!TypeOK
<1> QED
  BY <1>3, <1>9, <1>10, <1>11, FileStep

\* removeStoredFiles, of the documents that the submission replaces
LEMMA RemoveOldPathsKeepsInv ==
  ASSUME CooksInv, NEW s \in Sessions, Papers!RemoveOldPaths(s)
  PROVE  CooksInv'
<1> DEFINE r == submissions[s]
<1>1. PICK q : Papers!To(s, q) /\ q = [r EXCEPT !.phase = "writing"]
  BY DEF Papers!RemoveOldPaths
<1>2. /\ r.phase = "removing" /\ Papers!Moves(s, q) /\ disk' = disk \ r.old
      /\ UNCHANGED <<cookStatus, documents, moderated, accountGone, saved, cut>>
  BY <1>1 DEF Papers!RemoveOldPaths, Papers!To, Papers!rows
<1>3. Papers!Submits(r) /\ r \in Papers!Submission
  BY <1>2, SubmissionShapes DEF CooksInv, Papers!PapersInv, Papers!Submits
<1>4. /\ q.phase = "writing" /\ q.withHealth = r.withHealth /\ q.old = r.old
      /\ q.new = r.new /\ q \in Papers!Submission /\ Papers!Submits(q)
  BY <1>1, <1>3 DEF Papers!Submission, Papers!Submits
<1>5. /\ Papers!SavedBy(q) = Papers!SavedBy(r) /\ Papers!NamedBy(q) = Papers!NamedBy(r)
      /\ Papers!RemovedBy(q) = r.old /\ Papers!RemovedBy(r) = r.old
  BY <1>3, <1>4 DEF Papers!SavedBy, Papers!NamedBy, Papers!RemovedBy
<1>6. /\ PhaseAgrees(q) /\ Papers!HealthApart(r.new) /\ Papers!SavedBy(r) \cap r.old = {}
      /\ Papers!HealthApart(documents)
  BY <1>2, <1>3, <1>4, <1>5
  DEF CooksInv, Papers!PapersInv, Papers!PhasesAgree, PhaseAgrees, Papers!SavedFilesAreOwn,
      Papers!DiskInv, Papers!HealthFilesApart
<1>7. FilesKept'
  BY <1>1, <1>2, <1>4, <1>5, <1>6, RemovingKeepsFiles DEF CooksInv
<1>8. Papers!DiskInv'
  <2>1. Papers!HealthApart(documents')
    BY <1>2, <1>6
  <2>2. ASSUME Papers!HasRead(r, documents), disk = Papers!ExpectedDisk(r, documents)
        PROVE  /\ Papers!HasRead(q, documents')
               /\ disk' = Papers!ExpectedDisk(q, documents')
    <3>1. /\ r.old = {documents.kitchen, documents.certificate,
                      IF r.withHealth THEN documents.health ELSE Papers!NoFile}
                      \ {Papers!NoFile}
          /\ ~r.withHealth => r.new.health = documents.health
      BY <1>2, <2>2 DEF Papers!HasRead
    <3>2. Papers!HasRead(q, documents')
      BY <1>2, <1>4, <3>1 DEF Papers!HasRead, Papers!NotYetSaved
    <3>3. disk = Papers!Named(documents) \cup Papers!SavedBy(r)
      BY <1>2, <2>2 DEF Papers!ExpectedDisk
    <3>4. disk \ r.old = (Papers!Named(documents) \ r.old) \cup Papers!SavedBy(r)
      BY <1>6, <3>3
    <3>5. CASE r.withHealth
      <4>1. Papers!Named(documents) \ r.old = {}
        BY <3>1, <3>5 DEF Papers!Named
      <4>2. Papers!SavedBy(r) = Papers!Named(r.new)
        BY <1>3, <3>5 DEF Papers!SavedBy, Papers!Named
      <4> QED
        BY <1>2, <1>4, <3>2, <3>4, <4>1, <4>2 DEF Papers!ExpectedDisk
    <3>6. CASE ~r.withHealth
      <4>1. Papers!Named(documents) \ r.old = {documents.health} \ {Papers!NoFile}
        BY <1>6, <3>1, <3>6 DEF Papers!Named, Papers!HealthApart
      <4>2. Papers!SavedBy(r) = {r.new.kitchen, r.new.certificate} \ {Papers!NoFile}
        BY <1>3, <3>6 DEF Papers!SavedBy
      <4>3. disk \ r.old = Papers!Named(r.new)
        BY <3>1, <3>4, <3>6, <4>1, <4>2 DEF Papers!Named
      <4> QED
        BY <1>2, <1>4, <3>2, <4>3 DEF Papers!ExpectedDisk
    <3> QED
      BY <3>5, <3>6
  <2> QED
    BY <1>2, <1>4, <1>6, <2>1, <2>2, DiskStep
<1>9. q \in Papers!Request /\ disk' \subseteq Papers!Files /\ saved' \in 0..MaxFiles
      /\ cut' \in BOOLEAN
  BY <1>2, <1>4 DEF Papers!Request, CooksInv, Papers!PapersInv, Papers!TypeOK
<1> QED
  BY <1>2, <1>7, <1>8, <1>9, FileStep

\* The transaction of a submission
LEMMA WriteDocumentsKeepsInv ==
  ASSUME CooksInv, NEW s \in Sessions, Papers!WriteDocuments(s)
  PROVE  CooksInv'
<1> DEFINE r == submissions[s]
<1>1. /\ r.phase = "writing" /\ Papers!To(s, Papers!Idle) /\ Papers!Moves(s, Papers!Idle)
      /\ documents' = r.new /\ cookStatus' = "UNDER_REVIEW" /\ moderated' = FALSE
      /\ UNCHANGED <<accountGone, disk, saved, cut>>
  BY DEF Papers!WriteDocuments, Papers!To, Papers!Upserted, Papers!files
<1>2. Papers!Submits(r) /\ r \in Papers!Submission
  BY <1>1, SubmissionShapes DEF CooksInv, Papers!PapersInv, Papers!Submits
<1>3. /\ r.new.kitchen # Papers!NoFile /\ r.new.certificate # Papers!NoFile
      /\ Papers!HealthApart(r.new)
  BY <1>1, <1>2 DEF CooksInv, Papers!PapersInv, Papers!PhasesAgree, Papers!DiskInv,
                    Papers!HealthFilesApart
<1>4. /\ documents' \in Papers!Documents /\ documents' # Papers!NoDocuments
      /\ documents'.rejectionReason = "null"
  <2>1. documents' \in Papers!Documents /\ documents'.rejectionReason = "null"
    BY <1>1, <1>2, <1>3 DEF Papers!Submission, Papers!Documents
  <2> QED
    BY <1>1, <1>3, <2>1 DEF Papers!NoDocuments
<1>5. FilesKept'
  <2>1. Papers!Named(documents') = Papers!NamedBy(r)
    BY <1>1, <1>2 DEF Papers!NamedBy
  <2>2. {documents'.kitchen, documents'.certificate} \subseteq Papers!SavedBy(r)
    BY <1>1, <1>2, <1>3 DEF Papers!SavedBy
  <2>3. /\ ~Papers!Submits(Papers!Idle) /\ Papers!RemovedBy(Papers!Idle) = {}
        /\ Papers!Idle.phase # "erased"
    BY DEF Papers!Submits, Papers!Idle, Papers!RemovedBy
  <2> QED
    BY <1>1, <1>2, <2>1, <2>2, <2>3, WritingKeepsFiles DEF CooksInv
<1>6. Papers!DiskInv'
  <2>1. Papers!HealthApart(documents') /\ ~Papers!Submits(Papers!Idle)
    BY <1>1, <1>3 DEF Papers!Submits, Papers!Idle
  <2>2. Papers!HasRead(Papers!Idle, documents')
    BY DEF Papers!HasRead, Papers!NotYetSaved, Papers!Idle
  <2>3. disk = Papers!ExpectedDisk(r, documents) =>
          disk' = Papers!ExpectedDisk(Papers!Idle, documents')
    BY <1>1 DEF Papers!ExpectedDisk, Papers!SavedBy, Papers!Submits, Papers!Idle
  <2> QED
    BY <1>1, <2>1, <2>2, <2>3, DiskStep
<1>7. Papers!TypeOK'
  <2>1. Papers!Idle \in Papers!Request
    BY DEF Papers!Request
  <2> QED
    BY <1>1, <1>4, <2>1, OneSubmissionMoves
    DEF CooksInv, Papers!PapersInv, Papers!TypeOK, Papers!VerificationStatus
<1>8. Papers!ReasonIffRejected' /\ Papers!VerdictOnDocuments'
  BY <1>1, <1>4 DEF Papers!ReasonIffRejected, Papers!VerdictOnDocuments
<1> QED
  BY <1>5, <1>6, <1>7, <1>8 DEF CooksInv, Papers!PapersInv, FilesKept

\* The transaction of a verdict
LEMMA WriteVerdictKeepsInv ==
  ASSUME CooksInv, NEW s \in Sessions, Papers!WriteVerdict(s)
  PROVE  CooksInv'
<1> DEFINE r == submissions[s]
<1>1. /\ r.phase = "deciding" /\ Papers!To(s, Papers!Idle) /\ Papers!Moves(s, Papers!Idle)
      /\ UNCHANGED <<accountGone, disk, saved, cut>>
  BY DEF Papers!WriteVerdict, Papers!To, Papers!files
<1>2. \/ /\ documents # Papers!NoDocuments /\ cookStatus' = r.status
         /\ documents' = [documents EXCEPT !.rejectionReason = Papers!ReasonOf(r.status)]
         /\ moderated' = FALSE
      \/ documents = Papers!NoDocuments /\ UNCHANGED <<cookStatus, documents, moderated>>
  BY DEF Papers!WriteVerdict
<1>3. r.status \in Papers!VerificationStatus
  BY <1>1, SubmissionShapes DEF CooksInv, Papers!PapersInv
<1>4. /\ documents'.kitchen = documents.kitchen /\ documents'.health = documents.health
      /\ documents'.certificate = documents.certificate
      /\ documents' \in Papers!Documents \cup {Papers!NoDocuments}
      /\ documents # Papers!NoDocuments <=> documents' # Papers!NoDocuments
      /\ documents # Papers!NoDocuments =>
           documents'.rejectionReason = Papers!ReasonOf(r.status)
  <2>1. CASE documents = Papers!NoDocuments
    BY <1>2, <2>1
  <2>2. CASE documents \in Papers!Documents
    <3>1. /\ documents'.kitchen = documents.kitchen /\ documents'.health = documents.health
          /\ documents'.certificate = documents.certificate
          /\ documents' \in Papers!Documents
          /\ documents'.rejectionReason = Papers!ReasonOf(r.status)
      <4>1. documents # Papers!NoDocuments
        BY <2>2 DEF Papers!Documents, Papers!NoDocuments, Papers!Files, Papers!NoFile
      <4> QED
        BY <1>2, <2>2, <4>1 DEF Papers!Documents, Papers!ReasonOf
    <3>2. documents' # Papers!NoDocuments /\ documents # Papers!NoDocuments
      BY <2>2, <3>1 DEF Papers!Documents, Papers!NoDocuments, Papers!Files, Papers!NoFile
    <3> QED
      BY <3>1, <3>2
  <2> QED
    BY <2>1, <2>2 DEF CooksInv, Papers!PapersInv, Papers!TypeOK
<1>5. /\ ~Papers!Submits(Papers!Idle) /\ Papers!RemovedBy(Papers!Idle) = {}
      /\ Papers!Idle.phase = "idle"
  BY DEF Papers!Submits, Papers!Idle, Papers!RemovedBy
<1>6. FilesKept'
  BY <1>1, <1>4, <1>5, QuietPapers, NothingInHand DEF CooksInv
<1>7. Papers!DiskInv'
  <2>1. Papers!HealthApart(documents')
    BY <1>4 DEF CooksInv, Papers!DiskInv, Papers!HealthFilesApart, Papers!HealthApart
  <2>2. Papers!HasRead(Papers!Idle, documents')
    BY <1>5 DEF Papers!HasRead, Papers!NotYetSaved
  <2>3. disk = Papers!ExpectedDisk(r, documents) =>
          disk' = Papers!ExpectedDisk(Papers!Idle, documents')
    BY <1>1, <1>4 DEF Papers!ExpectedDisk, Papers!SavedBy, Papers!Submits, Papers!Idle,
                      Papers!Named
  <2> QED
    BY <1>1, <1>5, <2>1, <2>2, <2>3, DiskStep
<1>8. Papers!TypeOK'
  <2>1. Papers!Idle \in Papers!Request
    BY DEF Papers!Request
  <2> QED
    BY <1>1, <1>2, <1>3, <1>4, <2>1, OneSubmissionMoves
    DEF CooksInv, Papers!PapersInv, Papers!TypeOK
<1>9. Papers!ReasonIffRejected' /\ Papers!VerdictOnDocuments'
  BY <1>1, <1>2, <1>4 DEF CooksInv, Papers!PapersInv, Papers!ReasonIffRejected,
                          Papers!VerdictOnDocuments, Papers!ReasonOf
<1> QED
  BY <1>6, <1>7, <1>8, <1>9 DEF CooksInv, Papers!PapersInv, FilesKept

\* The transaction that deletes the account
LEMMA EraseDocumentsKeepsInv ==
  ASSUME CooksInv, NEW s \in Sessions, Papers!EraseDocuments(s)
  PROVE  CooksInv'
<1> DEFINE r == submissions[s]
           q == [phase |-> "erased", old |-> r.old]
<1>1. /\ r.phase = "erasing" /\ Papers!To(s, q) /\ Papers!Moves(s, q)
      /\ documents' = Papers!NoDocuments /\ accountGone' = TRUE
      /\ UNCHANGED <<cookStatus, moderated, disk, saved, cut>>
  BY DEF Papers!EraseDocuments, Papers!To, Papers!files
<1>2. r.old \subseteq Papers!Files
  BY <1>1, SubmissionShapes DEF CooksInv, Papers!PapersInv
<1>3. /\ ~Papers!Submits(q) /\ Papers!RemovedBy(q) = r.old /\ Papers!RemovedBy(r) = r.old
      /\ q.old = r.old /\ q.phase = "erased"
  BY <1>1 DEF Papers!Submits, Papers!RemovedBy
<1>4. r.old \subseteq 1..saved
  BY <1>3 DEF CooksInv, Papers!PapersInv, Papers!NamesUsed
<1>5. q \in Papers!Request
  BY <1>2 DEF Papers!Request
<1> HIDE DEF q
<1>6. FilesKept'
  BY <1>1, <1>3, <1>4, WritingKeepsFiles DEF CooksInv
<1>7. Papers!DiskInv'
  <2>1. Papers!HealthApart(documents')
    BY <1>1 DEF Papers!HealthApart, Papers!NoDocuments
  <2>2. Papers!HasRead(q, documents')
    BY <1>1, <1>3 DEF Papers!HasRead, Papers!NotYetSaved
  <2>3. ASSUME Papers!HasRead(r, documents), disk = Papers!ExpectedDisk(r, documents)
        PROVE  disk' = Papers!ExpectedDisk(q, documents')
    BY <1>1, <1>3, <2>3 DEF Papers!HasRead, Papers!ExpectedDisk, Papers!SavedBy,
                            Papers!Submits
  <2> QED
    BY <1>1, <1>3, <2>1, <2>2, <2>3, DiskStep
<1>8. Papers!TypeOK'
  BY <1>1, <1>5, OneSubmissionMoves DEF CooksInv, Papers!PapersInv, Papers!TypeOK
<1>9. Papers!ReasonIffRejected' /\ Papers!VerdictOnDocuments'
  BY <1>1 DEF Papers!ReasonIffRejected, Papers!VerdictOnDocuments
<1> QED
  BY <1>6, <1>7, <1>8, <1>9 DEF CooksInv, Papers!PapersInv, FilesKept

\* Removing the files of an account that is gone
LEMMA RemoveErasedKeepsInv ==
  ASSUME CooksInv, NEW s \in Sessions, Papers!RemoveErased(s)
  PROVE  CooksInv'
<1> DEFINE r == submissions[s]
           q == Papers!Idle
<1>1. /\ r.phase = "erased" /\ Papers!To(s, q) /\ Papers!Moves(s, q)
      /\ disk' = disk \ r.old
      /\ UNCHANGED <<cookStatus, documents, moderated, accountGone, saved, cut>>
  BY DEF Papers!RemoveErased, Papers!To, Papers!rows
<1>2. /\ ~Papers!Submits(q) /\ Papers!RemovedBy(q) = {} /\ Papers!SavedBy(q) = {}
      /\ Papers!NamedBy(q) = {} /\ PhaseAgrees(q) /\ q.phase = "idle"
      /\ Papers!RemovedBy(r) = r.old
  BY <1>1, NothingInHand DEF Papers!Submits, Papers!RemovedBy, Papers!Idle
<1>3. r.old \cap {documents.kitchen, documents.certificate} = {}
  BY <1>1 DEF CooksInv, Papers!PapersInv, Papers!ErasedAreGone
<1>4. q \in Papers!Request
  BY DEF Papers!Request
<1> HIDE DEF q
<1>5. FilesKept'
  BY <1>1, <1>2, <1>3, RemovingKeepsFiles DEF CooksInv
<1>6. Papers!DiskInv'
  <2>1. Papers!HealthApart(documents')
    BY <1>1 DEF CooksInv, Papers!DiskInv, Papers!HealthFilesApart
  <2>2. Papers!HasRead(q, documents')
    BY <1>2 DEF Papers!HasRead, Papers!NotYetSaved
  <2>3. ASSUME Papers!HasRead(r, documents), disk = Papers!ExpectedDisk(r, documents)
        PROVE  disk' = Papers!ExpectedDisk(q, documents')
    <3>1. Papers!Named(documents) = {}
      BY <1>1, <2>3 DEF Papers!HasRead, Papers!Named, Papers!NoDocuments
    <3> QED
      BY <1>1, <1>2, <2>3, <3>1 DEF Papers!ExpectedDisk
  <2> QED
    BY <1>1, <1>2, <2>1, <2>2, <2>3, DiskStep
<1>7. disk' \subseteq Papers!Files /\ saved' \in 0..MaxFiles /\ cut' \in BOOLEAN
  BY <1>1 DEF CooksInv, Papers!PapersInv, Papers!TypeOK
<1> QED
  BY <1>1, <1>4, <1>5, <1>6, <1>7, FileStep

\* The server dies, or a statement fails
LEMMA FailKeepsInv ==
  ASSUME CooksInv, NEW s \in Sessions, Papers!Fail(s)
  PROVE  CooksInv'
<1> DEFINE q == Papers!Idle
<1>1. /\ Papers!Moves(s, q) /\ cut' = TRUE
      /\ UNCHANGED <<cookStatus, documents, moderated, accountGone, disk, saved>>
  BY DEF Papers!Fail, Papers!rows, Papers!files
<1>2. /\ ~Papers!Submits(q) /\ Papers!RemovedBy(q) = {} /\ Papers!SavedBy(q) = {}
      /\ Papers!NamedBy(q) = {} /\ PhaseAgrees(q) /\ q.phase = "idle"
  BY NothingInHand DEF Papers!Submits, Papers!RemovedBy, Papers!Idle
<1>3. q \in Papers!Request
  BY DEF Papers!Request
<1> HIDE DEF q
<1>4. FilesKept'
  BY <1>1, <1>2, QuietPapers DEF CooksInv
<1>5. Papers!DiskInv'
  BY <1>1, <1>2, DiskStep DEF CooksInv, Papers!DiskInv, Papers!HealthFilesApart
<1>6. disk' \subseteq Papers!Files /\ saved' \in 0..MaxFiles /\ cut' \in BOOLEAN
  BY <1>1 DEF CooksInv, Papers!PapersInv, Papers!TypeOK
<1> QED
  BY <1>1, <1>3, <1>4, <1>5, <1>6, FileStep

\* Where neither the files nor the requests change, nor the files the row names.
LEMMA FilesLeftAlone ==
  ASSUME CooksInv, UNCHANGED <<documents, disk, saved, submissions, cut>>,
         overlapped => overlapped'
  PROVE  FilesKept' /\ Papers!DiskInv'
<1>1. Papers!PhasesAgree' /\ Papers!NamesUsed' /\ Papers!ErasedAreGone'
  BY DEF CooksInv, Papers!PapersInv, Papers!PhasesAgree, Papers!NamesUsed,
         Papers!ErasedAreGone, Papers!Named
<1>2. Papers!SavedFilesAreOwn' /\ Papers!PapersAwaited'
  BY DEF CooksInv, Papers!PapersInv, Papers!SavedFilesAreOwn, Papers!PapersAwaited,
         Papers!Named
<1>3. Papers!HealthFilesApart' /\ Papers!Alone'
  BY DEF CooksInv, Papers!DiskInv, Papers!HealthFilesApart, Papers!HealthApart,
         Papers!Alone, Papers!Idle
<1>4. Papers!DiskKnown'
  BY DEF CooksInv, Papers!DiskInv, Papers!DiskKnown, Papers!UnderWay, Papers!Named,
         Papers!Idle
<1> QED
  BY <1>1, <1>2, <1>3, <1>4 DEF FilesKept, Papers!DiskInv

\* resolveReport with REJECT_COOK
LEMMA RejectCookKeepsInv ==
  ASSUME CooksInv, Papers!RejectCook
  PROVE  CooksInv'
<1>1. /\ cookStatus' = "REJECTED" /\ moderated' = TRUE
      /\ UNCHANGED <<documents, accountGone, disk, saved, submissions, cut>>
      /\ overlapped' \in BOOLEAN /\ (overlapped => overlapped')
  BY DEF CooksInv, Papers!PapersInv, Papers!TypeOK, Papers!RejectCook, Papers!files,
         Papers!UnderWay
<1>2. FilesKept' /\ Papers!DiskInv'
  BY <1>1, FilesLeftAlone
<1>3. Papers!TypeOK'
  BY <1>1 DEF CooksInv, Papers!PapersInv, Papers!TypeOK, Papers!VerificationStatus
<1>4. Papers!ReasonIffRejected' /\ Papers!VerdictOnDocuments'
  BY <1>1 DEF Papers!ReasonIffRejected, Papers!VerdictOnDocuments
<1> QED
  BY <1>2, <1>3, <1>4 DEF CooksInv, Papers!PapersInv, FilesKept

LEMMA CooksInvInit ==
  ASSUME Papers!Init
  PROVE  CooksInv
<1>1. Papers!TypeOK
  <2>1. submissions \in [Sessions -> Papers!Request]
    BY DEF Papers!Init, Papers!Request
  <2>2. saved \in 0..MaxFiles
    BY MaxFilesAssumption DEF Papers!Init
  <2> QED
    BY <2>1, <2>2 DEF Papers!Init, Papers!TypeOK, Papers!VerificationStatus
<1>2. \A s \in Sessions : /\ ~Papers!Submits(submissions[s])
                          /\ submissions[s].phase \notin {"erasing", "erased"}
                          /\ submissions[s] = Papers!Idle
  BY DEF Papers!Init, Papers!Submits, Papers!Idle
<1>3. FilesKept
  BY <1>2, NothingInHand
  DEF Papers!Init, FilesKept, Papers!PhasesAgree, Papers!NamesUsed, Papers!SavedFilesAreOwn,
      Papers!PapersAwaited, Papers!ErasedAreGone, Papers!Named, Papers!NoDocuments
<1>4. Papers!ReasonIffRejected /\ Papers!VerdictOnDocuments
  BY DEF Papers!Init, Papers!ReasonIffRejected, Papers!VerdictOnDocuments, Papers!NoProfile
<1>5. Papers!DiskInv
  BY <1>2
  DEF Papers!Init, Papers!DiskInv, Papers!HealthFilesApart, Papers!HealthApart, Papers!Alone,
      Papers!DiskKnown, Papers!Named, Papers!NoDocuments
<1> QED
  BY <1>1, <1>3, <1>4, <1>5 DEF CooksInv, Papers!PapersInv, FilesKept

LEMMA CooksInvNext ==
  ASSUME CooksInv, [Papers!Next]_Papers!vars
  PROVE  CooksInv'
<1>1. ASSUME NEW s \in Sessions, Papers!Steps(s)
      PROVE  CooksInv'
  BY <1>1, CreateCookKeepsInv, ReadExistingKeepsInv, SavesKeepInv, RemoveOldPathsKeepsInv,
     WriteDocumentsKeepsInv, WriteVerdictKeepsInv, EraseDocumentsKeepsInv,
     RemoveErasedKeepsInv
  DEF Papers!Steps, Saves
<1>2. CASE UNCHANGED Papers!vars
  <2>1. UNCHANGED <<cookStatus, documents, moderated, disk, saved, accountGone, submissions,
                    overlapped, cut>>
    BY <1>2 DEF Papers!vars
  <2>2. FilesKept' /\ Papers!DiskInv'
    BY <2>1, FilesLeftAlone
  <2>3. Papers!TypeOK'
    BY <2>1 DEF CooksInv, Papers!PapersInv, Papers!TypeOK
  <2>4. Papers!ReasonIffRejected' /\ Papers!VerdictOnDocuments'
    BY <2>1, RowsKept DEF CooksInv
  <2> QED
    BY <2>2, <2>3, <2>4 DEF CooksInv, Papers!PapersInv, FilesKept
<1> QED
  BY <1>1, <1>2, StartsKeepsInv, FailKeepsInv, RejectCookKeepsInv DEF Papers!Next

-----------------------------------------------------------------------------
(* CookVerification: the theorems *)

\* Whatever is submitted, decided, deleted, cut short or rejected at the same time, the
\* files a submission has saved are its own, and what the rows, the requests and the
\* disk hold agree.
THEOREM CooksInvariant == Papers!Spec => []CooksInv
<1>1. Papers!Init => CooksInv
  BY CooksInvInit
<1>2. CooksInv /\ [Papers!Next]_Papers!vars => CooksInv'
  BY CooksInvNext
<1> QED
  BY <1>1, <1>2, PTL DEF Papers!Spec

\* submitForUser: as long as no request is cut short, the kitchen photos and the
\* certificate the row names are on disk when all requests have ended.
THEOREM PapersStayOnDisk == Papers!Spec => []PapersOnDisk
<1>1. CooksInv => PapersOnDisk
  BY DEF CooksInv, Papers!PapersInv, Papers!PapersAwaited, PapersOnDisk, Papers!PapersOnDisk,
         Papers!Quiet, Papers!UnderWay, Papers!Idle
<1> QED
  BY <1>1, CooksInvariant, PTL

\* submitForUser and deleteAccount: requests that do not overlap leave the files that the
\* row names on disk, and no others.
THEOREM DiskIsTheDocuments == Papers!Spec => []DiskHoldsDocuments
<1>1. CooksInv => DiskHoldsDocuments
  BY DEF CooksInv, Papers!DiskInv, Papers!DiskKnown, DiskHoldsDocuments,
         Papers!DiskHoldsDocuments, Papers!Quiet, Papers!Named
<1> QED
  BY <1>1, CooksInvariant, PTL

\* updateStatusByAdmin: a reason is there exactly when the operators' verdict is a
\* rejection.
THEOREM ReasonsAreOfRejections == Papers!Spec => []ReasonIffRejected
<1>1. CooksInv => ReasonIffRejected
  BY DEF CooksInv, Papers!PapersInv, ReasonIffRejected
<1> QED
  BY <1>1, CooksInvariant, PTL

\* updateStatusByAdmin, submitForUser: no verdict on the cook of a live account without
\* documents.
THEOREM VerdictsRestOnDocuments == Papers!Spec => []VerdictOnDocuments
<1>1. CooksInv => VerdictOnDocuments
  BY DEF CooksInv, Papers!PapersInv, VerdictOnDocuments
<1> QED
  BY <1>1, CooksInvariant, PTL

-----------------------------------------------------------------------------
(* Storefront: types *)

\* A Cook row as the handlers leave it.
CookRow == [verificationStatus: Shop!VerificationStatus,
            workStartAt: Shop!Times \cup {Shop!Null}, workEndAt: Shop!Times \cup {Shop!Null}]

\* Hours are both there, in order, or both missing.
HoursOK(row) == \/ row.workStartAt = Shop!Null /\ row.workEndAt = Shop!Null
                \/ 0 <= row.workStartAt /\ row.workStartAt < row.workEndAt

LEMMA HoursWritten ==
  ASSUME Shop!TypeOK, NEW c \in Cooks, NEW start \in Shop!Times, NEW end \in Shop!Times,
         Shop!UpdateMySchedule(c, start, end)
  PROVE  Shop!TypeOK'
<1>1. start \in Int /\ end \in Int /\ 0 <= start /\ start < end
  BY DEF Shop!UpdateMySchedule, Shop!ScheduleRange, Shop!Times
<1>2. /\ cookRows' = [cookRows EXCEPT ![c].workStartAt = start, ![c].workEndAt = end]
      /\ UNCHANGED <<now, shown, blocks>>
  BY DEF Shop!UpdateMySchedule
<1>3. \A k \in Cooks : k # c => cookRows'[k] = cookRows[k]
  BY <1>2 DEF Shop!TypeOK
<1>4. /\ cookRows'[c].verificationStatus = cookRows[c].verificationStatus
      /\ cookRows'[c].workStartAt = start /\ cookRows'[c].workEndAt = end
  BY <1>2 DEF Shop!TypeOK
<1>5. cookRows' \in [Cooks -> CookRow]
  BY <1>2 DEF Shop!TypeOK, CookRow
<1>6. \A k \in Cooks : HoursOK(cookRows'[k])
  BY <1>1, <1>3, <1>4 DEF Shop!TypeOK, HoursOK
<1> QED
  BY <1>2, <1>5, <1>6 DEF Shop!TypeOK, CookRow, HoursOK

LEMMA HoursErased ==
  ASSUME Shop!TypeOK, NEW c \in Cooks, Shop!EraseCook(c)
  PROVE  Shop!TypeOK'
<1>1. /\ cookRows' = [cookRows EXCEPT ![c].workStartAt = Shop!Null, ![c].workEndAt = Shop!Null]
      /\ shown' = [shown EXCEPT ![c] = "hidden"]
      /\ UNCHANGED <<now, blocks>>
  BY DEF Shop!EraseCook
<1>2. \A k \in Cooks : k # c => cookRows'[k] = cookRows[k]
  BY <1>1 DEF Shop!TypeOK
<1>3. cookRows'[c].workStartAt = Shop!Null /\ cookRows'[c].workEndAt = Shop!Null
  BY <1>1 DEF Shop!TypeOK
<1>4. cookRows' \in [Cooks -> CookRow]
  BY <1>1 DEF Shop!TypeOK, CookRow
<1>5. \A k \in Cooks : HoursOK(cookRows'[k])
  BY <1>2, <1>3 DEF Shop!TypeOK, HoursOK
<1> QED
  BY <1>1, <1>4, <1>5 DEF Shop!TypeOK, CookRow, HoursOK

LEMMA StatusWritten ==
  ASSUME Shop!TypeOK, NEW c \in Cooks, NEW status \in Shop!VerificationStatus,
         Shop!StatusTurns(c, status)
  PROVE  Shop!TypeOK'
<1>1. /\ cookRows' = [cookRows EXCEPT ![c].verificationStatus = status]
      /\ UNCHANGED <<now, shown, blocks>>
  BY DEF Shop!StatusTurns
<1>2. \A k \in Cooks : /\ cookRows'[k].workStartAt = cookRows[k].workStartAt
                       /\ cookRows'[k].workEndAt = cookRows[k].workEndAt
  BY <1>1 DEF Shop!TypeOK
<1>3. cookRows' \in [Cooks -> CookRow]
  BY <1>1 DEF Shop!TypeOK, CookRow
<1> QED
  BY <1>1, <1>2, <1>3 DEF Shop!TypeOK, CookRow

LEMMA ShopStep ==
  ASSUME Shop!TypeOK, [Shop!Next]_Shop!vars
  PROVE  Shop!TypeOK'
<1>1. CASE Shop!Tick
  <2>1. now' \in Shop!Times
    BY <1>1 DEF Shop!Tick, Shop!TypeOK
  <2> QED
    BY <1>1, <2>1 DEF Shop!Tick, Shop!TypeOK
<1>2. ASSUME NEW c \in Cooks, NEW start \in Shop!Times, NEW end \in Shop!Times,
             Shop!UpdateMySchedule(c, start, end)
      PROVE  Shop!TypeOK'
  BY <1>2, HoursWritten
<1>3. ASSUME NEW c \in Cooks, NEW status \in Shop!VerificationStatus,
             Shop!StatusTurns(c, status)
      PROVE  Shop!TypeOK'
  BY <1>3, StatusWritten
<1>4. ASSUME NEW c \in Cooks, Shop!EraseCook(c)
      PROVE  Shop!TypeOK'
  BY <1>4, HoursErased
<1>5. ASSUME NEW c \in Cooks, Shop!DishTurns(c)
      PROVE  Shop!TypeOK'
  BY <1>5 DEF Shop!DishTurns, Shop!TypeOK
<1>6. ASSUME NEW c \in Cooks, NEW v \in Viewers, Shop!BlockTurns(v, c)
      PROVE  Shop!TypeOK'
  BY <1>6 DEF Shop!BlockTurns, Shop!TypeOK
<1>7. CASE UNCHANGED Shop!vars
  BY <1>7 DEF Shop!vars, Shop!TypeOK
<1> QED
  BY <1>1, <1>2, <1>3, <1>4, <1>5, <1>6, <1>7 DEF Shop!Next

\* Hours are in order or missing, in every reachable state.
THEOREM ShopTypeCorrectness == Shop!Spec => []Shop!TypeOK
<1>1. Shop!Init => Shop!TypeOK
  BY DEF Shop!Init, Shop!TypeOK, Shop!Null, Shop!VerificationStatus
<1>2. Shop!TypeOK /\ [Shop!Next]_Shop!vars => Shop!TypeOK'
  BY ShopStep
<1> QED
  BY <1>1, <1>2, PTL DEF Shop!Spec

-----------------------------------------------------------------------------
(* Storefront: what is shown *)

LEMMA FilterIsTheFlag == Shop!TypeOK => Shop!FilterAgreesWithFlag
<1> SUFFICES ASSUME Shop!TypeOK, NEW viewer \in Shop!Clients
             PROVE  /\ Shop!ListedAvailable(viewer) =
                         {c \in Shop!Listed(viewer) : Shop!IsCookActiveNow(c)}
                    /\ Shop!ListedUnavailable(viewer) =
                         Shop!Listed(viewer) \ Shop!ListedAvailable(viewer)
  BY DEF Shop!FilterAgreesWithFlag
<1>1. /\ now \in Int
      /\ \A c \in Cooks : cookRows[c].workStartAt \in Int /\ cookRows[c].workEndAt \in Int
  BY DEF Shop!TypeOK, Shop!Times, Shop!Null
<1>2. \A c \in Shop!Listed(viewer) : c \in Cooks /\ cookRows[c].verificationStatus = "APPROVED"
  BY DEF Shop!Listed
<1>3. \A c \in Shop!Listed(viewer) :
        c \in Shop!ListedAvailable(viewer) <=> Shop!IsCookActiveNow(c)
  BY <1>1, <1>2 DEF Shop!ListedAvailable, Shop!IsCookActiveNow
<1>4. ASSUME NEW c \in Shop!Listed(viewer)
      PROVE  c \in Shop!ListedUnavailable(viewer) <=> c \notin Shop!ListedAvailable(viewer)
  <2> DEFINE start == cookRows[c].workStartAt
             end == cookRows[c].workEndAt
  <2>1. start \in Int /\ end \in Int
    BY <1>1, <1>2
  <2>2. c \in Shop!ListedAvailable(viewer) <=>
          start # Shop!Null /\ start <= now /\ end # Shop!Null /\ end > now
    BY DEF Shop!ListedAvailable
  <2>3. c \in Shop!ListedUnavailable(viewer) <=>
          start = Shop!Null \/ end = Shop!Null \/ start > now \/ end <= now
    BY DEF Shop!ListedUnavailable
  <2> HIDE DEF start, end
  <2> QED
    BY <1>1, <2>1, <2>2, <2>3
<1> QED
  BY <1>3, <1>4 DEF Shop!ListedAvailable, Shop!ListedUnavailable

\* The filter of the list and the flag on the pages agree, for all hours and at
\* every moment.
THEOREM FilterAndFlagAgree == Shop!Spec => []FilterAgreesWithFlag
<1>1. Shop!TypeOK => FilterAgreesWithFlag
  BY FilterIsTheFlag DEF FilterAgreesWithFlag
<1> QED
  BY <1>1, ShopTypeCorrectness, PTL

LEMMA PagesAreListed == Shop!FilterAgreesWithFlag => Shop!ListAgreesWithPages
  BY DEF Shop!FilterAgreesWithFlag, Shop!ListAgreesWithPages, Shop!HasPage, Shop!Listed,
         Shop!DishShownAvailable

\* Who is listed has a page, for every customer and whoever they have blocked.
THEOREM ListAndPagesAgree == Shop!Spec => []ListAgreesWithPages
<1>1. Shop!TypeOK => ListAgreesWithPages
  BY FilterIsTheFlag, PagesAreListed DEF ListAgreesWithPages
<1> QED
  BY <1>1, ShopTypeCorrectness, PTL

-----------------------------------------------------------------------------
(* The three components together *)

\* The data of the menus, of the applications and of what is shown are well formed,
\* whichever of the components moves.
THEOREM TypesCorrectness == SumSpec => []TypesOK
<1> DEFINE SumInv == IInv /\ CooksInv /\ Shop!TypeOK
<1>1. SumInit => SumInv
  <2>1. Shop!Init => Shop!TypeOK
    BY DEF Shop!Init, Shop!TypeOK, Shop!Null, Shop!VerificationStatus
  <2> QED
    BY <2>1, IInvInit, CooksInvInit DEF SumInit
<1>2. SumInv /\ [SumNext]_<<vars, papersVars, shopVars>> => SumInv'
  <2> SUFFICES ASSUME SumInv, [SumNext]_<<vars, papersVars, shopVars>>
               PROVE  SumInv'
    OBVIOUS
  <2>1. [Next]_vars /\ [Papers!Next]_Papers!vars /\ [Shop!Next]_Shop!vars
    BY DEF SumNext, papersVars, shopVars, Papers!vars, Shop!vars
  <2> QED
    BY <2>1, IInvStep, CooksInvNext, ShopStep
<1>3. SumInv => TypesOK
  BY DEF IInv, CooksInv, Papers!PapersInv, TypesOK
<1> QED
  BY <1>1, <1>2, <1>3, PTL DEF SumSpec
=============================================================================
