---------------------------------- MODULE Menus ----------------------------------
(***************************************************************************)
(* Menus: MenusService, the menus cooks put together from their dishes, a  *)
(* menu for a day.                                                         *)
(*                                                                         *)
(* Creating and updating a menu count the dishes and find the menu first,  *)
(* and write later, while dishes and menus come and go.  The database      *)
(* keeps a cook's menus apart by their date.                               *)
(***************************************************************************)
EXTENDS Naturals, FiniteSets

CONSTANTS
  Cooks,      \* the cooks
  Dishes,     \* dish rows that may be created
  CookOf,     \* CookOf[d]: the cook of dish d
  Days,       \* calendar dates (UTC)
  Sessions,   \* requests the server may be handling at the same time
  MaxMenus    \* bound: menus created in a behaviour

ASSUME MenusAssumption == CookOf \in [Dishes -> Cooks] /\ MaxMenus \in Nat

Ids == 1..MaxMenus

Menu == [cook: Cooks, date: Days, dishes: SUBSET Dishes]

\* A field of an update: the value, if one is given.
Optional(S) == {{}} \cup {{x} : x \in S}

Given(field, else) == IF field = {} THEN else ELSE CHOOSE x \in field : TRUE

Idle == [phase |-> "idle"]

Request ==
  {Idle}
    \cup [phase: {"creating"}, menu: Menu]
    \cup [phase: {"updating"}, id: Ids, date: Optional(Days), dishes: Optional(SUBSET Dishes)]
    \cup [phase: {"deleting"}, id: Ids]

VARIABLES
  dishes,    \* the dishes that have a row
  menus,     \* the Menu table, a function from the ids that exist
  created,   \* how many menus have been created (makes ids fresh)
  requests   \* requests[s]: where the handler of session s is

vars == <<dishes, menus, created, requests>>

Init ==
  /\ dishes = {}
  /\ menus = [m \in {} |-> Idle]
  /\ created = 0
  /\ requests = [s \in Sessions |-> Idle]

TypeOK ==
  /\ dishes \subseteq Dishes
  /\ created \in 0..MaxMenus
  /\ DOMAIN menus \subseteq 1..created /\ menus \in [DOMAIN menus -> Menu]
  /\ requests \in [Sessions -> Request]

To(s, r) == requests' = [requests EXCEPT ![s] = r]

DishesOf(c) == {d \in dishes : CookOf[d] = c}

\* Bug variant: the dishes are counted whoever's they are.
AllCounted_AnyCook(c, ds) == ds \subseteq dishes

\* The count of the cook's dishes among the ids is the number of ids.
AllCounted(c, ds) == ds \subseteq DishesOf(c)

\* The unique index on cook and date; else "Menu already exists for this date".
DateIsFree(c, date, others) ==
  \A m \in others : menus[m].cook = c => menus[m].date # date

-----------------------------------------------------------------------------
(* Creating a menu *)

CreateForCook(s, c, date, ds) ==
  /\ requests[s] = Idle
  /\ AllCounted(c, ds)
  /\ created < MaxMenus
  /\ To(s, [phase |-> "creating", menu |-> [cook |-> c, date |-> date, dishes |-> ds]])
  /\ UNCHANGED <<dishes, menus, created>>

\* connect: it fails if one of the dishes is gone.
Connects(ds) == ds \subseteq dishes

InsertMenu(s) ==
  LET new == requests[s].menu
      inserts == /\ created < MaxMenus
                 /\ DateIsFree(new.cook, new.date, DOMAIN menus)
                 /\ Connects(new.dishes)
  IN  /\ requests[s].phase = "creating"
      /\ \/ /\ inserts
            /\ menus' = [m \in DOMAIN menus \cup {created + 1} |->
                           IF m = created + 1 THEN new ELSE menus[m]]
            /\ created' = created + 1
         \/ ~inserts /\ UNCHANGED <<menus, created>>
      /\ To(s, Idle)
      /\ UNCHANGED dishes

-----------------------------------------------------------------------------
(* Changing and deleting a menu *)

Finds(c, m) == menus[m].cook = c

\* A date, or dishes, or both; the dishes are counted like those of a new menu.
UpdateForCook(s, c, m, date, ds) ==
  /\ requests[s] = Idle
  /\ Finds(c, m)
  /\ \A given \in ds : AllCounted(c, given)
  /\ To(s, [phase |-> "updating", id |-> m, date |-> date, dishes |-> ds])
  /\ UNCHANGED <<dishes, menus, created>>

\* Which of the dishes a `set` links: those that are there.
Linked(ds) == ds \cap dishes

\* The update by id.  It fails if the menu is gone or the date is taken, and it may
\* fail if a dish is gone.
WriteMenu(s) ==
  LET r == requests[s]
      old == menus[r.id]
      date == Given(r.date, old.date)
      ds == Linked(Given(r.dishes, old.dishes))
      writes == r.id \in DOMAIN menus /\ DateIsFree(old.cook, date, DOMAIN menus \ {r.id})
  IN  /\ r.phase = "updating"
      /\ \/ /\ writes
            /\ menus' = [menus EXCEPT ![r.id].date = date, ![r.id].dishes = ds]
         \/ /\ ~writes \/ \E given \in r.dishes : ~(given \subseteq dishes)
            /\ UNCHANGED menus
      /\ To(s, Idle)
      /\ UNCHANGED <<dishes, created>>

DeleteForCook(s, c, m) ==
  /\ requests[s] = Idle
  /\ Finds(c, m)
  /\ To(s, [phase |-> "deleting", id |-> m])
  /\ UNCHANGED <<dishes, menus, created>>

\* An error if another request has deleted the menu.
DeleteMenu(s) ==
  /\ requests[s].phase = "deleting"
  /\ menus' = [m \in DOMAIN menus \ {requests[s].id} |-> menus[m]]
  /\ To(s, Idle)
  /\ UNCHANGED <<dishes, created>>

-----------------------------------------------------------------------------
(* Dishes *)

CreateDish(d) ==
  /\ d \notin dishes
  /\ dishes' = dishes \cup {d}
  /\ UNCHANGED <<menus, created, requests>>

\* Deleting a dish deletes its links to menus (cascade).
Unlinked(d) == [m \in DOMAIN menus |-> [menus[m] EXCEPT !.dishes = @ \ {d}]]

DeleteDish(d) ==
  /\ d \in dishes
  /\ dishes' = dishes \ {d}
  /\ menus' = Unlinked(d)
  /\ UNCHANGED <<created, requests>>

\* deleteAccount deletes all menus of a cook, in its transaction.
DeleteMenus(c) ==
  /\ menus' = [m \in {n \in DOMAIN menus : menus[n].cook # c} |-> menus[m]]
  /\ UNCHANGED <<dishes, created, requests>>

Next ==
  \/ \E s \in Sessions :
        \/ \E c \in Cooks :
             \/ \E date \in Days, ds \in SUBSET Dishes : CreateForCook(s, c, date, ds)
             \/ \E m \in DOMAIN menus :
                  \/ \E date \in Optional(Days), ds \in Optional(SUBSET Dishes) :
                       UpdateForCook(s, c, m, date, ds)
                  \/ DeleteForCook(s, c, m)
        \/ InsertMenu(s) \/ WriteMenu(s) \/ DeleteMenu(s)
  \/ \E d \in Dishes : CreateDish(d) \/ DeleteDish(d)
  \/ \E c \in Cooks : DeleteMenus(c)

Spec == Init /\ [][Next]_vars

-----------------------------------------------------------------------------
(* Properties *)

\* "Menu already exists for this date": a cook has one menu for a day, however
\* menus are created and moved to other days at the same time.
OneMenuPerDay ==
  \A m, n \in DOMAIN menus :
    m # n /\ menus[m].cook = menus[n].cook => menus[m].date # menus[n].date

\* "One or more dishes are invalid or do not belong to your kitchen": a menu has
\* dishes of its own cook only, and only such as are there, although the dishes
\* are counted before the menu is written.
MenusOfOwnDishes ==
  \A m \in DOMAIN menus : menus[m].dishes \subseteq DishesOf(menus[m].cook)
=============================================================================
