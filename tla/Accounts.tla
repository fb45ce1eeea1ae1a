--------------------------------- MODULE Accounts ---------------------------------
(***************************************************************************)
(* Accounts: the User rows and their stored refresh token under requests   *)
(* that overlap.                                                           *)
(*                                                                         *)
(* Registering, logging in and refreshing read the row, check it, and only *)
(* later (after hashing) store the hash of a new refresh token; logging    *)
(* out, changing or resetting a password, deactivating and deleting an     *)
(* account clear it.  No write looks at the row again.                     *)
(***************************************************************************)
EXTENDS Integers, FiniteSets

CONSTANTS
  Phones,     \* the phone numbers people register with, normalised
  Passwords,  \* the passwords they use
  Sessions,   \* requests the server may be handling at the same time
  MaxUsers,   \* bound: rows created in a behaviour
  MaxTokens   \* bound: refresh tokens issued in a behaviour

Role == {"USER", "COOK", "ADMIN"}

Ids == 1..MaxUsers      \* the n-th row created
Released == "deleted"   \* `deleted-${userId}`: no number anyone registers with
Unknown == "unknown"    \* the hash of a random uuid: no password anyone uses
NoToken == 0            \* refreshToken is null; else the number of the token issued

Row == [phone: Phones \cup {Released}, password: Passwords \cup {Unknown}, role: Role,
        active: BOOLEAN, token: 0..MaxTokens]

Idle == [phase |-> "idle"]

\* What a request will write to the row: a patch of some of its columns.
Patch == {"logout", "activate", "deactivate", "erase"}

Request ==
  {Idle}
    \cup [phase: {"registering"}, phone: Phones, password: Passwords, role: {"USER", "COOK"}]
    \cup [phase: {"issuing"}, user: Ids, refreshes: BOOLEAN]
    \cup [phase: {"patching"}, user: Ids, patch: Patch]
    \cup [phase: {"setting password"}, user: Ids, password: Passwords]
    \cup [phase: {"setting role"}, user: Ids, role: Role]
    \cup [phase: {"creating cook"}, user: Ids]

VARIABLES
  users,      \* the User table: a function from the ids that exist
  cooks,      \* the ids that have a Cook row
  tokens,     \* how many refresh tokens have been issued
  loggedOut,  \* history: users who have logged out, and not begun to log in since
  requests,   \* requests[s]: where the handler of session s is
  overlapped  \* history: a request did something while another was under way

vars == <<users, cooks, tokens, loggedOut, requests, overlapped>>

Init ==
  /\ users = [u \in {} |-> Idle]
  /\ cooks = {}
  /\ tokens = 0
  /\ loggedOut = {}
  /\ requests = [s \in Sessions |-> Idle]
  /\ overlapped = FALSE

TypeOK ==
  /\ DOMAIN users \subseteq Ids /\ users \in [DOMAIN users -> Row]
  /\ cooks \subseteq DOMAIN users
  /\ tokens \in 0..MaxTokens
  /\ loggedOut \subseteq DOMAIN users
  /\ requests \in [Sessions -> Request]
  /\ overlapped \in BOOLEAN

To(s, r) ==
  /\ requests' = [requests EXCEPT ![s] = r]
  /\ overlapped' = (overlapped \/ \E t \in Sessions \ {s} : requests[t] # Idle)

Taken(phone) == \E u \in DOMAIN users : users[u].phone = phone

-----------------------------------------------------------------------------
(* register, login and refresh *)

Register(s, phone, password, role) ==
  /\ requests[s] = Idle
  /\ ~Taken(phone)
  /\ To(s, [phase |-> "registering", phone |-> phone, password |-> password, role |-> role])
  /\ UNCHANGED <<users, cooks, tokens, loggedOut>>

\* The unique index on User.phone.
MayInsert(phone) == ~Taken(phone)

\* user.create, with the Cook row of somebody who registers as a cook.
InsertUser(s) ==
  LET r == requests[s]
      new == Cardinality(DOMAIN users) + 1
  IN  /\ r.phase = "registering"
      /\ \/ /\ MayInsert(r.phone) /\ new \in Ids
            /\ users' = [u \in DOMAIN users \cup {new} |->
                           IF u = new
                           THEN [phone |-> r.phone, password |-> r.password, role |-> r.role,
                                 active |-> TRUE, token |-> NoToken]
                           ELSE users[u]]
            /\ cooks' = IF r.role = "COOK" THEN cooks \cup {new} ELSE cooks
            /\ To(s, [phase |-> "issuing", user |-> new, refreshes |-> FALSE])
         \/ /\ ~MayInsert(r.phone)
            /\ To(s, Idle)
            /\ UNCHANGED <<users, cooks>>
      /\ UNCHANGED <<tokens, loggedOut>>

Login(s, u, password) ==
  /\ requests[s] = Idle
  /\ users[u].phone \in Phones /\ users[u].active /\ users[u].password = password
  /\ To(s, [phase |-> "issuing", user |-> u, refreshes |-> FALSE])
  /\ loggedOut' = loggedOut \ {u}
  /\ UNCHANGED <<users, cooks, tokens>>

\* Bug variant: the stored token is not looked at.
TokenMatches_Unchecked(row) == TRUE

\* bcrypt compares the first 72 bytes of a token, which the refresh tokens of one
\* user share: a stored token is matched by each token that was issued to the user.
TokenMatches(row) == row.token # NoToken

\* The strategy reads and checks the row, the service does so again.
Refresh(s, u) ==
  /\ requests[s] = Idle
  /\ users[u].active
  /\ TokenMatches(users[u])
  /\ To(s, [phase |-> "issuing", user |-> u, refreshes |-> TRUE])
  /\ UNCHANGED <<users, cooks, tokens, loggedOut>>

\* issueTokens: the token is signed, hashed and stored.
IssueTokens(s) ==
  LET r == requests[s]
  IN  /\ r.phase = "issuing"
      /\ tokens < MaxTokens
      /\ tokens' = tokens + 1
      /\ users' = [users EXCEPT ![r.user].token = tokens + 1]
      /\ To(s, Idle)
      /\ UNCHANGED <<cooks, loggedOut>>

-----------------------------------------------------------------------------
(* Requests that read the row and then write some columns of it *)

Begins(s, u, r) ==
  /\ requests[s] = Idle
  /\ u \in DOMAIN users
  /\ To(s, r)
  /\ UNCHANGED <<users, cooks, tokens, loggedOut>>

\* The access token's strategy has found the user active.
Logout(s, u) ==
  users[u].active /\ Begins(s, u, [phase |-> "patching", user |-> u, patch |-> "logout"])

ChangePassword(s, u, current, new) ==
  /\ users[u].active /\ users[u].password = current /\ new # current
  /\ Begins(s, u, [phase |-> "setting password", user |-> u, password |-> new])

\* Of a user who is there, active or not.
ResetPasswordForCrm(s, u, new) ==
  Begins(s, u, [phase |-> "setting password", user |-> u, password |-> new])

\* An operator changes isActive or the role of somebody; not isActive of himself,
\* but operators are not told apart here.  DEACTIVATE_USER of moderation writes the
\* same.
UpdateForCrm(s, u) ==
  \/ \E patch \in {"activate", "deactivate"} :
       Begins(s, u, [phase |-> "patching", user |-> u, patch |-> patch])
  \/ \E role \in Role : Begins(s, u, [phase |-> "setting role", user |-> u, role |-> role])

\* deleteAccount, as far as it concerns the User row.
DeleteAccount(s, u) ==
  /\ users[u].active /\ users[u].role # "ADMIN"
  /\ Begins(s, u, [phase |-> "patching", user |-> u, patch |-> "erase"])

\* Bug variant: an operator's patch writes isActive and nothing else.
Patched_KeepsToken(row, patch) ==
  CASE patch = "logout" -> [row EXCEPT !.token = NoToken]
    [] patch = "activate" -> [row EXCEPT !.active = TRUE]
    [] patch = "deactivate" -> [row EXCEPT !.active = FALSE]
    [] patch = "erase" -> [row EXCEPT !.phone = Released, !.password = Unknown,
                                      !.active = FALSE, !.token = NoToken]

Patched(row, patch) ==
  CASE patch = "logout" -> [row EXCEPT !.token = NoToken]
    [] patch = "activate" -> [row EXCEPT !.active = TRUE]
    [] patch = "deactivate" -> [row EXCEPT !.active = FALSE, !.token = NoToken]
    [] patch = "erase" -> [row EXCEPT !.phone = Released, !.password = Unknown,
                                      !.active = FALSE, !.token = NoToken]

LogsIn(u) ==
  \E s \in Sessions : /\ requests[s].phase = "issuing"
                      /\ requests[s].user = u /\ ~requests[s].refreshes

WritePatch(s) ==
  LET r == requests[s]
  IN  /\ r.phase = "patching"
      /\ users' = [users EXCEPT ![r.user] = Patched(users[r.user], r.patch)]
      /\ loggedOut' = IF r.patch = "logout" /\ ~LogsIn(r.user)
                      THEN loggedOut \cup {r.user} ELSE loggedOut
      /\ To(s, Idle)
      /\ UNCHANGED <<cooks, tokens>>

WritePassword(s) ==
  LET r == requests[s]
  IN  /\ r.phase = "setting password"
      /\ users' = [users EXCEPT ![r.user].password = r.password, ![r.user].token = NoToken]
      /\ To(s, Idle)
      /\ UNCHANGED <<cooks, tokens, loggedOut>>

WriteRole(s) ==
  LET r == requests[s]
  IN  /\ r.phase = "setting role"
      /\ users' = [users EXCEPT ![r.user].role = r.role]
      /\ To(s, Idle)
      /\ UNCHANGED <<cooks, tokens, loggedOut>>

-----------------------------------------------------------------------------
(* The Cook row of somebody who was made a cook later *)

\* getCookForUser of MenusService and loadCookForUserOrCreate find no row.
CookMissing(s, u) ==
  /\ users[u].active /\ users[u].role = "COOK" /\ u \notin cooks
  /\ Begins(s, u, [phase |-> "creating cook", user |-> u])

\* cook.create; an error if the user has a row by now.
CreateCook(s) ==
  /\ requests[s].phase = "creating cook"
  /\ cooks' = cooks \cup {requests[s].user}
  /\ To(s, Idle)
  /\ UNCHANGED <<users, tokens, loggedOut>>

Next ==
  \/ \E s \in Sessions :
        \/ \E phone \in Phones, p \in Passwords, role \in {"USER", "COOK"} :
             Register(s, phone, p, role)
        \/ \E u \in DOMAIN users :
             \/ \E p \in Passwords :
                  \/ Login(s, u, p) \/ ResetPasswordForCrm(s, u, p)
                  \/ \E q \in Passwords : ChangePassword(s, u, p, q)
             \/ Refresh(s, u) \/ Logout(s, u)
             \/ UpdateForCrm(s, u) \/ DeleteAccount(s, u)
             \/ CookMissing(s, u)
        \/ InsertUser(s) \/ IssueTokens(s)
        \/ WritePatch(s) \/ WritePassword(s) \/ WriteRole(s)
        \/ CreateCook(s)

Spec == Init /\ [][Next]_vars

-----------------------------------------------------------------------------
(* Properties *)

\* As long as requests have not overlapped, an account that was deactivated or
\* deleted has no refresh token: activating it again does not bring a former login
\* back.
InactiveHasNoToken ==
  ~overlapped => \A u \in DOMAIN users : ~users[u].active => users[u].token = NoToken

\* "Invalidate refresh token", as long as requests have not overlapped: nobody who
\* has logged out has a token that refresh accepts before logging in again.
LoggedOutHasNoToken ==
  ~overlapped => \A u \in loggedOut : users[u].token = NoToken

-----------------------------------------------------------------------------
(* What keeps them: rows are numbered in the order they are made and stay, and *)
(* where requests do not overlap a token is issued to somebody active.         *)

NumberedInOrder == \E n \in 0..MaxUsers : DOMAIN users = 1..n

RowsStay ==
  \A s \in Sessions : requests[s].phase \notin {"idle", "registering"} =>
                       requests[s].user \in DOMAIN users

IssuedToActive ==
  ~overlapped => \A s \in Sessions :
    LET r == requests[s]
    IN  r.phase = "issuing" => users[r.user].active /\ r.user \notin loggedOut

TokensInv ==
  /\ TypeOK
  /\ NumberedInOrder
  /\ RowsStay
  /\ IssuedToActive
  /\ InactiveHasNoToken
  /\ LoggedOutHasNoToken
=============================================================================
