-------------------------------- MODULE Moderation --------------------------------
(***************************************************************************)
(* Moderation: ModerationService, reports on users, cooks and dishes,      *)
(* blocks between users, and the resolution of reports by operators.       *)
(*                                                                         *)
(* Reporting looks for a pending report and then creates one; blocking     *)
(* creates the block and then reports, in statements that commit on their  *)
(* own; a resolution checks the report before the transaction that applies *)
(* and records it.                                                         *)
(***************************************************************************)
EXTENDS Naturals, FiniteSets

CONSTANTS
  Users,       \* all accounts
  Cooks,       \* those that have a Cook row
  Dishes,      \* the dishes
  CookOf,      \* CookOf[d]: the cook of dish d
  Sessions,    \* requests the server may be handling at the same time
  MaxReports   \* bound: reports created in a behaviour

ASSUME ModerationAssumption ==
  /\ Cooks \subseteq Users
  /\ CookOf \in [Dishes -> Cooks]
  /\ MaxReports \in Nat

\* targetType and targetId.  A cook is named by its user, who has one Cook row.
Target ==
  [type: {"USER"}, id: Users] \cup [type: {"COOK"}, id: Cooks] \cup [type: {"DISH"}, id: Dishes]

ReportStatus == {"PENDING", "RESOLVED", "DISMISSED"}
ModerationAction == {"DEACTIVATE_USER", "HIDE_DISH", "REJECT_COOK"}
NoAction == "null"

Report == [reporter: Users, target: Target, status: ReportStatus,
           action: ModerationAction \cup {NoAction}]

Block == [blocker: Users, blocked: Users]

Ids == 1..MaxReports

Idle == [phase |-> "idle"]

Request ==
  {Idle}
    \cup [phase: {"reporting", "creating"}, reporter: Users, target: Target]
    \cup [phase: {"blocking", "blocked"}, block: Block]
    \cup [phase: {"resolving"}, report: Ids, status: {"RESOLVED", "DISMISSED"},
          action: ModerationAction \cup {NoAction}]

VARIABLES
  active,     \* accounts with User.isActive
  rejected,   \* cooks whose verificationStatus is REJECTED
  dishes,     \* dishes[d]: "offered" or "hidden" (isAvailable), or "gone"
  blocks,     \* the UserBlock table
  reports,    \* the ContentReport table, a function from the ids that exist
  applied,    \* history: <<report, action>> for each sanction that was applied
  requests,   \* requests[s]: where the handler of session s is
  overlapped, \* history: something was done while a request was under way
  cut         \* history: some request was cut short

vars == <<active, rejected, dishes, blocks, reports, applied, requests, overlapped, cut>>
content == <<active, rejected, dishes>>

Init ==
  /\ active = Users
  /\ rejected = {}
  /\ dishes = [d \in Dishes |-> "offered"]
  /\ blocks = {}
  /\ reports = [n \in {} |-> Idle]
  /\ applied = {}
  /\ requests = [s \in Sessions |-> Idle]
  /\ overlapped = FALSE /\ cut = FALSE

TypeOK ==
  /\ active \subseteq Users /\ rejected \subseteq Cooks
  /\ dishes \in [Dishes -> {"offered", "hidden", "gone"}]
  /\ blocks \subseteq Block
  /\ DOMAIN reports \subseteq Ids /\ reports \in [DOMAIN reports -> Report]
  /\ applied \subseteq Ids \X ModerationAction
  /\ requests \in [Sessions -> Request]
  /\ overlapped \in BOOLEAN /\ cut \in BOOLEAN

\* A step, beside what the sessions of S are doing.
Beside(S) == overlapped' = (overlapped \/ \E t \in S : requests[t] # Idle)

Moves(s, r) == requests' = [requests EXCEPT ![s] = r] /\ Beside(Sessions \ {s})

To(s, r) == Moves(s, r) /\ UNCHANGED cut

\* A request that is one step here.
OneStep == UNCHANGED <<requests, cut>> /\ Beside(Sessions)

-----------------------------------------------------------------------------
(* Reports *)

\* targetUserId.
TargetUser(t) == IF t.type = "DISH" THEN CookOf[t.id] ELSE t.id

\* resolveTargetUserId finds the target: a user must be active, a dish be there.
Resolves(t) ==
  CASE t.type = "USER" -> t.id \in active
    [] t.type = "COOK" -> TRUE
    [] t.type = "DISH" -> dishes[t.id] # "gone"

CreateReport(s, u, t) ==
  /\ requests[s] = Idle
  /\ u \in active
  /\ Resolves(t) /\ TargetUser(t) # u
  /\ To(s, [phase |-> "reporting", reporter |-> u, target |-> t])
  /\ UNCHANGED <<content, blocks, reports, applied>>

ReportsBy(u, t) == {n \in DOMAIN reports : reports[n].reporter = u /\ reports[n].target = t}
Pending(u, t) == {n \in ReportsBy(u, t) : reports[n].status = "PENDING"}

\* Bug variant: a report is created each time.
Existing_Never(r) == {}

\* The findFirst: a pending report of the same reporter on the same target.
Existing(r) == Pending(r.reporter, r.target)

FindPending(s) ==
  LET r == requests[s]
  IN  /\ r.phase = "reporting"
      /\ IF Existing(r) # {} THEN To(s, Idle) ELSE To(s, [r EXCEPT !.phase = "creating"])
      /\ UNCHANGED <<content, blocks, reports, applied>>

InsertReport(s) ==
  LET r == requests[s]
      new == Cardinality(DOMAIN reports) + 1
  IN  /\ r.phase = "creating"
      /\ new \in Ids
      /\ reports' = [n \in DOMAIN reports \cup {new} |->
                       IF n = new
                       THEN [reporter |-> r.reporter, target |-> r.target,
                             status |-> "PENDING", action |-> NoAction]
                       ELSE reports[n]]
      /\ To(s, Idle)
      /\ UNCHANGED <<content, blocks, applied>>

-----------------------------------------------------------------------------
(* Blocks *)

\* Bug variant: the blocked user is not looked for.
BlockUser_AnyUser(s, u, v) ==
  /\ requests[s] = Idle
  /\ u \in active /\ u # v
  /\ To(s, [phase |-> "blocking", block |-> [blocker |-> u, blocked |-> v]])
  /\ UNCHANGED <<content, blocks, reports, applied>>

\* By blockedUserId or by cookId.
BlockUser(s, u, v) ==
  /\ requests[s] = Idle
  /\ u \in active /\ v \in active /\ u # v
  /\ To(s, [phase |-> "blocking", block |-> [blocker |-> u, blocked |-> v]])
  /\ UNCHANGED <<content, blocks, reports, applied>>

\* "User is already blocked" if the pair is there: it is unique.
InsertBlock(s) ==
  LET r == requests[s]
  IN  /\ r.phase = "blocking"
      /\ IF r.block \in blocks THEN To(s, Idle) ELSE To(s, [r EXCEPT !.phase = "blocked"])
      /\ blocks' = blocks \cup {r.block}
      /\ UNCHANGED <<content, reports, applied>>

\* What the report of a block is about.
BlockTarget(v) == [type |-> IF v \in Cooks THEN "COOK" ELSE "USER", id |-> v]

\* The block is there; createReport is called, which may find the user inactive.
ReportBlocked(s) ==
  LET block == requests[s].block
      t == BlockTarget(block.blocked)
  IN  /\ requests[s].phase = "blocked"
      /\ IF Resolves(t)
         THEN To(s, [phase |-> "reporting", reporter |-> block.blocker, target |-> t])
         ELSE To(s, Idle)
      /\ UNCHANGED <<content, blocks, reports, applied>>

\* Deletes what matches; not found if nothing does.
UnblockUser(u, v) ==
  /\ u \in active
  /\ blocks' = blocks \ {[blocker |-> u, blocked |-> v]}
  /\ OneStep /\ UNCHANGED <<content, reports, applied>>

-----------------------------------------------------------------------------
(* Resolving a report *)

\* Bug variant: any report may be resolved again.
MayResolve_Again(n) == TRUE

MayResolve(n) == reports[n].status = "PENDING"

ResolveReport(s, n, status, action) ==
  /\ requests[s] = Idle
  /\ MayResolve(n)
  /\ To(s, [phase |-> "resolving", report |-> n, status |-> status, action |-> action])
  /\ UNCHANGED <<content, blocks, reports, applied>>

\* The actions that applyModerationAction can take on a report about t.
Applicable(t) ==
  {"DEACTIVATE_USER"}
    \cup (IF t.type = "DISH" /\ dishes[t.id] # "gone" THEN {"HIDE_DISH"} ELSE {})
    \cup (IF TargetUser(t) \in Cooks THEN {"REJECT_COOK"} ELSE {})

\* applyModerationAction: one change of the content, none without an action.
Apply(t, action) ==
  /\ active' = IF action = "DEACTIVATE_USER" THEN active \ {TargetUser(t)} ELSE active
  /\ dishes' = IF action = "HIDE_DISH" THEN [dishes EXCEPT ![t.id] = "hidden"] ELSE dishes
  /\ rejected' = IF action = "REJECT_COOK" THEN rejected \cup {TargetUser(t)} ELSE rejected

\* A dismissal records the action it was given, and does not take it.
Takes(r) == IF r.status = "RESOLVED" THEN r.action ELSE NoAction

\* Bug variant: the report is resolved whether or not the action could be taken.
Refused_Recorded(r) == reports' = [reports EXCEPT ![r.report].status = r.status,
                                                  ![r.report].action = r.action]

\* An action that cannot be taken rolls the transaction back.
Refused(r) == UNCHANGED reports

\* The transaction: it applies and records.
CommitResolution(s) ==
  LET r == requests[s]
      t == reports[r.report].target
  IN  /\ r.phase = "resolving"
      /\ \/ /\ Takes(r) \in Applicable(t) \cup {NoAction}
            /\ Apply(t, Takes(r))
            /\ reports' = [reports EXCEPT ![r.report].status = r.status,
                                          ![r.report].action = r.action]
            /\ applied' = applied \cup ({<<r.report, Takes(r)>>} \cap (Ids \X ModerationAction))
         \/ /\ Takes(r) \notin Applicable(t) \cup {NoAction}
            /\ Refused(r)
            /\ UNCHANGED <<content, applied>>
      /\ To(s, Idle)
      /\ UNCHANGED blocks

-----------------------------------------------------------------------------
(* Surroundings *)

\* A cook offers, hides or deletes a dish; a dish that was deleted stays so.
CookChangesDish(d) ==
  /\ dishes[d] # "gone"
  /\ \E to \in {"offered", "hidden", "gone"} : dishes' = [dishes EXCEPT ![d] = to]
  /\ OneStep /\ UNCHANGED <<active, rejected, blocks, reports, applied>>

\* An operator deactivates or activates an account, or a user deletes it.
AccountTurns(u) ==
  /\ active' = IF u \in active THEN active \ {u} ELSE active \cup {u}
  /\ OneStep /\ UNCHANGED <<rejected, dishes, blocks, reports, applied>>

\* A cook hands in papers again after a rejection.
CookResubmits(c) ==
  /\ c \in rejected /\ c \in active
  /\ rejected' = rejected \ {c}
  /\ OneStep /\ UNCHANGED <<active, dishes, blocks, reports, applied>>

\* The process ends between two statements of a request.
Fail(s) ==
  /\ requests[s] # Idle
  /\ Moves(s, Idle) /\ cut' = TRUE
  /\ UNCHANGED <<content, blocks, reports, applied>>

Next ==
  \/ \E s \in Sessions :
        \/ \E u \in Users : \/ \E t \in Target : CreateReport(s, u, t)
                            \/ \E v \in Users : BlockUser(s, u, v)
        \/ FindPending(s) \/ InsertReport(s)
        \/ InsertBlock(s) \/ ReportBlocked(s)
        \/ \E n \in DOMAIN reports, status \in {"RESOLVED", "DISMISSED"},
              action \in ModerationAction \cup {NoAction} :
             ResolveReport(s, n, status, action)
        \/ CommitResolution(s)
        \/ Fail(s)
  \/ \E u, v \in Users : UnblockUser(u, v)
  \/ \E d \in Dishes : CookChangesDish(d)
  \/ \E u \in Users : AccountTurns(u)
  \/ \E c \in Cooks : CookResubmits(c)

Spec == Init /\ [][Next]_vars

-----------------------------------------------------------------------------
(* Properties *)

\* Whatever overlaps and is cut short, a report that was resolved with an action
\* tells the truth: the action was taken.
RecordsAreTrue ==
  \A n \in DOMAIN reports :
    reports[n].status = "RESOLVED" /\ reports[n].action # NoAction
      => <<n, reports[n].action>> \in applied

\* As long as requests have not overlapped, no sanction goes unrecorded: its report
\* is resolved and names it, also when a request was cut short.
SanctionsOnRecord ==
  ~overlapped =>
    \A a \in applied : reports[a[1]].status = "RESOLVED" /\ reports[a[1]].action = a[2]

\* As long as requests have not overlapped, somebody has at most one pending report
\* on a target, also when blocks add reports of their own.
OnePendingReport ==
  ~overlapped => \A u \in Users, t \in Target : Cardinality(Pending(u, t)) <= 1

\* A request for the pair is still going on.
Notifying(u, v) ==
  \E s \in Sessions :
    \/ requests[s].phase = "blocked" /\ requests[s].block = [blocker |-> u, blocked |-> v]
    \/ /\ requests[s].phase \in {"reporting", "creating"}
       /\ requests[s].reporter = u /\ requests[s].target = BlockTarget(v)

Notified == \A b \in blocks : Notifying(b.blocker, b.blocked)
                                \/ ReportsBy(b.blocker, BlockTarget(b.blocked)) # {}

\* "Hides the user from your feed immediately and notifies the developer via an
\* auto-generated report": as long as requests have not overlapped and none was cut
\* short, every block comes with its report.
BlocksAreReported == ~overlapped /\ ~cut => Notified
=============================================================================
