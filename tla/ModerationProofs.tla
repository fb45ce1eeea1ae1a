------------------------------ MODULE ModerationProofs ------------------------------
(***************************************************************************)
(* Theorems about Moderation: for any number of accounts, dishes, reports  *)
(* and requests in flight, what a resolved report records was done; and,   *)
(* until requests overlap, no sanction goes unrecorded, a target has one   *)
(* pending report of a user, and blocks are reported.                      *)
(***************************************************************************)
EXTENDS Moderation, FiniteSetTheorems, TLAPS

(***************************************************************************)
(* The inductive invariant                                                 *)
(***************************************************************************)

\* Reports are numbered as they are made and never deleted.
Numbered == \E k \in Nat : DOMAIN reports = 1..k

\* Resolutions and sanctions are of reports that are there.
OfReports ==
  /\ \A s \in Sessions : requests[s].phase = "resolving" => requests[s].report \in DOMAIN reports
  /\ \A a \in applied : a[1] \in DOMAIN reports

\* Until requests overlap, what one has checked still holds when it writes.
ChecksHold ==
  \A s \in Sessions :
    LET r == requests[s]
    IN  /\ r.phase = "resolving" => reports[r.report].status = "PENDING"
        /\ r.phase = "creating" => Pending(r.reporter, r.target) = {}
        /\ r.phase \in {"blocking", "blocked"} => r.block.blocked \in active

PendingOnce ==
  \A m, n \in DOMAIN reports :
    /\ reports[m].status = "PENDING" /\ reports[n].status = "PENDING"
    /\ reports[m].reporter = reports[n].reporter /\ reports[m].target = reports[n].target
    => m = n

Sanctioned ==
  \A a \in applied : reports[a[1]].status = "RESOLVED" /\ reports[a[1]].action = a[2]

IInv ==
  /\ TypeOK
  /\ Numbered
  /\ OfReports
  /\ RecordsAreTrue
  /\ ~overlapped => /\ ChecksHold
                    /\ PendingOnce
                    /\ Sanctioned
                    /\ ~cut => Notified

(***************************************************************************)
(* Type correctness                                                        *)
(***************************************************************************)

LEMMA RequestShapes ==
  ASSUME NEW r \in Request
  PROVE  /\ r.phase \in {"idle", "reporting", "creating", "blocking", "blocked", "resolving"}
         /\ r.phase \in {"reporting", "creating"} => r.reporter \in Users /\ r.target \in Target
         /\ r.phase \in {"blocking", "blocked"} => r.block \in Block
         /\ r.phase = "resolving" => /\ r.report \in Ids
                                     /\ r.status \in {"RESOLVED", "DISMISSED"}
                                     /\ r.action \in ModerationAction \cup {NoAction}
<1>1. CASE r = Idle
  BY <1>1 DEF Idle
<1>2. CASE r \in [phase: {"reporting", "creating"}, reporter: Users, target: Target]
  BY <1>2
<1>3. CASE r \in [phase: {"blocking", "blocked"}, block: Block]
  BY <1>3
<1>4. CASE r \in [phase: {"resolving"}, report: Ids, status: {"RESOLVED", "DISMISSED"},
                  action: ModerationAction \cup {NoAction}]
  BY <1>4
<1> QED
  BY <1>1, <1>2, <1>3, <1>4 DEF Request

LEMMA IdleIsRequest == Idle \in Request /\ Idle.phase = "idle"
  BY DEF Request, Idle

LEMMA SessionMoves ==
  ASSUME TypeOK, NEW s \in Sessions, NEW r \in Request, Moves(s, r)
  PROVE  /\ requests' \in [Sessions -> Request]
         /\ requests'[s] = r
         /\ \A t \in Sessions : t # s => requests'[t] = requests[t]
  BY DEF TypeOK, Moves

\* A step of session s after which requests have not overlapped finds the others idle.
LEMMA Alone ==
  ASSUME TypeOK, NEW s \in Sessions, NEW r, Moves(s, r)
  PROVE  /\ overlapped' \in BOOLEAN
         /\ ~overlapped' => /\ ~overlapped
                            /\ \A t \in Sessions : t # s => requests[t] = Idle
<1>1. overlapped' = (overlapped \/ \E t \in Sessions \ {s} : requests[t] # Idle)
  BY DEF Moves, Beside
<1> QED
  BY <1>1

\* The target's user is an account, a cook's if the target is a dish.
LEMMA TargetUserType ==
  ASSUME NEW t \in Target
  PROVE  /\ TargetUser(t) \in Users
         /\ t.type = "DISH" => t.id \in Dishes
         /\ t.type \in {"USER", "COOK", "DISH"}
  BY ModerationAssumption DEF Target, TargetUser

LEMMA BlockTargetType ==
  ASSUME NEW v \in Users
  PROVE  /\ BlockTarget(v) \in Target
         /\ v \in active => Resolves(BlockTarget(v))
<1>1. CASE v \in Cooks
  BY <1>1 DEF BlockTarget, Target, Resolves
<1>2. CASE v \notin Cooks
  BY <1>2 DEF BlockTarget, Target, Resolves
<1> QED
  BY <1>1, <1>2

LEMMA ToIdle ==
  ASSUME TypeOK, NEW s \in Sessions, Moves(s, Idle)
  PROVE  /\ requests' \in [Sessions -> Request]
         /\ requests'[s].phase = "idle"
         /\ \A t \in Sessions : t # s => requests'[t] = requests[t]
  BY IdleIsRequest, SessionMoves

\* A request that is under way moves on or ends.
LEMMA NextPhases ==
  ASSUME TypeOK, NEW s \in Sessions
  PROVE  LET r == requests[s]
         IN  /\ r \in Request
             /\ r.phase = "reporting" => [r EXCEPT !.phase = "creating"] \in Request
             /\ r.phase = "blocking" => [r EXCEPT !.phase = "blocked"] \in Request
<1> DEFINE r == requests[s]
<1>1. r \in Request
  BY DEF TypeOK
<1>2. CASE r.phase = "reporting"
  <2>1. r \in [phase: {"reporting", "creating"}, reporter: Users, target: Target]
    BY <1>1, <1>2 DEF Request, Idle
  <2> QED
    BY <1>1, <1>2, <2>1 DEF Request
<1>3. CASE r.phase = "blocking"
  <2>1. r \in [phase: {"blocking", "blocked"}, block: Block]
    BY <1>1, <1>3 DEF Request, Idle
  <2> QED
    BY <1>1, <1>3, <2>1 DEF Request
<1> QED
  BY <1>1, <1>2, <1>3

LEMMA ApplyType ==
  ASSUME TypeOK, NEW t \in Target, NEW action, Apply(t, action),
         action \in Applicable(t) \cup {NoAction}
  PROVE  /\ active' \subseteq Users /\ rejected' \subseteq Cooks
         /\ dishes' \in [Dishes -> {"offered", "hidden", "gone"}]
<1>1. active' \subseteq Users
  BY DEF Apply, TypeOK
<1>2. action = "REJECT_COOK" => TargetUser(t) \in Cooks
  BY DEF Applicable, NoAction
<1>3. rejected' \subseteq Cooks
  BY <1>2 DEF Apply, TypeOK
<1>4. dishes' \in [Dishes -> {"offered", "hidden", "gone"}]
  BY DEF Apply, TypeOK
<1> QED
  BY <1>1, <1>3, <1>4

\* A number for the next report that no report has.
LEMMA NextNumber ==
  ASSUME Numbered
  PROVE  \E k \in Nat : DOMAIN reports = 1..k /\ Cardinality(DOMAIN reports) + 1 = k + 1
<1>1. PICK k \in Nat : DOMAIN reports = 1..k
  BY DEF Numbered
<1>2. Cardinality(1..k) = k
  BY <1>1, FS_Interval
<1> QED
  BY <1>1, <1>2

(***************************************************************************)
(* The steps                                                               *)
(***************************************************************************)

\* A request starts, moves on or ends, and the tables stay as they are.
LEMMA RequestMoves ==
  ASSUME IInv, NEW s \in Sessions, NEW r \in Request, Moves(s, r), cut' \in BOOLEAN,
         UNCHANGED <<content, blocks, reports, applied>>,
         r.phase = "resolving" => r.report \in DOMAIN reports
                                    /\ reports[r.report].status = "PENDING",
         r.phase = "creating" => Pending(r.reporter, r.target) = {},
         r.phase \in {"blocking", "blocked"} => r.block.blocked \in active,
         ~overlapped' /\ ~cut' => Notified'
  PROVE  IInv'
<1>1. /\ requests' \in [Sessions -> Request] /\ requests'[s] = r
      /\ \A t \in Sessions : t # s => requests'[t] = requests[t]
  BY SessionMoves DEF IInv
<1>2. TypeOK'
  BY <1>1, Alone DEF IInv, TypeOK, content
<1>3. Numbered' /\ RecordsAreTrue'
  BY DEF IInv, Numbered, RecordsAreTrue
<1>4. OfReports'
  BY <1>1 DEF IInv, OfReports
<1>5. ASSUME ~overlapped'
      PROVE  ChecksHold' /\ PendingOnce' /\ Sanctioned'
  <2>1. ~overlapped /\ \A t \in Sessions : t # s => requests[t] = Idle
    BY <1>5, Alone DEF IInv
  <2>2. ChecksHold'
    BY <1>1, <2>1, IdleIsRequest DEF ChecksHold, content, Pending, ReportsBy
  <2>3. PendingOnce' /\ Sanctioned'
    BY <2>1 DEF IInv, PendingOnce, Sanctioned
  <2> QED
    BY <2>2, <2>3
<1> QED
  BY <1>2, <1>3, <1>4, <1>5 DEF IInv

\* Request r will tell that u has blocked v.
Notifies(r, u, v) ==
  \/ r.phase = "blocked" /\ r.block = [blocker |-> u, blocked |-> v]
  \/ r.phase \in {"reporting", "creating"} /\ r.reporter = u /\ r.target = BlockTarget(v)

\* What the request of s would have told, its successor tells or a report says.
LEMMA NoticeHandedOn ==
  ASSUME TypeOK, ~overlapped', Notified, NEW s \in Sessions, NEW r \in Request, Moves(s, r),
         UNCHANGED <<blocks, reports>>,
         \A u, v \in Users : Notifies(requests[s], u, v) =>
           Notifies(r, u, v) \/ ReportsBy(u, BlockTarget(v)) # {}
  PROVE  Notified'
<1>1. requests'[s] = r /\ \A t \in Sessions : t # s => requests[t] = Idle
  BY SessionMoves, Alone
<1>2. \A b \in blocks : b.blocker \in Users /\ b.blocked \in Users
  BY DEF TypeOK, Block
<1>3. ASSUME NEW b \in blocks
      PROVE  \/ Notifying(b.blocker, b.blocked)'
             \/ ReportsBy(b.blocker, BlockTarget(b.blocked))' # {}
  <2>1. CASE ReportsBy(b.blocker, BlockTarget(b.blocked)) # {}
    BY <2>1 DEF ReportsBy
  <2>2. CASE Notifying(b.blocker, b.blocked)
    <3>1. Notifies(requests[s], b.blocker, b.blocked)
      BY <1>1, <2>2, IdleIsRequest DEF Notifying, Notifies
    <3>2. Notifies(r, b.blocker, b.blocked) \/ ReportsBy(b.blocker, BlockTarget(b.blocked)) # {}
      BY <1>2, <3>1
    <3>3. Notifies(r, b.blocker, b.blocked) => Notifying(b.blocker, b.blocked)'
      BY <1>1 DEF Notifying, Notifies
    <3> QED
      BY <2>1, <3>2, <3>3
  <2> QED
    BY <2>1, <2>2 DEF Notified
<1> QED
  BY <1>3 DEF Notified

LEMMA IdleTellsNothing ==
  ASSUME NEW s \in Sessions, requests[s] = Idle
  PROVE  \A u, v \in Users : ~Notifies(requests[s], u, v)
  BY DEF Notifies, Idle

\* A request that is accepted.
LEMMA StartKeepsIInv ==
  ASSUME IInv, NEW s \in Sessions, requests[s] = Idle, NEW r \in Request, To(s, r),
         UNCHANGED <<content, blocks, reports, applied>>,
         r.phase # "creating",
         r.phase = "resolving" => r.report \in DOMAIN reports
                                    /\ reports[r.report].status = "PENDING",
         r.phase \in {"blocking", "blocked"} => r.block.blocked \in active
  PROVE  IInv'
<1>1. TypeOK /\ Moves(s, r) /\ cut' = cut
  BY DEF IInv, To
<1>2. ASSUME ~overlapped', ~cut
      PROVE  Notified'
  BY <1>1, <1>2, Alone, IdleTellsNothing, NoticeHandedOn DEF IInv
<1> QED
  BY <1>1, <1>2, RequestMoves DEF TypeOK

LEMMA FindPendingKeepsIInv ==
  ASSUME IInv, NEW s \in Sessions, FindPending(s)
  PROVE  IInv'
<1> DEFINE r == requests[s]
           next == IF Existing(r) # {} THEN Idle ELSE [r EXCEPT !.phase = "creating"]
<1>1. /\ TypeOK /\ r \in Request /\ r.phase = "reporting"
      /\ UNCHANGED <<content, blocks, reports, applied>>
  BY DEF IInv, TypeOK, FindPending
<1>2. Moves(s, next) /\ cut' = cut /\ next \in Request
  BY <1>1, IdleIsRequest, NextPhases DEF FindPending, To
<1>3. /\ Existing(r) # {} => next.phase = "idle"
      /\ Existing(r) = {} => /\ next.phase = "creating"
                             /\ next.reporter = r.reporter /\ next.target = r.target
  <2>1. CASE Existing(r) # {}
    BY <2>1, IdleIsRequest
  <2>2. CASE Existing(r) = {}
    <3>1. r \in [phase: {"reporting", "creating"}, reporter: Users, target: Target]
      BY <1>1 DEF Request, Idle
    <3> QED
      BY <2>2, <3>1
  <2> QED
    BY <2>1, <2>2
<1> HIDE DEF next
<1>4. next.phase = "creating" => Pending(next.reporter, next.target) = {}
  BY <1>3 DEF Existing
<1>5. ASSUME ~overlapped', ~cut
      PROVE  Notified'
  <2>1. ASSUME NEW u \in Users, NEW v \in Users, Notifies(r, u, v)
        PROVE  Notifies(next, u, v) \/ ReportsBy(u, BlockTarget(v)) # {}
    <3>1. r.reporter = u /\ r.target = BlockTarget(v)
      BY <1>1, <2>1 DEF Notifies
    <3>2. Existing(r) # {} => ReportsBy(u, BlockTarget(v)) # {}
      BY <3>1 DEF Existing, Pending
    <3>3. Existing(r) = {} => Notifies(next, u, v)
      BY <1>3, <3>1 DEF Notifies
    <3> QED
      BY <3>2, <3>3
  <2> QED
    BY <1>1, <1>2, <1>5, <2>1, Alone, NoticeHandedOn DEF IInv
<1>6. next.phase \in {"idle", "creating"}
  BY <1>3
<1> QED
  BY <1>1, <1>2, <1>4, <1>5, <1>6, RequestMoves DEF TypeOK

LEMMA ReportBlockedKeepsIInv ==
  ASSUME IInv, NEW s \in Sessions, ReportBlocked(s)
  PROVE  IInv'
<1> DEFINE r == requests[s]
           block == r.block
           t == BlockTarget(block.blocked)
           next == IF Resolves(t) THEN [phase |-> "reporting", reporter |-> block.blocker, target |-> t]
                   ELSE Idle
<1>1. /\ TypeOK /\ r \in Request /\ r.phase = "blocked"
      /\ UNCHANGED <<content, blocks, reports, applied>>
  BY DEF IInv, TypeOK, ReportBlocked
<1>2. block.blocker \in Users /\ block.blocked \in Users
  BY <1>1, RequestShapes DEF Block
<1>3. t \in Target /\ (block.blocked \in active => Resolves(t))
  BY <1>2, BlockTargetType
<1>4. /\ Moves(s, next) /\ cut' = cut
      /\ next \in Request /\ next.phase \in {"idle", "reporting"}
  BY <1>1, <1>2, <1>3, IdleIsRequest DEF ReportBlocked, Request, To
<1>5. ASSUME ~overlapped', ~cut
      PROVE  Notified'
  <2>1. Resolves(t)
    BY <1>1, <1>3, <1>4, <1>5, Alone DEF IInv, ChecksHold
  <2>2. ASSUME NEW u \in Users, NEW v \in Users, Notifies(r, u, v)
        PROVE  Notifies(next, u, v)
    BY <1>1, <2>1, <2>2 DEF Notifies
  <2> QED
    BY <1>1, <1>4, <1>5, <2>2, Alone, NoticeHandedOn DEF IInv
<1> HIDE DEF next
<1> QED
  BY <1>1, <1>4, <1>5, RequestMoves DEF TypeOK

LEMMA InsertReportKeepsIInv ==
  ASSUME IInv, NEW s \in Sessions, InsertReport(s)
  PROVE  IInv'
<1> DEFINE r == requests[s]
           row == [reporter |-> r.reporter, target |-> r.target,
                   status |-> "PENDING", action |-> NoAction]
<1>1. /\ TypeOK /\ r \in Request /\ r.phase = "creating" /\ Moves(s, Idle)
      /\ UNCHANGED <<content, blocks, applied, cut>>
  BY DEF IInv, TypeOK, InsertReport, To
<1>2. row \in Report
  BY <1>1, RequestShapes DEF Report, ReportStatus
<1>3. PICK k \in Nat : DOMAIN reports = 1..k /\ Cardinality(DOMAIN reports) + 1 = k + 1
  BY NextNumber DEF IInv
<1> DEFINE new == k + 1
<1>4. /\ new \in Ids
      /\ reports' = [n \in DOMAIN reports \cup {new} |-> IF n = new THEN row ELSE reports[n]]
  BY <1>3 DEF InsertReport
<1>5. new \notin DOMAIN reports /\ DOMAIN reports \cup {new} = 1..new /\ new \in Nat
  BY <1>3
<1> HIDE DEF new, row
<1>6. /\ DOMAIN reports' = DOMAIN reports \cup {new} /\ reports'[new] = row
      /\ \A n \in DOMAIN reports : reports'[n] = reports[n] /\ n # new
  BY <1>4, <1>5
<1>7. /\ requests' \in [Sessions -> Request] /\ requests'[s].phase = "idle"
      /\ \A t \in Sessions : t # s => requests'[t] = requests[t]
  BY <1>1, ToIdle
<1>8. TypeOK'
  <2>1. DOMAIN reports' \subseteq Ids /\ reports' \in [DOMAIN reports' -> Report]
    BY <1>1, <1>2, <1>4, <1>6 DEF TypeOK
  <2> QED
    BY <1>1, <1>7, <2>1, Alone DEF TypeOK, content
<1>9. Numbered'
  BY <1>5, <1>6 DEF Numbered
<1>10. OfReports'
  BY <1>1, <1>6, <1>7 DEF IInv, OfReports
<1>11. row.status = "PENDING" /\ row.reporter = r.reporter /\ row.target = r.target
  BY DEF row
<1>12. RecordsAreTrue'
  BY <1>1, <1>6, <1>11 DEF IInv, RecordsAreTrue
<1>13. ASSUME ~overlapped'
       PROVE  /\ ChecksHold' /\ PendingOnce' /\ Sanctioned'
              /\ ~cut' => Notified'
  <2>1. ~overlapped /\ \A t \in Sessions : t # s => requests[t] = Idle
    BY <1>1, <1>13, Alone
  <2>2. ChecksHold'
    BY <1>7, <2>1, IdleIsRequest DEF ChecksHold
  <2>3. Pending(r.reporter, r.target) = {}
    BY <1>1, <2>1 DEF IInv, ChecksHold
  <2>4. PendingOnce'
    <3>1. \A n \in DOMAIN reports :
            ~(/\ reports[n].status = "PENDING"
              /\ reports[n].reporter = r.reporter /\ reports[n].target = r.target)
      BY <2>3 DEF Pending, ReportsBy
    <3> QED
      BY <1>6, <1>11, <2>1, <3>1 DEF IInv, PendingOnce
  <2>5. Sanctioned'
    BY <1>1, <1>6, <2>1 DEF IInv, Sanctioned, OfReports
  <2>6. ASSUME ~cut PROVE Notified'
    <3> SUFFICES ASSUME NEW b \in blocks
                 PROVE  ReportsBy(b.blocker, BlockTarget(b.blocked))' # {}
      BY <1>1 DEF Notified
    <3>1. CASE ReportsBy(b.blocker, BlockTarget(b.blocked)) # {}
      BY <1>6, <3>1 DEF ReportsBy
    <3>2. CASE Notifying(b.blocker, b.blocked)
      <4>1. r.reporter = b.blocker /\ r.target = BlockTarget(b.blocked)
        BY <1>1, <2>1, <3>2, IdleIsRequest DEF Notifying
      <4> QED
        BY <1>6, <1>11, <4>1 DEF ReportsBy
    <3> QED
      BY <2>1, <2>6, <3>1, <3>2 DEF IInv, Notified
  <2> QED
    BY <1>1, <2>2, <2>4, <2>5, <2>6
<1> QED
  BY <1>8, <1>9, <1>10, <1>12, <1>13 DEF IInv

LEMMA InsertBlockKeepsIInv ==
  ASSUME IInv, NEW s \in Sessions, InsertBlock(s)
  PROVE  IInv'
<1> DEFINE r == requests[s]
           next == IF r.block \in blocks THEN Idle ELSE [r EXCEPT !.phase = "blocked"]
<1>1. /\ TypeOK /\ r \in Request /\ r.phase = "blocking"
      /\ blocks' = blocks \cup {r.block}
      /\ UNCHANGED <<content, reports, applied, cut>>
  BY DEF IInv, TypeOK, InsertBlock, To
<1>2. r.block \in Block
  BY <1>1, RequestShapes
<1>3. Moves(s, next) /\ next \in Request
  BY <1>1, IdleIsRequest, NextPhases DEF InsertBlock, To
<1>4. /\ r.block \in blocks => next.phase = "idle"
      /\ r.block \notin blocks => next.phase = "blocked" /\ next.block = r.block
  <2>1. CASE r.block \in blocks
    BY <2>1, IdleIsRequest
  <2>2. CASE r.block \notin blocks
    <3>1. r \in [phase: {"blocking", "blocked"}, block: Block]
      BY <1>1 DEF Request, Idle
    <3> QED
      BY <2>2, <3>1
  <2> QED
    BY <2>1, <2>2
<1> HIDE DEF next
<1>5. /\ requests' \in [Sessions -> Request] /\ requests'[s] = next
      /\ \A t \in Sessions : t # s => requests'[t] = requests[t]
  BY <1>1, <1>3, SessionMoves
<1>6. TypeOK'
  BY <1>1, <1>2, <1>3, <1>5, Alone DEF TypeOK, content
<1>7. Numbered' /\ RecordsAreTrue'
  BY <1>1 DEF IInv, Numbered, RecordsAreTrue
<1>8. OfReports'
  BY <1>1, <1>4, <1>5 DEF IInv, OfReports
<1>9. ASSUME ~overlapped'
      PROVE  /\ ChecksHold' /\ PendingOnce' /\ Sanctioned'
             /\ ~cut' => Notified'
  <2>1. ~overlapped /\ \A t \in Sessions : t # s => requests[t] = Idle
    BY <1>1, <1>3, <1>9, Alone
  <2>2. r.block.blocked \in active
    BY <1>1, <2>1 DEF IInv, ChecksHold
  <2>3. ChecksHold'
    BY <1>1, <1>4, <1>5, <2>1, <2>2, IdleIsRequest DEF ChecksHold, content
  <2>4. PendingOnce' /\ Sanctioned'
    BY <1>1, <2>1 DEF IInv, PendingOnce, Sanctioned
  <2>5. ASSUME ~cut PROVE Notified'
    <3>1. ASSUME NEW b \in blocks
          PROVE  ReportsBy(b.blocker, BlockTarget(b.blocked))' # {}
      <4>1. ~Notifying(b.blocker, b.blocked)
        BY <1>1, <2>1, IdleIsRequest DEF Notifying
      <4>2. ReportsBy(b.blocker, BlockTarget(b.blocked)) # {}
        BY <2>1, <2>5, <4>1 DEF IInv, Notified
      <4> QED
        BY <1>1, <4>2 DEF ReportsBy
    <3>2. \A b \in Block : b = r.block /\ b \notin blocks => Notifying(b.blocker, b.blocked)'
      BY <1>2, <1>4, <1>5 DEF Notifying, Block
    <3>3. ASSUME NEW b \in blocks'
          PROVE  \/ Notifying(b.blocker, b.blocked)'
                 \/ ReportsBy(b.blocker, BlockTarget(b.blocked))' # {}
      <4>1. b \in blocks \/ (b = r.block /\ r.block \notin blocks)
        BY <1>1
      <4>2. CASE b \in blocks
        BY <3>1, <4>2
      <4>3. CASE b = r.block /\ r.block \notin blocks
        BY <1>2, <3>2, <4>3
      <4> QED
        BY <4>1, <4>2, <4>3
    <3> QED
      BY <3>3 DEF Notified
  <2> QED
    BY <1>1, <2>3, <2>4, <2>5
<1> QED
  BY <1>6, <1>7, <1>8, <1>9 DEF IInv

LEMMA CommitKeepsIInv ==
  ASSUME IInv, NEW s \in Sessions, CommitResolution(s)
  PROVE  IInv'
<1> DEFINE r == requests[s]
           n == r.report
           t == reports[n].target
<1>1. /\ TypeOK /\ r \in Request /\ r.phase = "resolving"
      /\ Moves(s, Idle) /\ UNCHANGED <<blocks, cut>>
  BY DEF IInv, TypeOK, CommitResolution, To
<1>2. n \in DOMAIN reports /\ reports[n] \in Report /\ t \in Target
  BY <1>1 DEF IInv, OfReports, TypeOK, Report
<1>3. r.status \in {"RESOLVED", "DISMISSED"} /\ r.action \in ModerationAction \cup {NoAction}
  BY <1>1, RequestShapes
<1>4. CASE UNCHANGED <<content, reports, applied>>
  <2>1. ASSUME ~overlapped', ~cut
        PROVE  Notified'
    <3>1. \A u, v \in Users : ~Notifies(r, u, v)
      BY <1>1 DEF Notifies
    <3> QED
      BY <1>1, <1>4, <2>1, <3>1, Alone, IdleIsRequest, NoticeHandedOn DEF IInv
  <2> QED
    BY <1>1, <1>4, <2>1, IdleIsRequest, RequestMoves DEF TypeOK
<1>5. ASSUME Takes(r) \in Applicable(t) \cup {NoAction},
             Apply(t, Takes(r)),
             reports' = [reports EXCEPT ![n].status = r.status, ![n].action = r.action],
             applied' = applied \cup ({<<n, Takes(r)>>} \cap (Ids \X ModerationAction))
      PROVE  IInv'
  <2>1. /\ DOMAIN reports' = DOMAIN reports
        /\ reports'[n] = [reporter |-> reports[n].reporter, target |-> t,
                          status |-> r.status, action |-> r.action]
        /\ \A m \in DOMAIN reports : m # n => reports'[m] = reports[m]
    BY <1>2, <1>5 DEF Report
  <2>2. reports'[n] \in Report
    BY <1>2, <1>3, <2>1 DEF Report, ReportStatus
  <2>3. reports' \in [DOMAIN reports' -> Report]
    BY <1>1, <1>5, <2>1, <2>2 DEF TypeOK
  <2>4. /\ requests' \in [Sessions -> Request] /\ requests'[s].phase = "idle"
        /\ \A q \in Sessions : q # s => requests'[q] = requests[q]
    BY <1>1, ToIdle
  <2>5. TypeOK'
    <3>1. /\ active' \subseteq Users /\ rejected' \subseteq Cooks
          /\ dishes' \in [Dishes -> {"offered", "hidden", "gone"}]
      BY <1>1, <1>2, <1>5, ApplyType
    <3>2. applied' \subseteq Ids \X ModerationAction
      BY <1>1, <1>5 DEF TypeOK
    <3> QED
      BY <1>1, <2>1, <2>3, <2>4, <3>1, <3>2, Alone DEF TypeOK
  <2>6. Numbered'
    BY <2>1 DEF IInv, Numbered
  <2>7. \A a \in applied' : a \in applied \/ (a[1] = n /\ a[2] = Takes(r) /\ Takes(r) # NoAction)
    BY <1>5 DEF ModerationAction, NoAction
  <2>8. OfReports'
    BY <1>2, <2>1, <2>4, <2>7 DEF IInv, OfReports
  <2>9. RecordsAreTrue'
    <3>1. r.status = "RESOLVED" /\ r.action # NoAction => <<n, r.action>> \in applied'
      <4>1. n \in Ids
        BY <1>1, RequestShapes
      <4> QED
        BY <1>3, <1>5, <4>1 DEF Takes
    <3>2. \A m \in DOMAIN reports :
            reports[m].status = "RESOLVED" /\ reports[m].action # NoAction
              => <<m, reports[m].action>> \in applied'
      BY <1>5 DEF IInv, RecordsAreTrue
    <3> QED
      BY <2>1, <3>1, <3>2 DEF RecordsAreTrue
  <2>10. ASSUME ~overlapped'
         PROVE  /\ ChecksHold' /\ PendingOnce' /\ Sanctioned'
                /\ ~cut' => Notified'
    <3>1. ~overlapped /\ \A q \in Sessions : q # s => requests[q] = Idle
      BY <1>1, <2>10, Alone
    <3>2. ChecksHold'
      BY <2>4, <3>1, IdleIsRequest DEF ChecksHold
    <3>3. PendingOnce'
      BY <1>3, <2>1, <3>1 DEF IInv, PendingOnce
    <3>4. reports[n].status = "PENDING"
      BY <1>1, <3>1 DEF IInv, ChecksHold
    <3>5. \A a \in applied : a[1] \in DOMAIN reports /\ a[1] # n
      BY <3>1, <3>4 DEF IInv, Sanctioned, OfReports
    <3>6. Takes(r) # NoAction => r.status = "RESOLVED" /\ r.action = Takes(r)
      BY DEF Takes
    <3>7. Sanctioned'
      BY <2>1, <2>7, <3>1, <3>5, <3>6 DEF IInv, Sanctioned
    <3>8. ASSUME ~cut PROVE Notified'
      <4> SUFFICES ASSUME NEW b \in blocks
                   PROVE  ReportsBy(b.blocker, BlockTarget(b.blocked))' # {}
        BY <1>1 DEF Notified
      <4>1. ~Notifying(b.blocker, b.blocked)
        BY <1>1, <3>1, IdleIsRequest DEF Notifying
      <4>2. ReportsBy(b.blocker, BlockTarget(b.blocked)) # {}
        BY <3>1, <3>8, <4>1 DEF IInv, Notified
      <4>3. PICK m \in DOMAIN reports : /\ reports[m].reporter = b.blocker
                                        /\ reports[m].target = BlockTarget(b.blocked)
        BY <4>2 DEF ReportsBy
      <4>4. reports'[m].reporter = reports[m].reporter /\ reports'[m].target = reports[m].target
        BY <2>1
      <4> QED
        BY <2>1, <4>3, <4>4 DEF ReportsBy
    <3> QED
      BY <1>1, <3>2, <3>3, <3>7, <3>8
  <2> QED
    BY <2>5, <2>6, <2>8, <2>9, <2>10 DEF IInv
<1> QED
  BY <1>4, <1>5 DEF CommitResolution, Refused

\* The surroundings change accounts, cooks, dishes and take blocks away; until
\* requests overlap, they do so while none is under way.
LEMMA SurroundingsKeepIInv ==
  ASSUME IInv, OneStep, TypeOK', UNCHANGED <<reports, applied>>, blocks' \subseteq blocks
  PROVE  IInv'
<1>1. requests' = requests /\ cut' = cut
  BY DEF OneStep
<1>2. Numbered' /\ OfReports' /\ RecordsAreTrue'
  BY <1>1 DEF IInv, Numbered, OfReports, RecordsAreTrue
<1>3. ASSUME ~overlapped'
      PROVE  /\ ChecksHold' /\ PendingOnce' /\ Sanctioned'
             /\ ~cut' => Notified'
  <2>1. ~overlapped /\ \A s \in Sessions : requests[s] = Idle
    BY <1>3 DEF OneStep, Beside
  <2>2. ChecksHold'
    BY <1>1, <2>1, IdleIsRequest DEF ChecksHold
  <2>3. PendingOnce' /\ Sanctioned'
    BY <2>1 DEF IInv, PendingOnce, Sanctioned
  <2>4. ~cut' => Notified'
    BY <1>1, <2>1 DEF IInv, Notified, Notifying, ReportsBy
  <2> QED
    BY <2>2, <2>3, <2>4
<1> QED
  BY <1>2, <1>3 DEF IInv

\* The history variable stays a truth value.
LEMMA OneStepType ==
  ASSUME TypeOK, OneStep
  PROVE  requests' = requests /\ cut' = cut /\ overlapped' \in BOOLEAN
<1>1. overlapped' = (overlapped \/ \E t \in Sessions : requests[t] # Idle)
  BY DEF OneStep, Beside
<1> QED
  BY <1>1 DEF OneStep

(***************************************************************************)
(* Invariance                                                              *)
(***************************************************************************)

LEMMA IInvInit == Init => IInv
<1> SUFFICES ASSUME Init PROVE IInv
  OBVIOUS
<1>1. /\ DOMAIN reports = {} /\ applied = {} /\ blocks = {}
      /\ \A s \in Sessions : requests[s] = Idle
  BY DEF Init
<1>2. TypeOK
  BY <1>1, IdleIsRequest DEF Init, TypeOK
<1>3. Numbered
  <2>1. 1..0 = {}
    OBVIOUS
  <2> QED
    BY <1>1, <2>1 DEF Numbered
<1>4. OfReports /\ RecordsAreTrue /\ ChecksHold /\ PendingOnce /\ Sanctioned /\ Notified
  BY <1>1, IdleIsRequest
  DEF OfReports, RecordsAreTrue, ChecksHold, PendingOnce, Sanctioned, Notified
<1> QED
  BY <1>2, <1>3, <1>4 DEF IInv

LEMMA IInvStep == IInv /\ [Next]_vars => IInv'
<1> SUFFICES ASSUME IInv, [Next]_vars PROVE IInv'
  OBVIOUS
<1>1. ASSUME NEW s \in Sessions, NEW u \in Users, NEW t \in Target, CreateReport(s, u, t)
      PROVE  IInv'
  <2> DEFINE r == [phase |-> "reporting", reporter |-> u, target |-> t]
  <2>1. r \in Request /\ r.phase = "reporting"
    BY DEF Request
  <2>2. /\ requests[s] = Idle /\ To(s, r)
        /\ UNCHANGED <<content, blocks, reports, applied>>
    BY <1>1 DEF CreateReport
  <2> QED
    BY <2>1, <2>2, StartKeepsIInv
<1>2. ASSUME NEW s \in Sessions, NEW u \in Users, NEW v \in Users, BlockUser(s, u, v)
      PROVE  IInv'
  <2> DEFINE r == [phase |-> "blocking", block |-> [blocker |-> u, blocked |-> v]]
  <2>1. r \in Request /\ r.phase = "blocking" /\ r.block.blocked = v
    BY DEF Request, Block
  <2>2. /\ requests[s] = Idle /\ To(s, r) /\ v \in active
        /\ UNCHANGED <<content, blocks, reports, applied>>
    BY <1>2 DEF BlockUser
  <2> QED
    BY <2>1, <2>2, StartKeepsIInv
<1>3. ASSUME NEW s \in Sessions, NEW n \in DOMAIN reports, NEW status \in {"RESOLVED", "DISMISSED"},
             NEW action \in ModerationAction \cup {NoAction}, ResolveReport(s, n, status, action)
      PROVE  IInv'
  <2> DEFINE r == [phase |-> "resolving", report |-> n, status |-> status, action |-> action]
  <2>1. n \in Ids
    BY DEF IInv, TypeOK
  <2>2. r \in Request /\ r.phase = "resolving" /\ r.report = n
    BY <2>1 DEF Request
  <2>3. /\ requests[s] = Idle /\ To(s, r) /\ reports[n].status = "PENDING"
        /\ UNCHANGED <<content, blocks, reports, applied>>
    BY <1>3 DEF ResolveReport, MayResolve
  <2> QED
    BY <2>2, <2>3, StartKeepsIInv
<1>4. ASSUME NEW s \in Sessions, FindPending(s) PROVE IInv'
  BY <1>4, FindPendingKeepsIInv
<1>5. ASSUME NEW s \in Sessions, InsertReport(s) PROVE IInv'
  BY <1>5, InsertReportKeepsIInv
<1>6. ASSUME NEW s \in Sessions, InsertBlock(s) PROVE IInv'
  BY <1>6, InsertBlockKeepsIInv
<1>7. ASSUME NEW s \in Sessions, ReportBlocked(s) PROVE IInv'
  BY <1>7, ReportBlockedKeepsIInv
<1>8. ASSUME NEW s \in Sessions, CommitResolution(s) PROVE IInv'
  BY <1>8, CommitKeepsIInv
<1>9. ASSUME NEW s \in Sessions, Fail(s) PROVE IInv'
  BY <1>9, IdleIsRequest, RequestMoves DEF Fail
<1>10. ASSUME NEW u \in Users, NEW v \in Users, UnblockUser(u, v) PROVE IInv'
  <2>1. TypeOK'
    BY <1>10, OneStepType DEF UnblockUser, IInv, TypeOK, content
  <2> QED
    BY <1>10, <2>1, SurroundingsKeepIInv DEF UnblockUser
<1>11. ASSUME NEW d \in Dishes, CookChangesDish(d) PROVE IInv'
  <2>1. TypeOK'
    BY <1>11, OneStepType DEF CookChangesDish, IInv, TypeOK
  <2> QED
    BY <1>11, <2>1, SurroundingsKeepIInv DEF CookChangesDish
<1>12. ASSUME NEW u \in Users, AccountTurns(u) PROVE IInv'
  <2>1. TypeOK'
    BY <1>12, OneStepType DEF AccountTurns, IInv, TypeOK
  <2> QED
    BY <1>12, <2>1, SurroundingsKeepIInv DEF AccountTurns
<1>13. ASSUME NEW c \in Cooks, CookResubmits(c) PROVE IInv'
  <2>1. TypeOK'
    BY <1>13, OneStepType DEF CookResubmits, IInv, TypeOK
  <2> QED
    BY <1>13, <2>1, SurroundingsKeepIInv DEF CookResubmits
<1>14. CASE UNCHANGED vars
  <2>1. TypeOK' /\ Numbered' /\ OfReports' /\ RecordsAreTrue'
    BY <1>14 DEF vars, IInv, TypeOK, Numbered, OfReports, RecordsAreTrue
  <2>2. ~overlapped' => ChecksHold' /\ PendingOnce' /\ Sanctioned'
    BY <1>14 DEF vars, IInv, ChecksHold, PendingOnce, Sanctioned, Pending, ReportsBy
  <2>3. ~overlapped' /\ ~cut' => Notified'
    BY <1>14 DEF vars, IInv, Notified, Notifying, ReportsBy
  <2> QED
    BY <2>1, <2>2, <2>3 DEF IInv
<1> QED
  BY <1>1, <1>2, <1>3, <1>4, <1>5, <1>6, <1>7, <1>8, <1>9, <1>10, <1>11, <1>12, <1>13, <1>14
  DEF Next

\* Until requests overlap, what one has checked holds when it writes; and resolutions and
\* sanctions are of reports that are there.
THEOREM InductiveInvariant == Spec => []IInv
  BY IInvInit, IInvStep, PTL DEF Spec

\* Accounts, reports, blocks and requests in flight stay well formed.
THEOREM TypeCorrectness == Spec => []TypeOK
<1>1. IInv => TypeOK
  BY DEF IInv
<1> QED
  BY <1>1, InductiveInvariant, PTL

\* A report that is resolved with an action tells the truth, however many requests
\* overlap.
THEOREM RecordsTellTheTruth == Spec => []RecordsAreTrue
<1>1. IInv => RecordsAreTrue
  BY DEF IInv
<1> QED
  BY <1>1, InductiveInvariant, PTL

\* Until requests overlap no sanction goes unrecorded.
THEOREM SanctionsAreRecorded == Spec => []SanctionsOnRecord
<1>1. IInv => SanctionsOnRecord
  BY DEF IInv, SanctionsOnRecord, Sanctioned
<1> QED
  BY <1>1, InductiveInvariant, PTL

\* Until requests overlap a user has one pending report on a target.
THEOREM PendingReportsAreSingle == Spec => []OnePendingReport
<1>1. IInv => OnePendingReport
  <2> SUFFICES ASSUME IInv, ~overlapped, NEW u \in Users, NEW t \in Target
               PROVE  Cardinality(Pending(u, t)) <= 1
    BY DEF OnePendingReport
  <2>1. \A m, n \in Pending(u, t) : m = n
    BY DEF Pending, ReportsBy, IInv, PendingOnce
  <2>2. CASE Pending(u, t) = {}
    BY <2>2, FS_EmptySet
  <2>3. CASE Pending(u, t) # {}
    <3>1. PICK n \in Pending(u, t) : Pending(u, t) = {n}
      BY <2>1, <2>3
    <3>2. Cardinality({n}) = 1
      BY FS_Singleton
    <3> QED
      BY <3>1, <3>2
  <2> QED
    BY <2>2, <2>3
<1> QED
  BY <1>1, InductiveInvariant, PTL

\* Until requests overlap or one is cut short, every block is reported.
THEOREM BlocksLeaveAReport == Spec => []BlocksAreReported
<1>1. IInv => BlocksAreReported
  BY DEF IInv, BlocksAreReported
<1> QED
  BY <1>1, InductiveInvariant, PTL
=============================================================================
