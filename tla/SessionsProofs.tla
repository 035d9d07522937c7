--------------------------- MODULE SessionsProofs ---------------------------
(***************************************************************************)
(* Three proofs, for any number of tabs, calls, sessions and faults.  A    *)
(* login never has two live sessions: a row is rotated by the tab that     *)
(* holds its lock, it stays live as long as it is locked (Locks), and the  *)
(* successor takes its place under the same root; a new login starts a     *)
(* root nobody descends from (Roots).  A tab never presents a token that   *)
(* it has rotated (FlightInv, below).  And a logout ends the login in its  *)
(* tab unless the tab rotates the session meanwhile (LogoutInv, below).    *)
(***************************************************************************)
EXTENDS Sessions, TLAPS

Types ==
    /\ sess \in [Session -> Row]
    /\ stored \in Session \cup {None}
    /\ current \in [Tab -> Session \cup {None}]
    /\ refresh \in [Tab -> [pc : {"none", "sent", "locked", "rotated", "failed"},
                            token : Session \cup {None}, issued : Session \cup {None}]]

\* Who is under way knows the session it rotates, and the one it was issued.
Known ==
    \A t \in Tab : refresh[t].pc \in {"sent", "locked"} => refresh[t].token \in Session

\* The root of a session is a session.
Roots ==
    \A s \in Session : sess[s].status # "none" =>
        sess[s].root \in Session /\ sess[sess[s].root].status # "none"

\* A locked row is live and has one holder.
Locks ==
    \A t \in Tab : refresh[t].pc = "locked" =>
        /\ sess[refresh[t].token].status = "live"
        /\ \A u \in Tab : refresh[u].pc = "locked" /\ refresh[u].token = refresh[t].token => u = t

IInv == Types /\ Known /\ Roots /\ Locks /\ OneLivePerLogin

-----------------------------------------------------------------------------
\* Nobody is logged in at first.
LEMMA InitEstablishes == Init => IInv
<1> SUFFICES ASSUME Init PROVE IInv
  OBVIOUS
<1>1. Types
  BY DEF Init, Types, NoRow, NoRefresh, Row, None
<1>2. Known /\ Roots /\ Locks /\ OneLivePerLogin
  BY DEF Init, Known, Roots, Locks, OneLivePerLogin, NoRow, NoRefresh
<1> QED BY <1>1, <1>2 DEF IInv

(* A step that leaves the rows alone, and at most lets locks go. *)
LEMMA RowsStay ==
    ASSUME IInv, UNCHANGED sess, Types', Known',
           \A t \in Tab : refresh'[t].pc = "locked" => refresh'[t] = refresh[t]
    PROVE  IInv'
<1>1. Roots' /\ OneLivePerLogin'
  BY DEF IInv, Roots, OneLivePerLogin
<1>2. Locks'
  BY DEF IInv, Locks
<1> QED BY <1>1, <1>2 DEF IInv

(* A step that changes neither rows nor refreshes. *)
LEMMA NothingRotates ==
    ASSUME IInv, UNCHANGED <<sess, refresh>>, stored' \in Session \cup {None},
           current' \in [Tab -> Session \cup {None}]
    PROVE  IInv'
<1>1. Types' /\ Known'
  BY DEF IInv, Types, Known
<1> QED BY <1>1, RowsStay

(* Revoking a row nobody has locked. *)
LEMMA RevokeKeeps ==
    ASSUME IInv, NEW s, ~LockedRow(s), Revoke(s), UNCHANGED refresh,
           stored' \in Session \cup {None}, current' \in [Tab -> Session \cup {None}]
    PROVE  IInv'
<1>1. sess \in [Session -> Row]
  BY DEF IInv, Types
<1>2. \A x \in Session :
        /\ sess'[x].root = sess[x].root /\ sess'[x] \in Row
        /\ sess'[x].status = IF x = s /\ sess[x].status = "live" THEN "revoked" ELSE sess[x].status
  BY <1>1 DEF Row, Revoke
<1>3. sess' \in [Session -> Row]
  BY <1>2 DEF Revoke
<1>4. Types' /\ Known'
  BY <1>3 DEF IInv, Types, Known
<1>5. Locks'
  BY <1>2 DEF IInv, Locks, Known, LockedRow
<1>6. Roots'
  BY <1>2 DEF IInv, Roots
<1>7. OneLivePerLogin'
  BY <1>2 DEF IInv, OneLivePerLogin
<1> QED BY <1>4, <1>5, <1>6, <1>7 DEF IInv

(* An identifier that is used next was not used before. *)
LEMMA NewIdIsNew ==
    ASSUME Unused # {}
    PROVE  NewId \in Session /\ sess[NewId].status = "none"
<1>1. NewId \in Unused
  BY DEF NewId
<1> QED BY <1>1 DEF Unused

-----------------------------------------------------------------------------
\* A login starts a chain of sessions of its own.
LEMMA LoginKeeps ==
    ASSUME IInv, NEW t \in Tab, Login(t)
    PROVE  IInv'
<1> DEFINE new == Issue(NewId, None, t)
<1>1. NewId \in Session /\ sess[NewId].status = "none"
  BY NewIdIsNew DEF Login
<1>2. new \in Row /\ new.status = "live" /\ new.root = NewId
  BY <1>1 DEF Issue, NoRow, Row, None
<1>3. sess \in [Session -> Row] /\ sess' = [sess EXCEPT ![NewId] = new] /\ UNCHANGED refresh
  BY DEF IInv, Types, Login
<1> HIDE DEF new
<1>4. \A x \in Session : sess'[x] = IF x = NewId THEN new ELSE sess[x]
  BY <1>1, <1>3
<1>5. Types'
  BY <1>1, <1>2, <1>3 DEF IInv, Types, Login, SetSession
<1>6. Known' /\ Roots'
  BY <1>1, <1>2, <1>3, <1>4 DEF IInv, Known, Roots
<1>7. Locks'
  BY <1>1, <1>2, <1>3, <1>4 DEF IInv, Locks, Known
<1>8. OneLivePerLogin'
  <2>1. \A x \in Session : sess[x].status # "none" => sess[x].root # NewId
    BY <1>1 DEF IInv, Roots
  <2> QED BY <1>2, <1>4, <2>1 DEF IInv, OneLivePerLogin
<1> QED BY <1>5, <1>6, <1>7, <1>8 DEF IInv

\* A rotation consumes the token it has locked and issues the next one of the
\* chain.
LEMMA RotateKeeps ==
    ASSUME IInv, NEW t \in Tab, Rotate(t)
    PROVE  IInv'
<1> DEFINE old == refresh[t].token
           new == Issue(sess[old].root, old, t)
<1>1. NewId \in Session /\ sess[NewId].status = "none"
  BY NewIdIsNew DEF Rotate
<1>2. /\ old \in Session /\ sess[old].status = "live" /\ sess[old].root \in Session
      /\ sess[sess[old].root].status # "none"
  BY DEF IInv, Rotate, Known, Locks, Roots
<1>3. new \in Row /\ new.status = "live" /\ new.root = sess[old].root
  BY <1>2 DEF Issue, NoRow, Row
<1>4. sess \in [Session -> Row] /\ UNCHANGED <<stored, current>>
      /\ sess' = [sess EXCEPT ![old].status = "revoked", ![NewId] = new]
      /\ refresh' = [refresh EXCEPT ![t].pc = "rotated", ![t].issued = NewId]
  BY DEF IInv, Types, Rotate
<1> HIDE DEF new, old
<1>5. NewId # old
  BY <1>1, <1>2
<1>6. sess'[NewId] = new /\ sess'[old].status = "revoked" /\ sess'[old].root = sess[old].root
      /\ sess'[old] \in Row
  BY <1>1, <1>2, <1>4, <1>5 DEF Row
<1>7. \A x \in Session : x # NewId /\ x # old => sess'[x] = sess[x]
  BY <1>4
<1>8. Types'
  <2>1. sess' \in [Session -> Row]
    BY <1>3, <1>4, <1>6, <1>7
  <2>2. refresh' \in [Tab -> [pc : {"none", "sent", "locked", "rotated", "failed"},
                              token : Session \cup {None}, issued : Session \cup {None}]]
    BY <1>1, <1>4 DEF IInv, Types
  <2> QED BY <1>4, <2>1, <2>2 DEF IInv, Types
<1>9. \A u \in Tab : u # t => refresh'[u] = refresh[u]
  BY <1>4 DEF IInv, Types
<1>10. refresh'[t].pc = "rotated"
  BY <1>4 DEF IInv, Types
<1>11. Known'
  BY <1>9, <1>10 DEF IInv, Known
<1>12. Roots'
  BY <1>1, <1>2, <1>3, <1>6, <1>7 DEF IInv, Roots
<1>13. Locks'
  <2> SUFFICES ASSUME NEW u \in Tab, refresh'[u].pc = "locked"
               PROVE  /\ sess'[refresh'[u].token].status = "live"
                      /\ \A v \in Tab : refresh'[v].pc = "locked" /\ refresh'[v].token = refresh'[u].token
                                        => v = u
    BY DEF Locks
  <2>1. u # t /\ refresh'[u] = refresh[u]
    BY <1>9, <1>10
  <2>2. refresh[u].token \in Session /\ sess[refresh[u].token].status = "live"
    BY <2>1 DEF IInv, Locks, Known
  <2>3. refresh[t].pc = "locked"
    BY DEF Rotate
  <2>4. refresh[u].token # old
    BY <2>1, <2>3 DEF IInv, Locks, old
  <2>5. sess'[refresh'[u].token].status = "live"
    BY <2>1, <2>2, <2>4, <1>1, <1>7
  <2> QED BY <2>1, <2>5, <1>9, <1>10 DEF IInv, Locks
<1>14. OneLivePerLogin'
  <2> SUFFICES ASSUME NEW x \in Session, NEW y \in Session, sess'[x].status = "live",
                      sess'[y].status = "live", sess'[x].root = sess'[y].root
               PROVE  x = y
    BY DEF OneLivePerLogin
  <2>1. \A z \in Session : sess[z].status = "live" /\ sess[z].root = sess[old].root => z = old
    BY <1>2 DEF IInv, OneLivePerLogin
  <2>2. x # old /\ y # old
    BY <1>6
  <2>3. CASE x = NewId
    BY <1>3, <1>6, <1>7, <2>1, <2>2, <2>3
  <2>4. CASE y = NewId
    BY <1>3, <1>6, <1>7, <2>1, <2>2, <2>4
  <2>5. CASE x # NewId /\ y # NewId
    BY <1>7, <2>2, <2>5 DEF IInv, OneLivePerLogin
  <2> QED BY <2>3, <2>4, <2>5
<1> QED BY <1>8, <1>11, <1>12, <1>13, <1>14 DEF IInv

(* The test of a row under its lock. *)
LEMMA LockKeeps ==
    ASSUME IInv, NEW t \in Tab, LockSession(t)
    PROVE  IInv'
<1> DEFINE s == refresh[t].token
<1>1. /\ s \in Session /\ ~LockedRow(s) /\ UNCHANGED <<sess, current, stored>>
      /\ refresh' = [refresh EXCEPT ![t].pc = IF Valid(s) THEN "locked" ELSE "failed"]
  BY DEF IInv, Known, LockSession
<1>2. refresh \in [Tab -> [pc : {"none", "sent", "locked", "rotated", "failed"},
                           token : Session \cup {None}, issued : Session \cup {None}]]
  BY DEF IInv, Types
<1>3. /\ refresh'[t].token = s /\ refresh'[t].pc = IF Valid(s) THEN "locked" ELSE "failed"
      /\ \A u \in Tab : u # t => refresh'[u] = refresh[u]
  BY <1>1, <1>2
<1>4. Types'
  BY <1>1, <1>2 DEF IInv, Types
<1> HIDE DEF s
<1>5. Known'
  BY <1>1, <1>3 DEF IInv, Known
<1>6. Roots' /\ OneLivePerLogin'
  BY <1>1 DEF IInv, Roots, OneLivePerLogin
<1>7. Locks'
  BY <1>1, <1>3 DEF IInv, Locks, LockedRow, Valid
<1> QED BY <1>4, <1>5, <1>6, <1>7 DEF IInv

(* The life of a session changes nothing of its place. *)
LEMMA SessionExpiresKeeps ==
    ASSUME IInv, NEW s \in Session, SessionExpires(s)
    PROVE  IInv'
<1>1. sess \in [Session -> Row] /\ sess' = [sess EXCEPT ![s].expired = TRUE]
      /\ UNCHANGED <<current, stored, refresh>>
  BY DEF IInv, Types, SessionExpires
<1>2. \A x \in Session : sess'[x] \in Row /\ sess'[x].root = sess[x].root
                         /\ sess'[x].status = sess[x].status
  BY <1>1 DEF Row
<1>3. Types' /\ Known'
  BY <1>1, <1>2 DEF IInv, Types, Known
<1>4. Roots' /\ Locks' /\ OneLivePerLogin'
  BY <1>1, <1>2 DEF IInv, Roots, Locks, Known, OneLivePerLogin
<1> QED BY <1>3, <1>4 DEF IInv

-----------------------------------------------------------------------------
\* What a tab caches and stores is a session or none.
LEMMA SetSessionType ==
    ASSUME Types, NEW t \in Tab, NEW s \in Session \cup {None}, SetSession(t, s)
    PROVE  stored' \in Session \cup {None} /\ current' \in [Tab -> Session \cup {None}]
BY DEF Types, SetSession

\* Clearing a session is setting it to none.
LEMMA ClearSessionType ==
    ASSUME Types, NEW t \in Tab, ClearSession(t)
    PROVE  stored' \in Session \cup {None} /\ current' \in [Tab -> Session \cup {None}]
<1>1. None \in Session \cup {None} /\ SetSession(t, None)
  BY DEF ClearSession
<1> QED BY <1>1, SetSessionType

\* An API call keeps what is known of sessions and tokens.
LEMMA CallKeeps ==
    ASSUME IInv, NEW c \in Call, CallStep(c) \/ CallFails(c)
    PROVE  IInv'
<1>0. Types /\ TabOf[c] \in Tab
  BY SessionsAssumption DEF IInv
<1> DEFINE Cached == stored' \in Session \cup {None} /\ current' \in [Tab -> Session \cup {None}]
<1>1. UNCHANGED <<current, stored>> => Cached
  BY DEF IInv, Types
<1>2. ClearSession(TabOf[c]) => Cached
  BY <1>0, ClearSessionType
<1> HIDE DEF Cached
<1>3. ASSUME Begin(c) \/ ServeRequest(c) \/ RefreshWithout(c) \/ RejectedAgain(c)
      PROVE  IInv'
  <2>1. UNCHANGED <<sess, refresh>> /\ Cached
    BY <1>1, <1>2, <1>3 DEF Begin, ServeRequest, RefreshWithout, RejectedAgain
  <2> QED BY <2>1, NothingRotates DEF Cached
<1>4. CASE ServeLogout(c)
  <2>1. ~LockedRow(call[c].token) /\ Revoke(call[c].token) /\ UNCHANGED refresh /\ Cached
    BY <1>2, <1>4 DEF ServeLogout
  <2> QED BY <2>1, RevokeKeeps DEF Cached
<1>5. CASE Refresh(c)
  <2> DEFINE t == TabOf[c]
  <2>1. UNCHANGED <<sess, current, stored>> /\ current[t] \in Session
        /\ \/ UNCHANGED refresh
           \/ refresh' = [refresh EXCEPT ![t] = [pc |-> "sent", token |-> current[t], issued |-> None]]
    BY <1>0, <1>5 DEF Refresh, StartRefresh, Types
  <2>2. CASE UNCHANGED refresh
    BY <2>1, <2>2, <1>0, NothingRotates DEF Types
  <2>3. CASE refresh' = [refresh EXCEPT ![t] = [pc |-> "sent", token |-> current[t], issued |-> None]]
    <3>1. Types'
      BY <2>1, <2>3, <1>0 DEF Types
    <3>2. Known'
      BY <2>1, <2>3, <1>0 DEF IInv, Known, Types
    <3>3. \A u \in Tab : refresh'[u].pc = "locked" => refresh'[u] = refresh[u]
      BY <2>3, <1>0 DEF Types
    <3> QED BY <2>1, <3>1, <3>2, <3>3, RowsStay
  <2> QED BY <2>1, <2>2, <2>3
<1>6. CASE CallFails(c)
  <2>1. UNCHANGED refresh /\ Cached
    BY <1>1, <1>2, <1>6 DEF CallFails
  <2>2. CASE UNCHANGED sess
    BY <2>1, <2>2, NothingRotates DEF Cached
  <2>3. CASE ~LockedRow(call[c].token) /\ Revoke(call[c].token)
    BY <2>1, <2>3, RevokeKeeps DEF Cached
  <2> QED BY <1>6, <2>2, <2>3 DEF CallFails
<1> QED BY <1>3, <1>4, <1>5, <1>6 DEF CallStep

(* The end of a refresh, good or bad, gives up no more than its lock. *)
LEMMA RefreshEndsKeeps ==
    ASSUME IInv, NEW t \in Tab,
           NoneLeft(t) \/ RefreshFails(t) \/ RefreshSucceeded(t) \/ RefreshFailed(t)
    PROVE  IInv'
<1>0. Types
  BY DEF IInv
<1>1. ASSUME NoneLeft(t) \/ RefreshFails(t)
      PROVE  IInv'
  <2>1. refresh' = [refresh EXCEPT ![t].pc = "failed"] /\ UNCHANGED <<sess, current, stored>>
    BY <1>1 DEF NoneLeft, RefreshFails
  <2>2. Types'
    BY <2>1, <1>0 DEF Types
  <2>3. \A u \in Tab : refresh'[u].pc \in {"sent", "locked"} => refresh'[u] = refresh[u]
    BY <2>1, <1>0 DEF Types
  <2>4. Known'
    BY <2>3 DEF IInv, Known
  <2> QED BY <2>1, <2>2, <2>3, <2>4, RowsStay
<1>2. ASSUME RefreshSucceeded(t) \/ RefreshFailed(t)
      PROVE  IInv'
  <2>1. refresh' = [refresh EXCEPT ![t] = NoRefresh] /\ UNCHANGED sess
    BY <1>2 DEF RefreshSucceeded, RefreshFailed
  <2>2. refresh[t].issued \in Session \cup {None}
    BY <1>0 DEF Types
  <2>3. stored' \in Session \cup {None} /\ current' \in [Tab -> Session \cup {None}]
    <3>1. CASE RefreshSucceeded(t)
      BY <1>0, <2>2, <3>1, SetSessionType DEF RefreshSucceeded
    <3>2. CASE RefreshFailed(t)
      BY <1>0, <3>2, ClearSessionType DEF RefreshFailed
    <3> QED BY <1>2, <3>1, <3>2
  <2>4. Types'
    BY <1>0, <2>1, <2>3 DEF Types, NoRefresh, None
  <2>5. \A u \in Tab : refresh'[u].pc \in {"sent", "locked"} => refresh'[u] = refresh[u]
    BY <2>1, <1>0 DEF Types, NoRefresh
  <2>6. Known'
    BY <2>5 DEF IInv, Known
  <2> QED BY <2>1, <2>4, <2>5, <2>6, RowsStay
<1> QED BY <1>1, <1>2

\* The invariant is inductive.
LEMMA NextKeeps == IInv /\ [Next]_vars => IInv'
<1> SUFFICES ASSUME IInv, [Next]_vars PROVE IInv'
  OBVIOUS
<1>1. ASSUME NEW s \in Session, AccessExpires(s)
      PROVE  IInv'
  BY <1>1, NothingRotates DEF AccessExpires, IInv, Types
<1>2. ASSUME NEW s \in Session, SessionExpires(s)
      PROVE  IInv'
  BY <1>2, SessionExpiresKeeps
<1>3. ASSUME NEW t \in Tab, Login(t) \/ LockSession(t)
      PROVE  IInv'
  BY <1>3, LoginKeeps, LockKeeps
<1>4. ASSUME NEW t \in Tab, RefreshProceeds(t) \/ RefreshFails(t)
      PROVE  IInv'
  BY <1>4, RotateKeeps, RefreshEndsKeeps DEF RefreshProceeds
<1>5. ASSUME NEW t \in Tab, Load(t)
      PROVE  IInv'
  BY <1>5, NothingRotates DEF Load, IInv, Types
<1>6. ASSUME NEW c \in Call, CallStep(c) \/ CallFails(c)
      PROVE  IInv'
  BY <1>6, CallKeeps
<1>7. CASE UNCHANGED vars
  BY <1>7, NothingRotates DEF vars, IInv, Types
<1> QED BY <1>1, <1>2, <1>3, <1>4, <1>5, <1>6, <1>7 DEF Next

(* Of the sessions that descend from one login at most one is live, for any
   number of tabs, calls and faults (Sessions' OneLivePerLogin). *)
THEOREM OneLivePerLoginHolds == Spec => []OneLivePerLogin
<1>1. Init => IInv
  BY InitEstablishes
<1>2. IInv /\ [Next]_vars => IInv'
  BY NextKeeps
<1>3. IInv => OneLivePerLogin
  BY DEF IInv
<1> QED BY <1>1, <1>2, <1>3, PTL DEF Spec

-----------------------------------------------------------------------------
(* A tab never rotates a token twice.  What must be known is where a token   *)
(* can still be found: one a tab has rotated has left its cache and the      *)
(* storage when the promise settles, and one that was issued and has not     *)
(* arrived is nowhere else.                                                  *)
Used(s) == s # None => sess[s].status # "none"
Unrotated(t, s) == s # None => ~\E x \in Session : sess[x].from = s /\ sess[x].by = t

\* Tokens that are kept or sent were issued, and so were those rotated.
Issued ==
    /\ \A x \in Session : Used(sess[x].from)
    /\ Used(stored)
    /\ \A t \in Tab : Used(current[t]) /\ Used(refresh[t].token)
    /\ \A t \in Tab : refresh[t].pc = "rotated" => refresh[t].issued \in Session /\ Used(refresh[t].issued)

\* The token of a reply that has not arrived is nowhere else.
OnItsWay ==
    \A t \in Tab : refresh[t].pc = "rotated" =>
        LET new == refresh[t].issued
        IN  /\ stored # new
            /\ \A x \in Session : sess[x].from # new
            /\ \A u \in Tab : /\ current[u] # new /\ refresh[u].token # new
                              /\ refresh[u].pc = "rotated" /\ u # t => refresh[u].issued # new

\* What a tab may send next, or has sent, it has not rotated.
OwnUnrotated ==
    \A t \in Tab :
        /\ refresh[t].pc = "none" => Unrotated(t, stored) /\ Unrotated(t, current[t])
        /\ refresh[t].pc \in {"sent", "locked"} => Unrotated(t, refresh[t].token)

FlightInv == Issued /\ OnItsWay /\ OwnUnrotated

\* A step that issues and sends nothing, and at most clears or loads what is cached.
LEMMA FlightStays ==
    ASSUME Types, FlightInv,
           \A x \in Session : /\ sess'[x].from = sess[x].from /\ sess'[x].by = sess[x].by
                              /\ sess[x].status # "none" => sess'[x].status # "none",
           stored' \in {stored, None},
           \A t \in Tab : /\ current'[t] \in {current[t], None} \/ (current'[t] = stored /\ refresh[t].pc = "none")
                          /\ refresh'[t].token = refresh[t].token /\ refresh'[t].issued = refresh[t].issued
                          /\ \/ refresh'[t].pc \in {refresh[t].pc, "failed"}
                             \/ refresh[t].pc = "sent" /\ refresh'[t].pc = "locked"
    PROVE  FlightInv'
<1>1. /\ stored \in Session \cup {None} /\ None \notin Session
      /\ \A t \in Tab : /\ current[t] \in Session \cup {None}
                        /\ refresh[t].token \in Session \cup {None}
      /\ \A x \in Session : sess[x].from \in Session \cup {None}
  BY DEF Types, Row, Session, None
<1>2. \A s \in Session \cup {None} : Used(s) => Used(s)'
  BY DEF Used
<1>3. \A t \in Tab : \A s \in Session \cup {None} : Unrotated(t, s) => Unrotated(t, s)'
  BY DEF Unrotated
<1>4. Used(None)' /\ \A t \in Tab : Unrotated(t, None)'
  BY DEF Used, Unrotated
<1>5. Issued'
  <2>1. \A x \in Session : Used(sess[x].from)'
    BY <1>1, <1>2 DEF FlightInv, Issued, Used
  <2>2. Used(stored)' /\ \A t \in Tab : Used(current[t])' /\ Used(refresh[t].token)'
    BY <1>1, <1>2, <1>4 DEF FlightInv, Issued, Used
  <2>3. \A t \in Tab : refresh'[t].pc = "rotated" => refresh'[t].issued \in Session /\ Used(refresh[t].issued)'
    BY <1>2 DEF FlightInv, Issued, Used
  <2> QED BY <2>1, <2>2, <2>3 DEF Issued
<1>6. OnItsWay'
  <2> SUFFICES ASSUME NEW t \in Tab, refresh'[t].pc = "rotated"
               PROVE  LET new == refresh'[t].issued
                      IN  /\ stored' # new
                          /\ \A x \in Session : sess'[x].from # new
                          /\ \A u \in Tab : /\ current'[u] # new /\ refresh'[u].token # new
                                            /\ refresh'[u].pc = "rotated" /\ u # t => refresh'[u].issued # new
    BY DEF OnItsWay
  <2>1. refresh[t].pc = "rotated" /\ refresh[t].issued \in Session
    BY DEF FlightInv, Issued
  <2> QED BY <1>1, <2>1 DEF FlightInv, OnItsWay
<1>7. OwnUnrotated'
  <2> SUFFICES ASSUME NEW t \in Tab
               PROVE  /\ refresh'[t].pc = "none" => Unrotated(t, stored)' /\ Unrotated(t, current[t])'
                      /\ refresh'[t].pc \in {"sent", "locked"} => Unrotated(t, refresh[t].token)'
    BY DEF OwnUnrotated
  <2>1. CASE refresh'[t].pc = "none"
    <3>1. refresh[t].pc = "none" /\ Unrotated(t, stored) /\ Unrotated(t, current[t])
      BY <2>1 DEF FlightInv, OwnUnrotated
    <3>2. (stored' # None => Unrotated(t, stored)') /\ (current'[t] # None => Unrotated(t, current[t])')
      BY <1>1, <1>3, <3>1 DEF Unrotated
    <3> QED BY <2>1, <3>2 DEF Unrotated
  <2>2. CASE refresh'[t].pc \in {"sent", "locked"}
    <3>1. refresh[t].pc \in {"sent", "locked"} /\ Unrotated(t, refresh[t].token)
      BY <2>2 DEF FlightInv, OwnUnrotated
    <3>2. Unrotated(t, refresh[t].token)'
      BY <1>1, <1>3, <3>1 DEF Unrotated
    <3> QED BY <2>2, <3>2
  <2> QED BY <2>1, <2>2
<1> QED BY <1>5, <1>6, <1>7 DEF FlightInv

\* A tab sends the token it has cached.
LEMMA SendKeepsFlight ==
    ASSUME Types, FlightInv, NEW t \in Tab, refresh[t].pc = "none", current[t] # None,
           UNCHANGED <<sess, stored, current>>,
           refresh' = [refresh EXCEPT ![t] = [pc |-> "sent", token |-> current[t], issued |-> None]]
    PROVE  FlightInv'
<1>1. /\ refresh'[t].pc = "sent" /\ refresh'[t].token = current[t]
      /\ \A u \in Tab : u # t => refresh'[u] = refresh[u]
  BY DEF Types
<1>2. Issued'
  BY <1>1 DEF FlightInv, Issued, Used
<1>3. OnItsWay'
  BY <1>1 DEF FlightInv, OnItsWay
<1>4. OwnUnrotated'
  BY <1>1 DEF FlightInv, OwnUnrotated, Unrotated
<1> QED BY <1>2, <1>3, <1>4 DEF FlightInv

\* The new token of a login is one that nobody knew.
LEMMA LoginKeepsFlight ==
    ASSUME Types, FlightInv, NEW t \in Tab, Login(t)
    PROVE  FlightInv'
<1>1. PICK n \in Session, row \in Row :
        /\ sess[n].status = "none" /\ row.status = "live" /\ row.from = None
        /\ sess' = [sess EXCEPT ![n] = row]
        /\ stored' = n /\ current' = [current EXCEPT ![t] = n]
  <2>1. NewId \in Session /\ sess[NewId].status = "none"
    BY NewIdIsNew DEF Login
  <2>2. Issue(NewId, None, t) \in Row /\ Issue(NewId, None, t).status = "live" /\ Issue(NewId, None, t).from = None
    BY <2>1 DEF Issue, NoRow, Row, None
  <2> QED BY <2>1, <2>2 DEF Login, SetSession
<1>2. UNCHANGED refresh /\ sess \in [Session -> Row] /\ n # None /\ None \notin Session
  BY DEF Login, Types, Session, None
<1>3. \A x \in Session : sess'[x] = IF x = n THEN row ELSE sess[x]
  BY <1>1, <1>2
<1>4. current'[t] = n /\ \A u \in Tab : u # t => current'[u] = current[u]
  BY <1>1 DEF Types
<1>5. /\ \A x \in Session : sess[x].from # n /\ sess[x].from \in Session \cup {None}
      /\ \A u \in Tab : /\ current[u] # n /\ refresh[u].token # n
                        /\ refresh[u].pc = "rotated" => refresh[u].issued # n
                        /\ current[u] \in Session \cup {None} /\ refresh[u].token \in Session \cup {None}
  BY <1>1, <1>2 DEF FlightInv, Issued, Used, Types, Row
<1>6. \A s \in Session \cup {None} : Used(s) => Used(s)'
  BY <1>1, <1>3 DEF Used
<1>7. Used(n)' /\ Used(None)'
  BY <1>1, <1>3 DEF Used
<1>8. Issued'
  <2>1. \A x \in Session : Used(sess[x].from)'
    BY <1>1, <1>3, <1>5, <1>6 DEF FlightInv, Issued, Used
  <2>2. Used(stored)'
    BY <1>1, <1>7 DEF Used
  <2>3. \A u \in Tab : Used(current[u])'
    <3> TAKE u \in Tab
    <3>1. CASE u = t
      BY <1>4, <1>7, <3>1 DEF Used
    <3>2. CASE u # t
      BY <1>4, <1>5, <1>6, <3>2 DEF FlightInv, Issued, Used
    <3> QED BY <3>1, <3>2
  <2>4. \A u \in Tab : Used(refresh[u].token)'
    BY <1>2, <1>5, <1>6 DEF FlightInv, Issued, Used
  <2>5. \A u \in Tab : refresh'[u].pc = "rotated" => refresh'[u].issued \in Session /\ Used(refresh[u].issued)'
    BY <1>2, <1>6 DEF FlightInv, Issued, Used
  <2> QED BY <2>1, <2>2, <2>3, <2>4, <2>5 DEF Issued
<1>9. OnItsWay'
  <2>1. \A u \in Tab : refresh[u].pc = "rotated" => refresh[u].issued \in Session
    BY DEF FlightInv, Issued
  <2> QED BY <1>1, <1>2, <1>3, <1>4, <1>5, <2>1 DEF FlightInv, OnItsWay
<1>10. \A u \in Tab : /\ Unrotated(u, n)'
                      /\ \A s \in Session \cup {None} : Unrotated(u, s) => Unrotated(u, s)'
  BY <1>1, <1>2, <1>3, <1>5 DEF Unrotated
<1>11. OwnUnrotated'
  <2> SUFFICES ASSUME NEW u \in Tab
               PROVE  /\ refresh'[u].pc = "none" => Unrotated(u, stored)' /\ Unrotated(u, current[u])'
                      /\ refresh'[u].pc \in {"sent", "locked"} => Unrotated(u, refresh[u].token)'
    BY DEF OwnUnrotated
  <2>1. Unrotated(u, stored)'
    BY <1>1, <1>10 DEF Unrotated
  <2>2. ASSUME refresh[u].pc = "none" PROVE Unrotated(u, current[u])'
    <3>1. CASE u = t
      BY <1>4, <1>10, <3>1 DEF Unrotated
    <3>2. CASE u # t
      BY <1>4, <1>5, <1>10, <2>2, <3>2 DEF FlightInv, OwnUnrotated, Unrotated
    <3> QED BY <3>1, <3>2
  <2>3. refresh[u].pc \in {"sent", "locked"} => Unrotated(u, refresh[u].token)'
    BY <1>2, <1>5, <1>10 DEF FlightInv, OwnUnrotated, Unrotated
  <2> QED BY <1>2, <2>1, <2>2, <2>3
<1> QED BY <1>8, <1>9, <1>11 DEF FlightInv

\* The new token of a rotation is one that nobody knows until it arrives.
LEMMA RotateKeepsFlight ==
    ASSUME Types, Known, FlightInv, NEW t \in Tab, Rotate(t)
    PROVE  FlightInv'
<1>1. PICK old \in Session, n \in Session, row \in Row :
        /\ refresh[t].token = old /\ sess[old].status # "none"
        /\ sess[n].status = "none" /\ row.status = "live" /\ row.from = old /\ row.by = t
        /\ sess' = [sess EXCEPT ![old].status = "revoked", ![n] = row]
        /\ refresh' = [refresh EXCEPT ![t].pc = "rotated", ![t].issued = n]
  <2> DEFINE o == refresh[t].token
             r == Issue(sess[o].root, o, t)
  <2>1. NewId \in Session /\ sess[NewId].status = "none"
    BY NewIdIsNew DEF Rotate
  <2>2. o \in Session /\ o # None /\ sess[o].status # "none" /\ sess[o].root \in Session \cup {None}
    BY DEF Known, Rotate, FlightInv, Issued, Used, Types, Row, Session, None
  <2>3. r \in Row /\ r.status = "live" /\ r.from = o /\ r.by = t
    BY <2>2 DEF Issue, NoRow, Row
  <2> QED BY <2>1, <2>2, <2>3 DEF Rotate
<1>2. /\ UNCHANGED <<stored, current>> /\ refresh[t].pc = "locked" /\ sess \in [Session -> Row]
      /\ n # None /\ None \notin Session /\ n # old
  BY <1>1 DEF Rotate, Types, Session, None
<1>3. /\ refresh'[t].pc = "rotated" /\ refresh'[t].issued = n /\ refresh'[t].token = old
      /\ \A u \in Tab : u # t => refresh'[u] = refresh[u]
  BY <1>1 DEF Types
<1>4. /\ sess'[n] = row
      /\ \A x \in Session : x # n => sess'[x].from = sess[x].from /\ sess'[x].by = sess[x].by
      /\ \A x \in Session : sess[x].status # "none" => sess'[x].status # "none"
  BY <1>1, <1>2 DEF Row
<1>5. /\ stored # n /\ stored \in Session \cup {None}
      /\ \A x \in Session : sess[x].from # n /\ sess[x].from \in Session \cup {None}
      /\ \A u \in Tab : /\ current[u] # n /\ refresh[u].token # n
                        /\ refresh[u].pc = "rotated" => refresh[u].issued # n
                        /\ current[u] \in Session \cup {None} /\ refresh[u].token \in Session \cup {None}
  BY <1>1, <1>2 DEF FlightInv, Issued, Used, Types, Row
<1>6. \A s \in Session \cup {None} : Used(s) => Used(s)'
  BY <1>4 DEF Used
<1>7. Used(n)' /\ Used(old)'
  BY <1>1, <1>4 DEF Used
<1>8. Issued'
  <2>1. \A x \in Session : Used(sess[x].from)'
    <3>1. Used(sess[n].from)'
      BY <1>1, <1>4, <1>7 DEF Used
    <3>2. \A x \in Session : Used(sess[x].from)
      BY DEF FlightInv, Issued
    <3>3. ASSUME NEW x \in Session, x # n PROVE Used(sess[x].from)'
      BY <1>4, <1>5, <1>6, <3>2, <3>3 DEF Used
    <3> QED BY <3>1, <3>3
  <2>2. Used(stored)' /\ \A u \in Tab : Used(current[u])'
    BY <1>2, <1>5, <1>6 DEF FlightInv, Issued, Used
  <2>3. \A u \in Tab : Used(refresh[u].token)'
    BY <1>3, <1>5, <1>6, <1>7 DEF FlightInv, Issued, Used
  <2>4. \A u \in Tab : refresh'[u].pc = "rotated" => refresh'[u].issued \in Session /\ Used(refresh[u].issued)'
    <3> TAKE u \in Tab
    <3>1. CASE u = t
      BY <1>3, <1>7, <3>1 DEF Used
    <3>2. CASE u # t
      BY <1>3, <1>6, <3>2 DEF FlightInv, Issued, Used
    <3> QED BY <3>1, <3>2
  <2> QED BY <2>1, <2>2, <2>3, <2>4 DEF Issued
<1>9. OnItsWay'
  <2> SUFFICES ASSUME NEW u \in Tab, refresh'[u].pc = "rotated", NEW m, m = refresh'[u].issued
               PROVE  /\ stored' # m
                      /\ \A x \in Session : sess'[x].from # m
                      /\ \A v \in Tab : /\ current'[v] # m /\ refresh'[v].token # m
                                        /\ refresh'[v].pc = "rotated" /\ v # u => refresh'[v].issued # m
    BY DEF OnItsWay
  <2>1. CASE u = t
    <3>1. m = n
      BY <1>3, <2>1
    <3>2. stored' # m /\ \A x \in Session : sess'[x].from # m
      <4>1. sess'[n].from # n
        BY <1>1, <1>2, <1>4
      <4>2. \A x \in Session : x # n => sess'[x].from # n
        BY <1>4, <1>5
      <4> QED BY <1>2, <1>5, <3>1, <4>1, <4>2
    <3>3. \A v \in Tab : /\ current'[v] # m /\ refresh'[v].token # m
                         /\ refresh'[v].pc = "rotated" /\ v # u => refresh'[v].issued # m
      BY <1>2, <1>3, <1>5, <2>1, <3>1
    <3> QED BY <3>2, <3>3
  <2>2. CASE u # t
    <3>1. refresh[u].pc = "rotated" /\ refresh[u].issued = m
      BY <1>3, <2>2
    <3>2. /\ stored # m /\ \A x \in Session : sess[x].from # m
          /\ \A v \in Tab : /\ current[v] # m /\ refresh[v].token # m
                            /\ refresh[v].pc = "rotated" /\ v # u => refresh[v].issued # m
      BY <3>1 DEF FlightInv, OnItsWay
    <3>3. old # m /\ n # m
      BY <1>1, <1>5, <3>1, <3>2
    <3>4. stored' # m /\ \A x \in Session : sess'[x].from # m
      <4>1. sess'[n].from # m
        BY <1>1, <1>4, <3>3
      <4>2. \A x \in Session : x # n => sess'[x].from # m
        BY <1>4, <3>2
      <4> QED BY <1>2, <3>2, <4>1, <4>2
    <3>5. \A v \in Tab : /\ current'[v] # m /\ refresh'[v].token # m
                         /\ refresh'[v].pc = "rotated" /\ v # u => refresh'[v].issued # m
      BY <1>2, <1>3, <3>2, <3>3
    <3> QED BY <3>4, <3>5
  <2> QED BY <2>1, <2>2
<1>10. \A u \in Tab : u # t => \A s \in Session \cup {None} : Unrotated(u, s) => Unrotated(u, s)'
  BY <1>1, <1>4 DEF Unrotated
<1>11. OwnUnrotated'
  <2> SUFFICES ASSUME NEW u \in Tab, u # t
               PROVE  /\ refresh'[u].pc = "none" => Unrotated(u, stored)' /\ Unrotated(u, current[u])'
                      /\ refresh'[u].pc \in {"sent", "locked"} => Unrotated(u, refresh[u].token)'
    BY <1>3 DEF OwnUnrotated
  <2> QED BY <1>2, <1>3, <1>5, <1>10 DEF FlightInv, OwnUnrotated, Unrotated
<1> QED BY <1>8, <1>9, <1>11 DEF FlightInv

\* The promise settles: the tab takes the new token, or gives the old one up.
LEMMA SettleKeepsFlight ==
    ASSUME Types, FlightInv, NEW t \in Tab, RefreshSucceeded(t) \/ RefreshFailed(t)
    PROVE  FlightInv'
<1>1. PICK new : /\ stored' = new /\ current' = [current EXCEPT ![t] = new]
                 /\ new = None \/ (refresh[t].pc = "rotated" /\ new = refresh[t].issued)
  BY DEF RefreshSucceeded, RefreshFailed, SetSession, ClearSession
<1>2. /\ UNCHANGED sess /\ refresh' = [refresh EXCEPT ![t] = NoRefresh]
      /\ \A x \in Session : sess[x].from \in Session \cup {None}
  BY DEF RefreshSucceeded, RefreshFailed, Types, Row
<1>3. /\ refresh'[t].pc = "none" /\ refresh'[t].token = None
      /\ \A u \in Tab : u # t => refresh'[u] = refresh[u] /\ current'[u] = current[u]
      /\ current'[t] = new
  BY <1>1, <1>2 DEF Types, NoRefresh
<1>4. Used(None) /\ Used(new) /\ \A u \in Tab : refresh[u].pc = "rotated" => refresh[u].issued \in Session
  BY <1>1 DEF FlightInv, Issued, Used
<1>5. None \notin Session
  BY DEF Session, None
<1>6. Issued'
  BY <1>1, <1>2, <1>3, <1>4 DEF FlightInv, Issued, Used
<1>7. \A u \in Tab : refresh[u].pc = "rotated" /\ u # t => new # refresh[u].issued
  BY <1>1, <1>4, <1>5 DEF FlightInv, OnItsWay
<1>8. OnItsWay'
  BY <1>1, <1>2, <1>3, <1>4, <1>5, <1>7 DEF FlightInv, OnItsWay
<1>9. \A u \in Tab : Unrotated(u, new)
  BY <1>1 DEF FlightInv, OnItsWay, Unrotated
<1>10. OwnUnrotated'
  BY <1>1, <1>2, <1>3, <1>9 DEF FlightInv, OwnUnrotated, Unrotated
<1> QED BY <1>6, <1>8, <1>10 DEF FlightInv

\* Nobody has rotated anything at first.
LEMMA InitFlight == Init => FlightInv
BY DEF Init, FlightInv, Issued, OnItsWay, OwnUnrotated, Used, Unrotated, NoRow, NoRefresh

\* A call moves no token, but for the one that starts a refresh.
LEMMA CallKeepsFlight ==
    ASSUME Types, FlightInv, NEW c \in Call, CallStep(c) \/ CallFails(c)
    PROVE  FlightInv'
<1>0. TabOf[c] \in Tab
  BY SessionsAssumption
<1>1. CASE Refresh(c) /\ refresh[TabOf[c]].pc = "none"
  BY <1>0, <1>1, SendKeepsFlight DEF Refresh, StartRefresh
<1>2. CASE ~(Refresh(c) /\ refresh[TabOf[c]].pc = "none")
  <2>1. UNCHANGED refresh
    BY <1>2 DEF CallStep, CallFails, Begin, ServeRequest, ServeLogout, Refresh, RefreshWithout, RejectedAgain
  <2>2. \A x \in Session : /\ sess'[x].from = sess[x].from /\ sess'[x].by = sess[x].by
                           /\ sess[x].status # "none" => sess'[x].status # "none"
    <3>1. UNCHANGED sess \/ Revoke(call[c].token)
      BY DEF CallStep, CallFails, Begin, ServeRequest, ServeLogout, Refresh, RefreshWithout, RejectedAgain
    <3> QED BY <3>1 DEF Types, Row, Revoke
  <2>3. stored' \in {stored, None} /\ \A t \in Tab : current'[t] \in {current[t], None}
    <3>1. UNCHANGED <<current, stored>> \/ ClearSession(TabOf[c])
      BY DEF CallStep, CallFails, Begin, ServeRequest, ServeLogout, Refresh, RefreshWithout, RejectedAgain
    <3> QED BY <3>1 DEF Types, ClearSession, SetSession
  <2> QED BY <2>1, <2>2, <2>3, FlightStays
<1> QED BY <1>1, <1>2

\* A refresh keeps the account of the tokens, whichever way it goes.
LEMMA RefreshKeepsFlight ==
    ASSUME Types, Known, FlightInv, NEW t \in Tab,
           LockSession(t) \/ RefreshProceeds(t) \/ RefreshFails(t)
    PROVE  FlightInv'
<1>1. CASE Rotate(t)
  BY <1>1, RotateKeepsFlight
<1>2. CASE RefreshSucceeded(t) \/ RefreshFailed(t)
  BY <1>2, SettleKeepsFlight
<1>3. ASSUME LockSession(t) \/ NoneLeft(t) \/ RefreshFails(t)
      PROVE  FlightInv'
  <2>1. UNCHANGED <<sess, stored, current>>
    BY <1>3 DEF LockSession, NoneLeft, RefreshFails
  <2>2. \/ refresh' = [refresh EXCEPT ![t].pc = "failed"]
        \/ refresh[t].pc = "sent" /\ refresh' = [refresh EXCEPT ![t].pc = "locked"]
    BY <1>3 DEF LockSession, NoneLeft, RefreshFails
  <2>3. \A u \in Tab : /\ refresh'[u].token = refresh[u].token /\ refresh'[u].issued = refresh[u].issued
                       /\ \/ refresh'[u].pc \in {refresh[u].pc, "failed"}
                          \/ refresh[u].pc = "sent" /\ refresh'[u].pc = "locked"
    BY <2>2 DEF Types
  <2> QED BY <2>1, <2>3, FlightStays
<1> QED BY <1>1, <1>2, <1>3 DEF RefreshProceeds

\* Every step keeps it.
LEMMA NextKeepsFlight == IInv /\ FlightInv /\ [Next]_vars => FlightInv'
<1> SUFFICES ASSUME Types, Known, FlightInv, [Next]_vars PROVE FlightInv'
  BY DEF IInv
<1>1. ASSUME NEW s \in Session, AccessExpires(s) \/ SessionExpires(s)
      PROVE  FlightInv'
  <2>1. UNCHANGED <<stored, current, refresh>>
    BY <1>1 DEF AccessExpires, SessionExpires
  <2>2. \A x \in Session : /\ sess'[x].from = sess[x].from /\ sess'[x].by = sess[x].by
                           /\ sess'[x].status = sess[x].status
    BY <1>1 DEF AccessExpires, SessionExpires, Types, Row
  <2> QED BY <2>1, <2>2, FlightStays
<1>2. ASSUME NEW t \in Tab, Login(t)
      PROVE  FlightInv'
  BY <1>2, LoginKeepsFlight
<1>3. ASSUME NEW t \in Tab, Load(t)
      PROVE  FlightInv'
  <2>1. UNCHANGED <<sess, stored, refresh>> /\ refresh[t].pc = "none"
        /\ current' = [current EXCEPT ![t] = stored]
    BY <1>3 DEF Load
  <2>2. \A u \in Tab : current'[u] = current[u] \/ (current'[u] = stored /\ refresh[u].pc = "none")
    BY <2>1 DEF Types
  <2> QED BY <2>1, <2>2, FlightStays
<1>4. ASSUME NEW t \in Tab, LockSession(t) \/ RefreshProceeds(t) \/ RefreshFails(t)
      PROVE  FlightInv'
  BY <1>4, RefreshKeepsFlight
<1>5. ASSUME NEW c \in Call, CallStep(c) \/ CallFails(c)
      PROVE  FlightInv'
  BY <1>5, CallKeepsFlight
<1>6. CASE UNCHANGED vars
  <2>1. UNCHANGED <<sess, stored, current, refresh>>
    BY <1>6 DEF vars
  <2> QED BY <2>1, FlightStays
<1> QED BY <1>1, <1>2, <1>3, <1>4, <1>5, <1>6 DEF Next

(* A tab never presents a token that it has itself rotated, for any number of
   tabs, calls and faults (Sessions' SingleFlight). *)
THEOREM SingleFlightHolds == Spec => []SingleFlight
<1>1. Init => IInv /\ FlightInv
  BY InitEstablishes, InitFlight
<1>2. IInv /\ FlightInv /\ [Next]_vars => (IInv /\ FlightInv)'
  BY NextKeeps, NextKeepsFlight
<1>3. IInv /\ FlightInv => SingleFlight
  BY DEF IInv, Known, FlightInv, OwnUnrotated, Unrotated, SingleFlight, Session, None
<1> QED BY <1>1, <1>2, <1>3, PTL DEF Spec

-----------------------------------------------------------------------------
(* A logout that overlaps with no refresh of its tab ends the login there.    *)
(* The session the tab sends is then the only live one it has of that login   *)
(* (Aimed), because whatever it rotates a session into is on its way to the   *)
(* tab until the promise settles, and the predecessor leaves cache and        *)
(* storage when it does (Held).                                               *)

\* The live sessions of a login that a tab was issued.
Left(t, r) == {s \in Session : sess[s].status = "live" /\ sess[s].by = t /\ sess[s].root = r}

\* A tab has no other live session of the login of x, but for one whose reply
\* it waits for or has missed.
Tip(t, x) ==
    x # None => \A s \in Left(t, sess[x].root) :
                   s = x \/ (refresh[t].pc \in {"rotated", "failed"} /\ refresh[t].issued = s)
Held == \A t \in Tab : Tip(t, stored) /\ Tip(t, current[t])

CallRow == [pc : {"idle", "sent", "waiting", "ok", "error"}, attempt : {0, 1},
            bearer : Session \cup {None}, token : Session \cup {None}, overlapped : BOOLEAN]
CallType == [Call -> CallRow]

\* Calls carry tokens that were issued; the one on its way is live and no call has it.
Carried ==
    /\ call \in CallType
    /\ \A c \in Call : Used(call[c].token)
    /\ \A t \in Tab : refresh[t].pc = "rotated" =>
          /\ sess[refresh[t].issued].status = "live"
          /\ \A c \in Call : call[c].token # refresh[t].issued

Undisturbed(c) == Kind[c] = "logout" /\ call[c].pc = "sent" /\ ~call[c].overlapped
Aims(c) ==
    /\ refresh[TabOf[c]].pc = "none" /\ call[c].token \in Session
    /\ Left(TabOf[c], sess[call[c].token].root) \subseteq {call[c].token}
Aimed == \A c \in Call : Undisturbed(c) => Aims(c)

LogoutInv == Carried /\ Held /\ Aimed

\* Nobody is logged in at first, and no call has been made.
LEMMA InitLogout == Init => LogoutInv
<1> SUFFICES ASSUME Init PROVE LogoutInv
  OBVIOUS
<1>1. Carried
  BY DEF CallRow, CallType, Init, Carried, Idle, Used, NoRefresh, None
<1>2. Held /\ Aimed
  BY DEF Init, Held, Tip, Aimed, Undisturbed, Idle
<1> QED BY <1>1, <1>2 DEF LogoutInv

\* No row comes to life or changes hands.
RowsEnd ==
    \A x \in Session : /\ sess'[x].root = sess[x].root /\ sess'[x].by = sess[x].by
                       /\ sess'[x].status = "live" => sess[x].status = "live"
                       /\ sess[x].status # "none" => sess'[x].status # "none"

\* The other refreshes, and a reply on its way or missed, stay what they are.
RepliesStay(t) ==
    refresh[t].pc \in {"rotated", "failed"} =>
        refresh'[t].pc \in {"rotated", "failed"} /\ refresh'[t].issued = refresh[t].issued

(* Such a step leaves at most what was left. *)
LEMMA LeftShrinks ==
    ASSUME RowsEnd, NEW t, NEW x \in Session
    PROVE  Left(t, sess[x].root)' \subseteq Left(t, sess[x].root)
BY DEF RowsEnd, Left

(* A tip stays one. *)
LEMMA TipStays ==
    ASSUME RowsEnd, NEW t \in Tab, RepliesStay(t), NEW x \in Session \cup {None}, Tip(t, x)
    PROVE  Tip(t, x)'
<1> SUFFICES ASSUME x # None, NEW s \in Left(t, sess[x].root)'
             PROVE  s = x \/ (refresh'[t].pc \in {"rotated", "failed"} /\ refresh'[t].issued = s)
  BY DEF Tip
<1>1. x \in Session
  OBVIOUS
<1>2. s \in Left(t, sess[x].root)
  BY <1>1, LeftShrinks
<1>3. s = x \/ (refresh[t].pc \in {"rotated", "failed"} /\ refresh[t].issued = s)
  BY <1>2 DEF Tip
<1> QED BY <1>3 DEF RepliesStay

(* No tab loses sight of its session when rows only end and caches are cleared
   or loaded. *)
LEMMA HeldStays ==
    ASSUME Types, Held, RowsEnd, stored' \in {stored, None},
           \A t \in Tab : /\ RepliesStay(t)
                          /\ current'[t] \in {current[t], stored, None}
    PROVE  Held'
<1>1. stored \in Session \cup {None} /\ \A t \in Tab : current[t] \in Session \cup {None}
  BY DEF Types
<1> SUFFICES ASSUME NEW t \in Tab PROVE Tip(t, stored)' /\ Tip(t, current[t])'
  BY DEF Held
<1>2. /\ \A s : s = stored => s \in Session \cup {None} /\ Tip(t, s)
      /\ \A s : s = current[t] => s \in Session \cup {None} /\ Tip(t, s)
      /\ Tip(t, None) /\ None \in Session \cup {None}
  BY <1>1 DEF Held, Tip
<1>3. PICK a \in Session \cup {None} : a = stored' /\ Tip(t, a)
  BY <1>2
<1>4. PICK b \in Session \cup {None} : b = current'[t] /\ Tip(t, b)
  BY <1>2
<1>5. Tip(t, a)' /\ Tip(t, b)'
  BY <1>3, <1>4, TipStays
<1> QED BY <1>3, <1>4, <1>5 DEF Tip

\* A call that was sent and is still under way aims at what it did.
LEMMA AimStays ==
    ASSUME RowsEnd, NEW c \in Call, Aims(c),
           call'[c].token = call[c].token, refresh'[TabOf[c]].pc = "none"
    PROVE  Aims(c)'
<1>1. Left(TabOf[c], sess[call[c].token].root)' \subseteq Left(TabOf[c], sess[call[c].token].root)
  BY LeftShrinks DEF Aims, RowsEnd
<1> QED BY <1>1 DEF Aims

\* What a step that accepts no reply does to a call: it is sent with the session
\* of its tab, or it is no longer sent, or it still is, and learns of a refresh.
Sends(c) ==
    /\ Kind[c] = "logout" /\ refresh[TabOf[c]].pc # "none" => call'[c].overlapped
    /\ refresh'[TabOf[c]].pc = refresh[TabOf[c]].pc
    /\ call'[c].token = current[TabOf[c]] /\ current[TabOf[c]] # None
IsSettled(c) == call'[c].pc # "sent" /\ call'[c].token \in {None, call[c].token}
StaysSent(c) ==
    /\ call[c].pc = "sent" /\ call'[c].token = call[c].token
    /\ call[c].overlapped => call'[c].overlapped
    /\ Kind[c] = "logout" /\ refresh[TabOf[c]].pc = "none" /\ refresh'[TabOf[c]].pc # "none"
       => call'[c].overlapped
CallMoves(c) == Sends(c) \/ IsSettled(c) \/ StaysSent(c)

(* In such a step nothing changes for a logout that is under way. *)
LEMMA AimedStays ==
    ASSUME Types, Held, Aimed, RowsEnd, \A c \in Call : CallMoves(c)
    PROVE  Aimed'
<1> SUFFICES ASSUME NEW c \in Call, Undisturbed(c)' PROVE Aims(c)'
  BY DEF Aimed
<1> DEFINE t == TabOf[c]
<1>0. t \in Tab
  BY SessionsAssumption
<1>1. Kind[c] = "logout" /\ call'[c].pc = "sent" /\ ~call'[c].overlapped
  BY DEF Undisturbed
<1>2. CASE Sends(c)
  <2>1. refresh[t].pc = "none" /\ refresh'[t].pc = "none" /\ call'[c].token = current[t]
    BY <1>1, <1>2 DEF Sends
  <2>2. current[t] \in Session /\ current[t] # None
    BY <1>0, <1>2 DEF Sends, Types
  <2>3. Left(t, sess[current[t]].root) \subseteq {current[t]}
    BY <1>0, <2>1, <2>2 DEF Held, Tip
  <2>4. PICK x \in Session : x = current[t] /\ call'[c].token = x
    BY <2>1, <2>2
  <2>5. \A s \in Session : sess'[s].status = "live" /\ sess'[s].by = t
                           /\ sess'[s].root = sess'[x].root => s = x
    BY <2>3, <2>4 DEF RowsEnd, Left
  <2>6. Aims(c)'
    BY <2>1, <2>4, <2>5 DEF Aims, Left
  <2> QED BY <2>6
<1>3. CASE IsSettled(c)
  BY <1>1, <1>3 DEF IsSettled
<1>4. CASE StaysSent(c)
  <2>1. Undisturbed(c)
    BY <1>1, <1>4 DEF StaysSent, Undisturbed
  <2>2. Aims(c)
    BY <2>1 DEF Aimed
  <2>3. refresh'[t].pc = "none" /\ call'[c].token = call[c].token
    BY <1>1, <1>4, <2>2 DEF StaysSent, Aims
  <2> QED BY <2>2, <2>3, AimStays
<1> QED BY <1>2, <1>3, <1>4 DEF CallMoves

(* Nor for the tokens of the calls. *)
LEMMA CarriedStays ==
    ASSUME Types, FlightInv, Carried, RowsEnd, call' \in CallType,
           \A c \in Call : CallMoves(c),
           \A t \in Tab : refresh'[t].pc = "rotated" =>
              /\ refresh[t].pc = "rotated" /\ refresh'[t].issued = refresh[t].issued
              /\ sess'[refresh[t].issued].status = "live"
    PROVE  Carried'
<1>1. ASSUME NEW c \in Call
      PROVE  \/ call'[c].token = None
             \/ call'[c].token = call[c].token
             \/ call'[c].token = current[TabOf[c]]
  BY DEF CallMoves, Sends, IsSettled, StaysSent
<1>2. ASSUME NEW c \in Call
      PROVE  Used(call[c].token)'
  <2>1. Used(call[c].token) /\ Used(current[TabOf[c]]) /\ call'[c].token \in Session \cup {None}
    BY SessionsAssumption DEF CallRow, Carried, FlightInv, Issued, CallType
  <2>2. call'[c].token # None => sess[call'[c].token].status # "none"
    BY <1>1, <2>1 DEF Used
  <2> QED BY <2>1, <2>2 DEF Used, RowsEnd
<1>3. ASSUME NEW t \in Tab, refresh'[t].pc = "rotated", NEW c \in Call
      PROVE  call'[c].token # refresh'[t].issued
  <2>1. /\ refresh[t].pc = "rotated" /\ refresh'[t].issued = refresh[t].issued
        /\ refresh[t].issued \in Session
    BY <1>3 DEF FlightInv, Issued
  <2>2. call[c].token # refresh[t].issued /\ current[TabOf[c]] # refresh[t].issued
        /\ None # refresh[t].issued
    BY <2>1, SessionsAssumption DEF Carried, FlightInv, OnItsWay, Session, None
  <2> QED BY <1>1, <2>1, <2>2
<1> QED BY <1>2, <1>3 DEF Carried, CallType

\* A call nobody touches, in a tab that starts no refresh, moves in that sense.
LEMMA CallStays ==
    ASSUME NEW c \in Call, call'[c] = call[c],
           refresh[TabOf[c]].pc = "none" => refresh'[TabOf[c]].pc = "none"
    PROVE  CallMoves(c)
BY DEF CallMoves, IsSettled, StaysSent

\* A revocation ends a row, or none.
LEMMA RevokeEnds ==
    ASSUME Types, NEW s, Revoke(s) \/ UNCHANGED sess
    PROVE  RowsEnd /\ \A x \in Session : x # s => sess'[x] = sess[x]
BY DEF Types, Row, Revoke, RowsEnd

\* A call of the client moves itself, and a refresh it starts is known to the others.
LEMMA CallsMove ==
    ASSUME Types, Carried, NEW c \in Call, CallStep(c) \/ CallFails(c)
    PROVE  call' \in CallType /\ \A x \in Call : CallMoves(x)
<1> DEFINE t == TabOf[c]
<1>0. t \in Tab /\ current[t] \in Session \cup {None} /\ call \in CallType
  BY SessionsAssumption DEF CallRow, Types, Carried, CallType
<1>1. CASE Begin(c)
  <2> DEFINE new == Sent(0, current[t], Kind[c] = "logout" /\ refresh[t].pc # "none")
  <2>1. UNCHANGED refresh /\ call' = [call EXCEPT ![c] = new] /\ current[t] # None
    BY <1>1 DEF Begin
  <2>2. /\ new \in CallRow
        /\ new.token = current[t] /\ new.overlapped = (Kind[c] = "logout" /\ refresh[t].pc # "none")
    BY <1>0 DEF CallRow, Sent
  <2> HIDE DEF new
  <2>3. call' \in CallType
    BY <1>0, <2>1, <2>2 DEF CallRow, CallType
  <2>4. CallMoves(c)
    BY <1>0, <2>1, <2>2 DEF CallRow, CallMoves, Sends, CallType
  <2>5. \A x \in Call : x # c => CallMoves(x)
    BY <1>0, <2>1, CallStays DEF CallRow, CallType
  <2> QED BY <2>3, <2>4, <2>5
<1>2. CASE Refresh(c) /\ StartRefresh(c)
  <2>1. \A u \in Tab : u # t => refresh'[u] = refresh[u]
    BY <1>2 DEF StartRefresh, Types
  <2>2. call' \in CallType
    BY <1>0, <1>2 DEF CallRow, StartRefresh, CallType
  <2>3. CallMoves(c)
    BY <1>0, <1>2 DEF CallRow, StartRefresh, CallMoves, IsSettled, CallType
  <2>4. ASSUME NEW x \in Call, x # c
        PROVE  CallMoves(x)
    <3>1. /\ call'[x].pc = call[x].pc /\ call'[x].token = call[x].token
          /\ call'[x].overlapped = (call[x].overlapped
                 \/ (TabOf[x] = t /\ Kind[x] = "logout" /\ call[x].pc = "sent"))
      BY <1>0, <1>2, <2>4 DEF CallRow, StartRefresh, CallType
    <3>2. TabOf[x] \in Tab
      BY SessionsAssumption
    <3> QED BY <2>1, <3>1, <3>2 DEF CallMoves, IsSettled, StaysSent
  <2> QED BY <2>2, <2>3, <2>4
<1>3. CASE ~Begin(c) /\ ~(Refresh(c) /\ StartRefresh(c))
  <2>1. UNCHANGED refresh
    BY <1>3 DEF CallStep, CallFails, ServeRequest, ServeLogout, Refresh, RefreshWithout, RejectedAgain
  <2>2. \E p \in {"ok", "error", "waiting"} :
           call' = [call EXCEPT ![c] = [Idle EXCEPT !.pc = p]] \/ call' = [call EXCEPT ![c].pc = p]
    BY <1>3 DEF CallStep, CallFails, ServeRequest, ServeLogout, Refresh, RefreshWithout, RejectedAgain,
                Ends, Wait
  <2>3. PICK p \in {"ok", "error", "waiting"} :
           call' = [call EXCEPT ![c] = [Idle EXCEPT !.pc = p]] \/ call' = [call EXCEPT ![c].pc = p]
    BY <2>2
  <2>4. CASE call' = [call EXCEPT ![c] = [Idle EXCEPT !.pc = p]]
    <3> DEFINE new == [Idle EXCEPT !.pc = p]
    <3>1. /\ new \in CallRow
          /\ new.token = None /\ new.pc = p
          /\ call' = [call EXCEPT ![c] = new]
      BY <2>3, <2>4 DEF CallRow, Idle
    <3> HIDE DEF new
    <3>2. call' \in CallType /\ call'[c] = new /\ \A x \in Call : x # c => call'[x] = call[x]
      BY <1>0, <3>1 DEF CallRow, CallType
    <3> QED BY <2>1, <2>3, <3>1, <3>2, CallStays DEF CallMoves, IsSettled
  <2>5. CASE call' = [call EXCEPT ![c].pc = p]
    <3>1. call' \in CallType
      BY <1>0, <2>3, <2>5 DEF CallRow, CallType
    <3>2. call'[c].pc = p /\ call'[c].token = call[c].token /\ \A x \in Call : x # c => call'[x] = call[x]
      BY <1>0, <2>5 DEF CallRow, CallType
    <3> QED BY <2>1, <2>3, <3>1, <3>2, CallStays DEF CallMoves, IsSettled
  <2> QED BY <2>3, <2>4, <2>5
<1> QED BY <1>1, <1>2, <1>3

\* No call revokes the session whose reply is on its way.
LEMMA CallKeepsLogout ==
    ASSUME Types, FlightInv, LogoutInv, NEW c \in Call, CallStep(c) \/ CallFails(c)
    PROVE  LogoutInv'
<1>0. TabOf[c] \in Tab
  BY SessionsAssumption
<1>1. call' \in CallType /\ \A x \in Call : CallMoves(x)
  BY CallsMove DEF LogoutInv
<1>2. Revoke(call[c].token) \/ UNCHANGED sess
  BY DEF CallStep, CallFails, Begin, ServeRequest, ServeLogout, Refresh, RefreshWithout, RejectedAgain
<1>3. RowsEnd /\ \A x \in Session : x # call[c].token => sess'[x] = sess[x]
  BY <1>2, RevokeEnds
<1>4. \/ UNCHANGED refresh
      \/ /\ refresh[TabOf[c]].pc = "none"
         /\ refresh' = [refresh EXCEPT ![TabOf[c]] =
                            [pc |-> "sent", token |-> current[TabOf[c]], issued |-> None]]
  BY DEF CallStep, CallFails, Begin, ServeRequest, ServeLogout, Refresh, RefreshWithout, RejectedAgain,
         StartRefresh
<1>5. ASSUME NEW t \in Tab
      PROVE  /\ RepliesStay(t)
             /\ refresh'[t].pc = "rotated" =>
                   refresh[t].pc = "rotated" /\ refresh'[t].issued = refresh[t].issued
  BY <1>0, <1>4 DEF Types, RepliesStay
<1>6. stored' \in {stored, None} /\ \A t \in Tab : current'[t] \in {current[t], None}
  <2>1. UNCHANGED <<current, stored>> \/ ClearSession(TabOf[c])
    BY DEF CallStep, CallFails, Begin, ServeRequest, ServeLogout, Refresh, RefreshWithout, RejectedAgain
  <2> QED BY <2>1 DEF Types, ClearSession, SetSession
<1>7. Held'
  BY <1>3, <1>5, <1>6, HeldStays DEF LogoutInv
<1>8. Aimed'
  BY <1>1, <1>3, AimedStays DEF LogoutInv
<1>9. \A t \in Tab : refresh[t].pc = "rotated" => sess'[refresh[t].issued].status = "live"
  BY <1>3 DEF LogoutInv, Carried, FlightInv, Issued
<1>10. Carried'
  BY <1>1, <1>3, <1>5, <1>9, CarriedStays DEF LogoutInv
<1> QED BY <1>7, <1>8, <1>10 DEF LogoutInv

(* A step of time or of a refresh, or a page load, that issues no session and
   ends no refresh. *)
LEMMA QuietKeepsLogout ==
    ASSUME Types, FlightInv, LogoutInv, RowsEnd, UNCHANGED <<stored, call>>,
           \A x \in Session : sess'[x].status = sess[x].status,
           \A t \in Tab : /\ current'[t] \in {current[t], stored}
                          /\ refresh[t].pc = "none" => refresh'[t].pc = "none"
                          /\ RepliesStay(t)
                          /\ refresh'[t].pc = "rotated" =>
                                refresh[t].pc = "rotated" /\ refresh'[t].issued = refresh[t].issued
    PROVE  LogoutInv'
<1>1. call' \in CallType /\ \A c \in Call : CallMoves(c)
  BY CallStays, SessionsAssumption DEF LogoutInv, Carried, CallType
<1>2. Held'
  BY HeldStays DEF LogoutInv
<1>3. Aimed'
  BY <1>1, AimedStays DEF LogoutInv
<1>4. \A t \in Tab : refresh[t].pc = "rotated" => sess'[refresh[t].issued].status = "live"
  BY DEF LogoutInv, Carried, FlightInv, Issued
<1>5. Carried'
  BY <1>1, <1>4, CarriedStays DEF LogoutInv
<1> QED BY <1>2, <1>3, <1>5 DEF LogoutInv

\* A login issues a session of a chain of its own.
LEMMA LoginKeepsLogout ==
    ASSUME IInv, FlightInv, LogoutInv, NEW t \in Tab, Login(t)
    PROVE  LogoutInv'
<1>1. PICK n \in Session, row \in Row :
        /\ sess[n].status = "none" /\ row.status = "live" /\ row.root = n
        /\ sess' = [sess EXCEPT ![n] = row]
        /\ stored' = n /\ current' = [current EXCEPT ![t] = n]
        /\ UNCHANGED <<refresh, call>>
  <2>1. NewId \in Session /\ sess[NewId].status = "none"
    BY NewIdIsNew DEF Login
  <2>2. /\ Issue(NewId, None, t) \in Row
        /\ Issue(NewId, None, t).status = "live" /\ Issue(NewId, None, t).root = NewId
    BY <2>1 DEF Issue, NoRow, Row, None
  <2> QED BY <2>1, <2>2 DEF Login, SetSession
<1>2. /\ sess'[n] = row /\ \A x \in Session : x # n => sess'[x] = sess[x]
      /\ \A u \in Tab : u # t => current'[u] = current[u]
  BY <1>1 DEF IInv, Types
<1>3. \A x \in Session : sess[x].status # "none" => sess[x].root # n /\ x # n
  BY <1>1 DEF IInv, Roots
<1>4. ASSUME NEW x \in Session, sess[x].status # "none", NEW u
      PROVE  x # n /\ \A s : s \in Left(u, sess[x].root)' => s \in Left(u, sess[x].root)
  BY <1>1, <1>2, <1>3, <1>4 DEF Left
<1>5. ASSUME NEW u \in Tab
      PROVE  Tip(u, stored)' /\ Tip(u, current[u])'
  <2>1. \A s : s \in Left(u, sess[n].root)' => s = n
    BY <1>1, <1>2, <1>3 DEF Left
  <2>2. Tip(u, stored)'
    BY <1>1, <2>1 DEF Tip, Left
  <2>3. CASE u = t
    BY <1>1, <2>2, <2>3 DEF IInv, Types
  <2>4. CASE u # t /\ current[u] # None
    <3>1. PICK x \in Session : x = current[u]
      BY <2>4 DEF IInv, Types
    <3>2. sess[x].status # "none" /\ Tip(u, x)
      BY <2>4, <3>1 DEF FlightInv, Issued, Used, LogoutInv, Held
    <3>3. Tip(u, x)'
      BY <1>1, <1>4, <3>1, <3>2, <2>4 DEF Tip, Left
    <3>4. x = current'[u]
      BY <1>2, <2>4, <3>1
    <3> QED BY <2>2, <3>3, <3>4 DEF Tip
  <2>5. CASE u # t /\ current[u] = None
    <3>1. current'[u] = None
      BY <1>2, <2>5
    <3> QED BY <2>2, <3>1 DEF Tip
  <2> QED BY <2>2, <2>3, <2>4, <2>5
<1>6. Aimed'
  <2> SUFFICES ASSUME NEW c \in Call, Undisturbed(c)' PROVE Aims(c)'
    BY DEF Aimed
  <2>1. Aims(c) /\ call[c].token \in Session
    BY <1>1 DEF LogoutInv, Aimed, Undisturbed, Aims
  <2>2. sess[call[c].token].status # "none"
    BY <2>1 DEF LogoutInv, Carried, Used, Session, None
  <2> QED BY <1>1, <1>4, <2>1, <2>2 DEF Aims, Left
<1>7. Carried'
  <2>1. \A u \in Tab : refresh[u].pc = "rotated" => /\ sess[refresh[u].issued].status = "live"
                                                    /\ refresh[u].issued \in Session
    BY DEF FlightInv, Issued, LogoutInv, Carried
  <2>2. \A c \in Call : Used(call[c].token)'
    BY <1>1, <1>2 DEF LogoutInv, Carried, Used
  <2>3. \A u \in Tab : refresh[u].pc = "rotated" => sess'[refresh[u].issued].status = "live"
    BY <1>1, <1>2, <2>1
  <2> QED BY <1>1, <2>2, <2>3 DEF LogoutInv, Carried
<1> QED BY <1>5, <1>6, <1>7 DEF LogoutInv, Held

\* A rotation gives the tab a second live session for as long as it waits for it.
LEMMA RotateKeepsLogout ==
    ASSUME IInv, FlightInv, LogoutInv, NEW t \in Tab, Rotate(t)
    PROVE  LogoutInv'
<1> DEFINE old == refresh[t].token
<1>0. old \in Session /\ sess[old].status = "live" /\ refresh[t].pc = "locked" /\ sess[old].root \in Session
  BY DEF IInv, Rotate, Known, Locks, Roots
<1>1. PICK n \in Session, row \in Row :
        /\ sess[n].status = "none" /\ row.status = "live" /\ row.by = t
        /\ sess' = [sess EXCEPT ![old].status = "revoked", ![n] = row]
        /\ refresh' = [refresh EXCEPT ![t].pc = "rotated", ![t].issued = n]
        /\ UNCHANGED <<stored, current, call>>
  <2>1. NewId \in Session /\ sess[NewId].status = "none"
    BY NewIdIsNew DEF Rotate
  <2>2. /\ Issue(sess[old].root, old, t) \in Row
        /\ Issue(sess[old].root, old, t).status = "live" /\ Issue(sess[old].root, old, t).by = t
    BY <1>0 DEF Issue, NoRow, Row, None
  <2> QED BY <2>1, <2>2 DEF Rotate
<1>2. /\ sess'[n] = row
      /\ \A x \in Session : x # n =>
            /\ sess'[x].root = sess[x].root /\ sess'[x].by = sess[x].by
            /\ sess'[x].status = IF x = old THEN "revoked" ELSE sess[x].status
  BY <1>0, <1>1 DEF IInv, Types, Row
<1>3. /\ refresh'[t].pc = "rotated" /\ refresh'[t].issued = n
      /\ \A u \in Tab : u # t => refresh'[u] = refresh[u]
  BY <1>1 DEF IInv, Types
<1>4. ASSUME NEW x \in Session, sess[x].status # "none", NEW u
      PROVE  \A s \in Left(u, sess[x].root)' : s \in Left(u, sess[x].root) \/ (s = n /\ u = t)
  BY <1>1, <1>2, <1>4 DEF Left
<1>5. ASSUME NEW u \in Tab, NEW x \in Session \cup {None}, Used(x), Tip(u, x)
      PROVE  Tip(u, x)'
  <2> SUFFICES ASSUME x # None, NEW s \in Left(u, sess[x].root)'
               PROVE  s = x \/ (refresh'[u].pc \in {"rotated", "failed"} /\ refresh'[u].issued = s)
    BY DEF Tip
  <2>1. CASE s = n /\ u = t
    BY <1>3, <2>1
  <2>2. CASE s \in Left(u, sess[x].root)
    <3>1. s = x \/ (refresh[u].pc \in {"rotated", "failed"} /\ refresh[u].issued = s)
      BY <1>5, <2>2 DEF Tip
    <3> QED BY <1>0, <1>3, <3>1
  <2> QED BY <1>4, <1>5, <2>1, <2>2 DEF Used
<1>6. Held'
  <2>1. \A u \in Tab : Tip(u, stored)' /\ Tip(u, current[u])'
    <3> TAKE u \in Tab
    <3>1. PICK a \in Session \cup {None} : a = stored
      BY DEF IInv, Types
    <3>2. PICK b \in Session \cup {None} : b = current[u]
      BY DEF IInv, Types
    <3>3. Used(a) /\ Used(b) /\ Tip(u, a) /\ Tip(u, b)
      BY <3>1, <3>2 DEF FlightInv, Issued, LogoutInv, Held
    <3>4. Tip(u, a)' /\ Tip(u, b)'
      BY <1>5, <3>3
    <3>5. a = stored' /\ b = current'[u]
      BY <1>1, <3>1, <3>2
    <3> QED BY <3>4, <3>5 DEF Tip
  <2> QED BY <2>1 DEF Held
<1>7. Aimed'
  <2> SUFFICES ASSUME NEW c \in Call, Undisturbed(c)' PROVE Aims(c)'
    BY DEF Aimed
  <2>1. Aims(c) /\ call[c].token \in Session
    BY <1>1 DEF LogoutInv, Aimed, Undisturbed, Aims
  <2>2. PICK x \in Session : x = call[c].token
    BY <2>1
  <2>3. sess[x].status # "none" /\ TabOf[c] # t /\ TabOf[c] \in Tab
    BY <1>0, <2>1, <2>2, SessionsAssumption DEF LogoutInv, Carried, Used, Aims, Session, None
  <2>4. Left(TabOf[c], sess[x].root)' \subseteq {x}
    BY <1>4, <2>1, <2>2, <2>3 DEF Aims
  <2>5. x = call'[c].token /\ refresh'[TabOf[c]].pc = "none"
    BY <1>1, <1>3, <2>1, <2>2, <2>3 DEF Aims
  <2> QED BY <2>4, <2>5 DEF Aims
<1>8. Carried'
  <2>1. \A c \in Call : call[c].token \in Session \cup {None} /\ call[c].token # n /\ Used(call[c].token)
    BY <1>1 DEF CallRow, CallType, LogoutInv, Carried, Used, Session, None
  <2>2. \A c \in Call : Used(call[c].token)'
    <3>1. \A x \in Session : x # n /\ sess[x].status # "none" => sess'[x].status # "none"
      BY <1>2
    <3>2. UNCHANGED call
      BY <1>1
    <3> QED BY <2>1, <3>1, <3>2 DEF Used
  <2>3. ASSUME NEW u \in Tab, refresh'[u].pc = "rotated"
        PROVE  /\ sess'[refresh'[u].issued].status = "live"
               /\ \A c \in Call : call'[c].token # refresh'[u].issued
    <3>1. CASE u = t
      BY <1>1, <1>2, <1>3, <2>1, <3>1
    <3>2. CASE u # t
      <4>1. /\ refresh[u].pc = "rotated" /\ refresh'[u].issued = refresh[u].issued
            /\ refresh[u].issued \in Session /\ sess[refresh[u].issued].status = "live"
            /\ refresh[u].issued # old
        BY <1>3, <2>3, <3>2 DEF FlightInv, Issued, OnItsWay, LogoutInv, Carried
      <4>2. refresh[u].issued # n
        BY <1>1, <4>1
      <4>3. sess'[refresh[u].issued].status = "live"
        BY <1>2, <4>1, <4>2
      <4>4. \A c \in Call : call'[c].token # refresh[u].issued
        BY <1>1, <4>1 DEF LogoutInv, Carried
      <4> QED BY <4>1, <4>3, <4>4
    <3> QED BY <3>1, <3>2
  <2> QED BY <1>1, <2>2, <2>3 DEF LogoutInv, Carried
<1> QED BY <1>6, <1>7, <1>8 DEF LogoutInv

\* When the promise settles, the tab and the storage have the live session of
\* the login, or none.
LEMMA SettleKeepsLogout ==
    ASSUME IInv, FlightInv, LogoutInv, NEW t \in Tab, RefreshSucceeded(t) \/ RefreshFailed(t)
    PROVE  LogoutInv'
<1>0. /\ stored \in Session \cup {None} /\ call \in CallType
      /\ \A u \in Tab : current[u] \in Session \cup {None}
      /\ refresh[t].pc \in {"rotated", "failed"}
  BY DEF CallRow, IInv, Types, LogoutInv, Carried, CallType, RefreshSucceeded, RefreshFailed
<1>1. PICK new \in Session \cup {None} :
        /\ stored' = new /\ current' = [current EXCEPT ![t] = new]
        /\ refresh' = [refresh EXCEPT ![t] = NoRefresh] /\ UNCHANGED sess
        /\ new # None => sess[new].status = "live" /\ new = refresh[t].issued /\ refresh[t].pc = "rotated"
        /\ \A c \in Call : \/ call'[c] = call[c] /\ call[c].pc # "waiting"
                           \/ call'[c] = call[c] /\ TabOf[c] # t
                           \/ call'[c] = Sent(1, new, FALSE) /\ TabOf[c] = t /\ new # None
                           \/ call'[c] = [Idle EXCEPT !.pc = "error"]
        /\ call' = [c \in Call |-> call'[c]]
  <2>1. CASE RefreshSucceeded(t)
    <3>1. refresh[t].issued \in Session /\ sess[refresh[t].issued].status = "live"
      BY <2>1 DEF RefreshSucceeded, FlightInv, Issued, LogoutInv, Carried
    <3>2. refresh[t].issued # None
      BY <3>1 DEF Session, None
    <3> QED BY <2>1, <3>1, <3>2 DEF RefreshSucceeded, SetSession, Waiting
  <2>2. CASE RefreshFailed(t)
    BY <2>2 DEF RefreshFailed, ClearSession, SetSession, Waiting
  <2> QED BY <2>1, <2>2
<1>2. /\ refresh'[t].pc = "none" /\ \A u \in Tab : u # t => refresh'[u] = refresh[u]
      /\ current'[t] = new /\ \A u \in Tab : u # t => current'[u] = current[u]
  BY <1>1 DEF IInv, Types, NoRefresh
<1>3. ASSUME new # None, NEW u
      PROVE  Left(u, sess[new].root) \subseteq {new}
  BY <1>1, <1>3 DEF Left, IInv, OneLivePerLogin
<1>4. ASSUME NEW u \in Tab
      PROVE  Tip(u, stored)' /\ Tip(u, current[u])'
  <2>1. Tip(u, new)'
    BY <1>1, <1>3 DEF Tip, Left
  <2>2. Tip(u, stored)'
    BY <1>1, <2>1 DEF Tip
  <2>3. CASE u = t
    BY <1>2, <2>1, <2>2, <2>3 DEF Tip
  <2>4. CASE u # t
    <3>1. Tip(u, current[u]) /\ current'[u] = current[u] /\ refresh'[u] = refresh[u]
      BY <1>2, <2>4 DEF LogoutInv, Held
    <3>2. Tip(u, current[u])'
      BY <1>1, <3>1 DEF Tip, Left
    <3> QED BY <2>2, <3>2
  <2> QED BY <2>3, <2>4
<1>5. Aimed'
  <2> SUFFICES ASSUME NEW c \in Call, Undisturbed(c)' PROVE Aims(c)'
    BY DEF Aimed
  <2>0. TabOf[c] \in Tab
    BY SessionsAssumption
  <2>1. CASE call'[c] = call[c]
    <3>1. Aims(c)
      BY <2>1 DEF LogoutInv, Aimed, Undisturbed
    <3>2. TabOf[c] # t
      BY <1>0, <3>1 DEF Aims
    <3> QED BY <1>1, <1>2, <2>0, <2>1, <3>1, <3>2 DEF Aims, Left
  <2>2. CASE call'[c] = Sent(1, new, FALSE) /\ TabOf[c] = t /\ new # None
    <3>1. call'[c].token = new /\ refresh'[TabOf[c]].pc = "none" /\ new \in Session
      BY <1>1, <1>2, <2>2 DEF Sent
    <3>2. Left(t, sess[new].root) \subseteq {new}
      BY <1>3, <2>2
    <3> QED BY <1>1, <2>2, <3>1, <3>2 DEF Aims, Left
  <2>3. CASE call'[c] = [Idle EXCEPT !.pc = "error"]
    BY <2>3 DEF Undisturbed, Idle
  <2> QED BY <1>1, <2>1, <2>2, <2>3
<1>6. Carried'
  <2>1. ASSUME NEW c \in Call
        PROVE  /\ call'[c] \in CallRow
               /\ call'[c].token = call[c].token \/ call'[c].token = new \/ call'[c].token = None
    <3>1. call[c] \in CallRow
      BY <1>0 DEF CallRow, CallType
    <3>2. CASE call'[c] = call[c]
      BY <3>1, <3>2
    <3>3. CASE call'[c] = Sent(1, new, FALSE)
      BY <1>1, <3>3 DEF CallRow, Sent
    <3>4. CASE call'[c] = [Idle EXCEPT !.pc = "error"]
      BY <3>4 DEF CallRow, Idle
    <3> QED BY <1>1, <3>2, <3>3, <3>4
  <2>2. call' \in CallType
    BY <1>1, <2>1 DEF CallType
  <2>3. \A c \in Call : Used(call[c].token)'
    BY <1>1, <2>1 DEF LogoutInv, Carried, Used
  <2>4. ASSUME NEW u \in Tab, refresh'[u].pc = "rotated"
        PROVE  /\ sess'[refresh'[u].issued].status = "live"
               /\ \A c \in Call : call'[c].token # refresh'[u].issued
    <3>1. /\ u # t /\ refresh'[u] = refresh[u] /\ refresh[u].pc = "rotated"
          /\ refresh[u].issued \in Session
      BY <1>2, <2>4 DEF FlightInv, Issued
    <3>2. refresh[u].issued # None
      BY <3>1 DEF Session, None
    <3>3. refresh[u].issued # new
      BY <1>1, <3>1, <3>2 DEF FlightInv, OnItsWay
    <3>4. sess[refresh[u].issued].status = "live" /\ \A c \in Call : call[c].token # refresh[u].issued
      BY <3>1 DEF LogoutInv, Carried
    <3> QED BY <1>1, <2>1, <3>1, <3>2, <3>3, <3>4
  <2> QED BY <2>2, <2>3, <2>4 DEF Carried, CallType
<1> QED BY <1>4, <1>5, <1>6 DEF LogoutInv, Held

\* Every step keeps it.
LEMMA NextKeepsLogout == IInv /\ FlightInv /\ LogoutInv /\ [Next]_vars => LogoutInv'
<1> SUFFICES ASSUME IInv, FlightInv, LogoutInv, [Next]_vars PROVE LogoutInv'
  OBVIOUS
<1>0. Types
  BY DEF IInv
<1>1. ASSUME NEW s \in Session, AccessExpires(s) \/ SessionExpires(s)
      PROVE  LogoutInv'
  <2>1. UNCHANGED <<stored, current, refresh, call>>
    BY <1>1 DEF AccessExpires, SessionExpires
  <2>2. \A x \in Session : /\ sess'[x].root = sess[x].root /\ sess'[x].by = sess[x].by
                           /\ sess'[x].status = sess[x].status
    BY <1>0, <1>1 DEF AccessExpires, SessionExpires, Types, Row
  <2> QED BY <1>0, <2>1, <2>2, QuietKeepsLogout DEF RowsEnd, RepliesStay
<1>2. ASSUME NEW t \in Tab, Login(t) \/ Rotate(t) \/ RefreshSucceeded(t) \/ RefreshFailed(t)
      PROVE  LogoutInv'
  BY <1>2, LoginKeepsLogout, RotateKeepsLogout, SettleKeepsLogout
<1>3. ASSUME NEW t \in Tab, Load(t)
      PROVE  LogoutInv'
  <2>1. UNCHANGED <<sess, stored, refresh, call>> /\ current' = [current EXCEPT ![t] = stored]
    BY <1>3 DEF Load
  <2>2. \A u \in Tab : current'[u] \in {current[u], stored}
    BY <1>0, <2>1 DEF Types
  <2> QED BY <1>0, <2>1, <2>2, QuietKeepsLogout DEF RowsEnd, RepliesStay
<1>4. ASSUME NEW t \in Tab, LockSession(t) \/ NoneLeft(t) \/ RefreshFails(t)
      PROVE  LogoutInv'
  <2>1. UNCHANGED <<sess, stored, current, call>>
    BY <1>4 DEF LockSession, NoneLeft, RefreshFails
  <2>2. /\ refresh[t].pc # "none"
        /\ \/ refresh' = [refresh EXCEPT ![t].pc = "failed"]
           \/ refresh[t].pc = "sent" /\ refresh' = [refresh EXCEPT ![t].pc = "locked"]
    BY <1>4 DEF LockSession, NoneLeft, RefreshFails
  <2>3. \A u \in Tab : /\ refresh[u].pc = "none" => refresh'[u].pc = "none"
                       /\ RepliesStay(u)
                       /\ refresh'[u].pc = "rotated" =>
                             refresh[u].pc = "rotated" /\ refresh'[u].issued = refresh[u].issued
    BY <1>0, <2>2 DEF Types, RepliesStay
  <2> QED BY <1>0, <2>1, <2>3, QuietKeepsLogout DEF RowsEnd
<1>5. ASSUME NEW c \in Call, CallStep(c) \/ CallFails(c)
      PROVE  LogoutInv'
  BY <1>0, <1>5, CallKeepsLogout
<1>6. CASE UNCHANGED vars
  <2>1. UNCHANGED <<sess, stored, current, refresh, call>>
    BY <1>6 DEF vars
  <2> QED BY <1>0, <2>1, QuietKeepsLogout DEF RowsEnd, RepliesStay
<1> QED BY <1>1, <1>2, <1>3, <1>4, <1>5, <1>6 DEF Next, RefreshProceeds

\* What serves a logout revokes the one session there is.
LEMMA ServedEndsLogin ==
    ASSUME IInv, FlightInv, LogoutInv, [Next]_vars, NEW c \in Call,
           Undisturbed(c), call'[c].pc = "ok"
    PROVE  LoginEnded(c)'
<1>0. call \in CallType /\ TabOf[c] \in Tab
  BY SessionsAssumption DEF LogoutInv, Carried, CallType
<1>1. ServeLogout(c)
  <2>1. ASSUME NEW x \in Call, CallStep(x) \/ CallFails(x)
        PROVE  ServeLogout(c)
    <3>1. call[c].pc = "sent" /\ Kind[c] = "logout"
      BY DEF Undisturbed
    <3>2. CASE x = c
      BY <1>0, <2>1, <3>1, <3>2 DEF CallStep, CallFails, Begin, ServeRequest, Refresh, RefreshWithout,
         RejectedAgain, Ends, Wait, StartRefresh, Idle, CallType, CallRow
    <3>3. CASE x # c
      BY <1>0, <2>1, <3>1, <3>3 DEF CallStep, CallFails, Begin, ServeRequest, ServeLogout, Refresh,
         RefreshWithout, RejectedAgain, Ends, Wait, StartRefresh, Idle, CallType, CallRow
    <3> QED BY <3>2, <3>3
  <2>2. ASSUME NEW t \in Tab, RefreshSucceeded(t) \/ RefreshFailed(t)
        PROVE  FALSE
    BY <1>0, <2>2 DEF RefreshSucceeded, RefreshFailed, Sent, Idle, Undisturbed
  <2>3. ASSUME UNCHANGED call
        PROVE  FALSE
    BY <2>3 DEF Undisturbed
  <2> QED BY <2>1, <2>2, <2>3 DEF Next, RefreshProceeds, AccessExpires, SessionExpires, Login, Load,
       LockSession, Rotate, NoneLeft, RefreshFails, vars
<1>2. Aims(c)
  BY DEF LogoutInv, Aimed
<1>3. PICK x \in Session : x = call[c].token
  BY <1>2 DEF Aims
<1>4. call'[c].token = x
  BY <1>0, <1>1, <1>3 DEF CallRow, ServeLogout, CallType
<1>5. RowsEnd /\ sess'[x].status # "live"
  <2>1. Revoke(x)
    BY <1>1, <1>3 DEF ServeLogout
  <2>2. sess'[x].status # "live"
    BY <2>1 DEF Revoke, IInv, Types, Row
  <2> QED BY <2>1, <2>2, RevokeEnds DEF IInv
<1>6. \A s \in Session : sess'[s].status = "live" /\ sess'[s].root = sess'[x].root => sess'[s].by # TabOf[c]
  BY <1>2, <1>3, <1>5 DEF Aims, Left, RowsEnd
<1> QED BY <1>4, <1>6 DEF LoginEnded

(* The answer to a logout leaves its tab no live session of the login, for any
   number of tabs, calls and faults, provided that no refresh of the tab was under
   way when the logout's last attempt was sent and none began before its answer
   (Sessions' LogoutEndsLoginUnlessOverlapped). *)
THEOREM LogoutEndsLoginHolds == Spec => LogoutEndsLoginUnlessOverlapped
<1>1. Init => IInv /\ FlightInv /\ LogoutInv
  BY InitEstablishes, InitFlight, InitLogout
<1>2. IInv /\ FlightInv /\ LogoutInv /\ [Next]_vars => (IInv /\ FlightInv /\ LogoutInv)'
  BY NextKeeps, NextKeepsFlight, NextKeepsLogout
<1>3. IInv /\ FlightInv /\ LogoutInv /\ [Next]_vars =>
        [\A c \in Call :
           Kind[c] = "logout" /\ call[c].pc = "sent" /\ call'[c].pc = "ok" /\ ~call[c].overlapped
           => LoginEnded(c)']_vars
  BY ServedEndsLogin DEF Undisturbed
<1> QED BY <1>1, <1>2, <1>3, PTL DEF Spec, LogoutEndsLoginUnlessOverlapped
=============================================================================
