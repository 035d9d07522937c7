------------------------------ MODULE Sessions ------------------------------
(***************************************************************************)
(* Login sessions between the browser and the server.  The server keeps a  *)
(* row per refresh token, rotates it under a row lock and revokes it at    *)
(* logout; access tokens are self-contained and outlive both.  The tabs of *)
(* a browser share localStorage, cache what they have read from it, and    *)
(* answer an expired access token with one refresh that all the requests   *)
(* of the tab wait for, and one replay each.                               *)
(*                                                                         *)
(* A session stands for its refresh token and for the access token issued  *)
(* with it.  Faults are a 429, a 503, a lost request, a lost reply, a      *)
(* transaction that is rolled back.                                        *)
(***************************************************************************)
EXTENDS Naturals, FiniteSets

CONSTANTS
    Tab,
    Call,           \* calls of the client library
    TabOf, Kind,    \* [Call -> Tab], [Call -> {"request", "upload", "logout"}]
    MaxSessions, MaxFaults

ASSUME SessionsAssumption ==
    /\ TabOf \in [Call -> Tab] /\ Kind \in [Call -> {"request", "upload", "logout"}]
    /\ MaxSessions \in Nat /\ MaxFaults \in Nat

VARIABLES
    sess,       \* rows of auth_sessions
    stale,      \* sessions whose access token has expired
    current,    \* per tab, the session it has cached
    stored,     \* localStorage
    call,
    refresh,    \* per tab, refreshInFlight
    faults

vars == <<sess, stale, current, stored, call, refresh, faults>>

-----------------------------------------------------------------------------
Session == 1..MaxSessions
None == 0

\* root is the login a session descends from, by the tab that was issued it.
Row == [status : {"none", "live", "revoked"}, expired : BOOLEAN,
        root : Session \cup {None}, from : Session \cup {None}, by : Tab \cup {None}]
NoRow == [status |-> "none", expired |-> FALSE, root |-> None, from |-> None, by |-> None]

Unused == {s \in Session : sess[s].status = "none"}
NewId == CHOOSE s \in Unused : TRUE
Issue(root, from, t) == [NoRow EXCEPT !.status = "live", !.root = root, !.from = from, !.by = t]
\* Revocation is idempotent.
Revoke(s) == sess' = [x \in Session |-> IF x = s /\ sess[x].status = "live"
                                        THEN [sess[x] EXCEPT !.status = "revoked"] ELSE sess[x]]
Valid(s) == sess[s].status = "live" /\ ~sess[s].expired
LockedNever(s) == FALSE  \* mutant: no FOR UPDATE
LockedRow(s) == \E t \in Tab : refresh[t].pc = "locked" /\ refresh[t].token = s

Idle == [pc |-> "idle", attempt |-> 0, bearer |-> None, token |-> None, overlapped |-> FALSE]
NoRefresh == [pc |-> "none", token |-> None, issued |-> None]

Init ==
    /\ sess = [s \in Session |-> NoRow]
    /\ stale = {}
    /\ current = [t \in Tab |-> None]
    /\ stored = None
    /\ call = [c \in Call |-> Idle]
    /\ refresh = [t \in Tab |-> NoRefresh]
    /\ faults = 0

SetSession(t, s) == current' = [current EXCEPT ![t] = s] /\ stored' = s
ClearSession(t) == SetSession(t, None)
Ends(c) == call' = [call EXCEPT ![c] = [Idle EXCEPT !.pc = "error"]]
\* A call with the tab's session; overlapped says that a refresh of the tab is under
\* way when it is sent, or starts before it is answered.
Sent(attempt, s, overlapped) ==
    [pc |-> "sent", attempt |-> attempt, bearer |-> s, token |-> s, overlapped |-> overlapped]
Spend == faults < MaxFaults /\ faults' = faults + 1

-----------------------------------------------------------------------------
(***************************************************************************)
(* Time, logins, pages.                                                    *)
(***************************************************************************)
AccessExpires(s) ==
    /\ sess[s].status # "none" /\ s \notin stale
    /\ stale' = stale \cup {s}
    /\ UNCHANGED <<sess, current, stored, call, refresh, faults>>

SessionExpires(s) ==
    /\ sess[s].status = "live" /\ s \in stale /\ ~sess[s].expired
    /\ sess' = [sess EXCEPT ![s].expired = TRUE]
    /\ UNCHANGED <<stale, current, stored, call, refresh, faults>>

Login(t) ==
    /\ current[t] = None /\ Unused # {}
    /\ sess' = [sess EXCEPT ![NewId] = Issue(NewId, None, t)]
    /\ SetSession(t, NewId)
    /\ UNCHANGED <<stale, call, refresh, faults>>

\* A tab that is opened or reloaded reads what is stored.
Load(t) ==
    /\ current[t] # stored
    /\ refresh[t].pc = "none"
    /\ \A c \in Call : TabOf[c] = t => call[c].pc \in {"idle", "ok", "error"}
    /\ current' = [current EXCEPT ![t] = stored]
    /\ UNCHANGED <<sess, stale, stored, call, refresh, faults>>

-----------------------------------------------------------------------------
(***************************************************************************)
(* Calls with the access token of the tab's session.                       *)
(***************************************************************************)
Begin(c) ==
    /\ call[c].pc = "idle"
    /\ current[TabOf[c]] # None
    /\ LET t == TabOf[c]
       IN  call' = [call EXCEPT ![c] =
                      Sent(0, current[t], Kind[c] = "logout" /\ refresh[t].pc # "none")]
    /\ UNCHANGED <<sess, stale, current, stored, refresh, faults>>

\* get_current_user tests the access token alone.
Accepted(c) == call[c].pc = "sent" /\ call[c].bearer \notin stale

ServeRequest(c) ==
    /\ Kind[c] # "logout" /\ Accepted(c)
    /\ call' = [call EXCEPT ![c] = [Idle EXCEPT !.pc = "ok"]]
    /\ UNCHANGED <<sess, stale, current, stored, refresh, faults>>

\* Revoked already or not, the answer is the same; a rotation in progress is
\* waited for.
ServeLogout(c) ==
    /\ Kind[c] = "logout" /\ Accepted(c)
    /\ ~LockedRow(call[c].token)
    /\ Revoke(call[c].token)
    /\ call' = [call EXCEPT ![c].pc = "ok"]
    /\ ClearSession(TabOf[c])
    /\ UNCHANGED <<stale, refresh, faults>>

\* 10001/401.
Rejected(c) == call[c].pc = "sent" /\ call[c].bearer \in stale

Wait(c) == call' = [call EXCEPT ![c].pc = "waiting"]
StartRefresh(c) ==
    LET t == TabOf[c]
    IN  /\ refresh' = [refresh EXCEPT ![t] = [pc |-> "sent", token |-> current[t], issued |-> None]]
        /\ call' = [x \in Call |->
                       IF x = c THEN [call[x] EXCEPT !.pc = "waiting"]
                       ELSE [call[x] EXCEPT !.overlapped = @ \/
                               (TabOf[x] = t /\ Kind[x] = "logout" /\ call[x].pc = "sent")]]

RefreshEach(c) ==  \* mutant: without refreshInFlight
    /\ Rejected(c) /\ call[c].attempt = 0
    /\ current[TabOf[c]] # None
    /\ StartRefresh(c)
    /\ UNCHANGED <<sess, stale, current, stored, faults>>

\* refreshOnce: join the one in flight, or start it.
Refresh(c) ==
    /\ Rejected(c) /\ call[c].attempt = 0
    /\ current[TabOf[c]] # None
    /\ \/ refresh[TabOf[c]].pc # "none" /\ Wait(c) /\ UNCHANGED refresh
       \/ refresh[TabOf[c]].pc = "none" /\ StartRefresh(c)
    /\ UNCHANGED <<sess, stale, current, stored, faults>>

\* refreshOnce without a session to refresh.
RefreshWithout(c) ==
    /\ Rejected(c) /\ call[c].attempt = 0
    /\ current[TabOf[c]] = None
    /\ Ends(c) /\ ClearSession(TabOf[c])
    /\ UNCHANGED <<sess, stale, refresh, faults>>

\* Rejected again: a plain request leaves the session alone.
RejectedAgain(c) ==
    /\ Rejected(c) /\ call[c].attempt = 1
    /\ Ends(c)
    /\ IF Kind[c] = "request" THEN UNCHANGED <<current, stored>> ELSE ClearSession(TabOf[c])
    /\ UNCHANGED <<sess, stale, refresh, faults>>

\* Not served, or served and the reply lost: logout clears in any case.
CallFails(c) ==
    /\ call[c].pc = "sent" /\ Spend
    /\ Ends(c)
    /\ \/ UNCHANGED sess
       \/ Kind[c] = "logout" /\ Accepted(c) /\ ~LockedRow(call[c].token) /\ Revoke(call[c].token)
    /\ IF Kind[c] = "logout" THEN ClearSession(TabOf[c]) ELSE UNCHANGED <<current, stored>>
    /\ UNCHANGED <<stale, refresh>>

-----------------------------------------------------------------------------
(***************************************************************************)
(* Rotation.  A tab that holds the row lock is in a transaction of its own *)
(* on the server.                                                          *)
(***************************************************************************)
Waiting(t) == {c \in Call : TabOf[c] = t /\ call[c].pc = "waiting"}

\* SELECT FOR UPDATE, then the tests of _is_valid on what was read.
LockSession(t) ==
    /\ refresh[t].pc = "sent"
    /\ ~LockedRow(refresh[t].token)
    /\ refresh' = [refresh EXCEPT ![t].pc = IF Valid(refresh[t].token) THEN "locked" ELSE "failed"]
    /\ UNCHANGED <<sess, stale, current, stored, call, faults>>

Rotate(t) ==
    LET old == refresh[t].token
    IN  /\ refresh[t].pc = "locked" /\ Unused # {}
        /\ sess' = [sess EXCEPT ![old].status = "revoked",
                                ![NewId] = Issue(sess[old].root, old, t)]
        /\ refresh' = [refresh EXCEPT ![t].pc = "rotated", ![t].issued = NewId]
        /\ UNCHANGED <<stale, current, stored, call, faults>>

\* Bound: with MaxSessions issued the next rotation is one that fails.
NoneLeft(t) ==
    /\ refresh[t].pc = "locked" /\ Unused = {}
    /\ refresh' = [refresh EXCEPT ![t].pc = "failed"]
    /\ UNCHANGED <<sess, stale, current, stored, call, faults>>

\* Lost before, in or after the transaction.
RefreshFails(t) ==
    /\ refresh[t].pc \in {"sent", "locked", "rotated"} /\ Spend
    /\ refresh' = [refresh EXCEPT ![t].pc = "failed"]
    /\ UNCHANGED <<sess, stale, current, stored, call>>

\* The promise settles, and all who wait for it go on before anything else
\* happens in the tab: replay with the new session, or give up without one.
RefreshSucceededOldToken(t) ==  \* mutant: the replay sends the token it has read before
    LET new == refresh[t].issued
    IN  /\ refresh[t].pc = "rotated"
        /\ SetSession(t, new)
        /\ refresh' = [refresh EXCEPT ![t] = NoRefresh]
        /\ call' = [c \in Call |-> IF c \in Waiting(t)
                                   THEN [Sent(1, new, FALSE) EXCEPT !.token = call[c].token]
                                   ELSE call[c]]
        /\ UNCHANGED <<sess, stale, faults>>

RefreshSucceeded(t) ==
    LET new == refresh[t].issued
    IN  /\ refresh[t].pc = "rotated"
        /\ SetSession(t, new)
        /\ refresh' = [refresh EXCEPT ![t] = NoRefresh]
        /\ call' = [c \in Call |-> IF c \in Waiting(t)
                                   THEN Sent(1, new, FALSE)
                                   ELSE call[c]]
        /\ UNCHANGED <<sess, stale, faults>>

RefreshFailedAlone(t) ==  \* mutant: only one of those who wait is told
    /\ refresh[t].pc = "failed"
    /\ ClearSession(t)
    /\ refresh' = [refresh EXCEPT ![t] = NoRefresh]
    /\ \E c \in Waiting(t) : Ends(c)
    /\ UNCHANGED <<sess, stale, faults>>

RefreshFailed(t) ==
    /\ refresh[t].pc = "failed"
    /\ ClearSession(t)
    /\ refresh' = [refresh EXCEPT ![t] = NoRefresh]
    /\ call' = [c \in Call |-> IF c \in Waiting(t) THEN [Idle EXCEPT !.pc = "error"] ELSE call[c]]
    /\ UNCHANGED <<sess, stale, faults>>

-----------------------------------------------------------------------------
CallStep(c) ==
    \/ Begin(c) \/ ServeRequest(c) \/ ServeLogout(c)
    \/ Refresh(c) \/ RefreshWithout(c) \/ RejectedAgain(c)
RefreshProceeds(t) == Rotate(t) \/ NoneLeft(t) \/ RefreshSucceeded(t) \/ RefreshFailed(t)

Next ==
    \/ \E s \in Session : AccessExpires(s) \/ SessionExpires(s)
    \/ \E t \in Tab : Login(t) \/ Load(t) \/ LockSession(t) \/ RefreshProceeds(t) \/ RefreshFails(t)
    \/ \E c \in Call : CallStep(c) \/ CallFails(c)

Fairness ==
    /\ \A c \in Call : WF_vars(ServeRequest(c) \/ Refresh(c) \/ RefreshWithout(c) \/ RejectedAgain(c))
                       /\ WF_vars(ServeLogout(c))
    /\ \A t \in Tab : WF_vars(LockSession(t)) /\ WF_vars(RefreshProceeds(t))

Spec == Init /\ [][Next]_vars
FairSpec == Spec /\ Fairness

-----------------------------------------------------------------------------
(* Rotation hands a login on and never multiplies it: of all the sessions that
   descend from one login at most one is live, however many tabs rotate the same
   token at once and whatever replies are lost. *)
OneLivePerLogin ==
    \A s, x \in Session :
        sess[s].status = "live" /\ sess[x].status = "live" /\ sess[s].root = sess[x].root => s = x

\* No live session of the login that the call has ended is left to its tab.
LoginEnded(c) ==
    \A s \in Session :
        sess[s].status = "live" /\ sess[s].root = sess[call[c].token].root => sess[s].by # TabOf[c]

(* A logout that was answered with success leaves the tab no live session of its
   login: each attempt revokes the session the tab has then, the successor after
   a rotation.  (What another tab has rotated is not the tab's.) *)
LogoutEndsLogin ==
    \A c \in Call : Kind[c] = "logout" /\ call[c].pc = "ok" => LoginEnded(c)

(* The answer to a logout ends the login for its tab, unless a refresh of the tab
   was under way when its last attempt was sent, or began before the answer.  A
   logout that is rejected joins the refresh and its replay revokes the successor;
   one that is accepted waits for no refresh, and if the rotation comes first it
   revokes a session that is revoked already.  What another tab has in flight then
   may still be stored, and loaded, afterwards. *)
LogoutEndsLoginUnlessOverlapped ==
    [][\A c \in Call :
         Kind[c] = "logout" /\ call[c].pc = "sent" /\ call'[c].pc = "ok" /\ ~call[c].overlapped
         => LoginEnded(c)']_vars

(* A tab never presents a token that it has itself rotated: its calls share one
   refresh, so that none of them ends the session the other has just renewed. *)
SingleFlight ==
    \A t \in Tab : refresh[t].pc = "sent" =>
        ~\E s \in Session : sess[s].from = refresh[t].token /\ sess[s].by = t

(* Every call ends, with a refresh in between or not, when servers answer or
   connections break: again and again no call of the browser is under way. *)
CallsEnd == []<>(\A c \in Call : call[c].pc \notin {"sent", "waiting"})
=============================================================================
