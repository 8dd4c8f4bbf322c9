------------------------------- MODULE AuthTabs --------------------------------
(***************************************************************************)
(* The tabs of one browser profile that share a refresh cookie:            *)
(* web/src/lib/auth-session.ts, auth-session-sync.ts, the auth store, the  *)
(* event handler of routes/__root.tsx and executeLogout, against the       *)
(* handlers of controller/auth_session.go and controller/user.go.          *)
(*                                                                         *)
(* A handler of the server is one step (UserSession looks inside it); what *)
(* is on the wire, the events between tabs and the clock are not.  A       *)
(* refresh secret is its generation.  The server answers the loser of a    *)
(* refresh race with the derived successor, so AUTH_REFRESH_RACE and the   *)
(* client's retries of it do not occur; neither does a second mismatch,    *)
(* because the retry is sent without a SID.  The browser has               *)
(* navigator.locks; a login or logout reaches the server at once, and only *)
(* its answer is slow.                                                     *)
(***************************************************************************)
EXTENDS Integers, Sequences, FiniteSets

CONSTANTS
    Tabs, None,
    MaxSid,          \* bound on the sessions issued
    MaxIncidents     \* bound on lost answers, reloads, expiries, revocations and late 401s, together

SidSet == 1..MaxSid

ASSUME TabsAssumption == None \notin Tabs \cup SidSet \cup [sid : SidSet, gen : Nat]
ASSUME TabBounds == MaxSid \in Nat \ {0} /\ MaxIncidents \in Nat

VARIABLES
    rows,      \* user_sessions by SID: status, refresh generation, inside the replay window
    cookie,    \* the refresh cookie of the profile: [sid, gen] or None
    session,   \* auth store of a tab: the SID, or None
    valid,     \* its access token has not expired
    boot,      \* bootstrapState
    stage,     \* of the tab's refreshPromise: "none", "queued" for the lock, "sent"
    current,   \* authEpoch is still the epoch the refresh began with
    outcome,   \* kind of the last RefreshOutcome
    locks,     \* holders and waiters of the lock nexustok:auth-refresh
    wire,      \* the refresh request or answer of a tab
    form,      \* its login or logout: stage, request and answer
    chan,      \* events of BroadcastChannel on their way to a tab
    orphans,   \* refresh requests of pages that are gone
    missed,    \* history: what a tab was signed in to when it discarded a late event
    left,      \* history: sessions a tab was signed out of after the server had ended them
    lost,      \* history: an answer of this session was lost
    crossed,   \* history: a login or logout was on the wire together with a refresh
    replayed,  \* history: sessions revoked because a spent secret came back
    budget     \* incidents that may still happen

page    == <<session, valid, boot>>
promise == <<stage, current, outcome, locks>>
tabHistory == <<missed, left, lost, crossed, replayed>>
tabVars    == <<rows, cookie, page, promise, wire, form, chan, orphans, tabHistory, budget>>

Quiet == [st |-> "none", ck |-> None, exp |-> None, ans |-> "none", set |-> {}]
Waiting(st) == [st |-> st, first |-> TRUE, ans |-> "none", set |-> {}]
NoForm == Waiting("none")

\* one tab is signed in, the others have not been loaded yet
TabInit ==
    /\ rows = [s \in SidSet |-> [st |-> IF s = 1 THEN "active" ELSE "absent", gen |-> 0, grace |-> FALSE]]
    /\ cookie = [sid |-> 1, gen |-> 0]
    /\ \E t \in Tabs :
         /\ session = [u \in Tabs |-> IF u = t THEN 1 ELSE None]
         /\ valid = [u \in Tabs |-> u = t]
         /\ boot = [u \in Tabs |-> IF u = t THEN "complete" ELSE "idle"]
    /\ stage = [t \in Tabs |-> "none"] /\ current = [t \in Tabs |-> TRUE]
    /\ outcome = [t \in Tabs |-> "none"] /\ locks = <<>>
    /\ wire = [t \in Tabs |-> Quiet] /\ form = [t \in Tabs |-> NoForm]
    /\ chan = [t \in Tabs |-> <<>>] /\ orphans = {}
    /\ missed = [t \in Tabs |-> {}] /\ left = [t \in Tabs |-> {}] /\ lost = {} /\ crossed = FALSE /\ replayed = {}
    /\ budget = MaxIncidents

-----------------------------------------------------------------------------
(* The server *)

Alive(s) == rows[s].st = "active"
Ending(r, st) == [st |-> st, gen |-> r.gen, grace |-> r.grace]
\* Set-Cookie of an answer: nothing, the cookie cleared, or a new secret
Keep == {}
Clear == {None}
Ended(s) == {s} \ ({None} \cup {q \in SidSet : Alive(q)})

\* RefreshAuth with cookie ck and header exp: the answer and what becomes of the row
Spent(ck) == ck.gen = rows[ck.sid].gen - 1
Known(ck) == Alive(ck.sid) /\ (ck.gen = rows[ck.sid].gen \/ (Spent(ck) /\ rows[ck.sid].grace))
Answer(ck, exp) ==
    IF ck = None THEN [ans |-> "denied", set |-> Clear]
    ELSE IF exp # None /\ exp # ck.sid THEN [ans |-> "mismatch", set |-> Keep]
    ELSE IF Known(ck)
         THEN [ans |-> "ok", set |-> {[sid |-> ck.sid, gen |-> ck.gen + 1]}]
    ELSE [ans |-> "denied", set |-> Clear]

RefreshRow(ck, exp) ==
    IF ck = None \/ (exp # None /\ exp # ck.sid) \/ ~Alive(ck.sid) THEN UNCHANGED <<rows, replayed>>
    ELSE \/ /\ ck.gen = rows[ck.sid].gen
            /\ rows' = [rows EXCEPT ![ck.sid] = [st |-> @.st, gen |-> @.gen + 1, grace |-> TRUE]]
            /\ UNCHANGED replayed
         \/ /\ Spent(ck) /\ ~rows[ck.sid].grace
            /\ rows' = [rows EXCEPT ![ck.sid] = Ending(@, "revoked")]
            /\ replayed' = replayed \cup {ck.sid}
         \/ /\ ck.gen < rows[ck.sid].gen /\ ~(Spent(ck) /\ ~rows[ck.sid].grace)
            /\ UNCHANGED <<rows, replayed>>

HandleRefresh(t) ==
    LET w == wire[t] IN
    /\ w.st = "up"
    /\ RefreshRow(w.ck, w.exp)
    /\ wire' = [wire EXCEPT ![t] = [st |-> "down", ck |-> w.ck, exp |-> w.exp,
                                    ans |-> Answer(w.ck, w.exp).ans, set |-> Answer(w.ck, w.exp).set]]
    /\ UNCHANGED <<cookie, page, promise, form, chan, orphans, missed, left, lost, crossed, budget>>

\* the page that sent it is gone: the answer, and its cookie, reach nobody
HandleOrphan(o) ==
    /\ o \in orphans
    /\ RefreshRow(o.ck, o.exp)
    /\ orphans' = orphans \ {o}
    /\ lost' = IF o.ck = None THEN lost ELSE lost \cup {o.ck.sid}
    /\ UNCHANGED <<cookie, page, promise, wire, form, chan, missed, left, crossed, budget>>

GraceEnds(s) ==
    /\ rows[s].grace
    /\ rows' = [rows EXCEPT ![s] = [st |-> @.st, gen |-> @.gen, grace |-> FALSE]]
    /\ UNCHANGED <<cookie, page, promise, wire, form, chan, orphans, tabHistory, budget>>

\* DeleteLoginSession and the like from another device
RevokedElsewhere(s) ==
    /\ Alive(s) /\ budget > 0
    /\ rows' = [rows EXCEPT ![s] = Ending(@, "revoked")]
    /\ budget' = budget - 1
    /\ UNCHANGED <<cookie, page, promise, wire, form, chan, orphans, tabHistory>>

-----------------------------------------------------------------------------
(* The auth store and the events between tabs *)

\* the browser applies Set-Cookie when the answer arrives
Given(set) == CHOOSE c \in set : TRUE
Store(set) == cookie' = IF set = Keep THEN cookie ELSE Given(set)

\* A mutant of Post: the event reaches no tab
PostNothing(t, kind, s) == UNCHANGED chan

Post(t, kind, s) ==
    chan' = [u \in Tabs |-> IF u = t THEN chan[u] ELSE Append(chan[u], [kind |-> kind, sid |-> s])]

\* applyAuthBundle: a new epoch, and the other tabs are told of a new SID
Adopt(t, s) ==
    /\ session' = [session EXCEPT ![t] = s]
    /\ valid' = [valid EXCEPT ![t] = TRUE]
    /\ boot' = [boot EXCEPT ![t] = "complete"]

\* clearAuthentication and reset(state)
Reset(t, state) ==
    /\ session' = [session EXCEPT ![t] = None]
    /\ valid' = [valid EXCEPT ![t] = FALSE]
    /\ boot' = [boot EXCEPT ![t] = state]

\* A mutant of Supersede: the epoch does not move
SupersedeNothing(t) == UNCHANGED current

\* authEpoch += 1: a refresh that is under way is superseded
Supersede(t) == current' = [current EXCEPT ![t] = FALSE]

\* the queue of the lock without t, which is in it once or not at all
Without(t) ==
    IF \E i \in DOMAIN locks : locks[i] = t
    THEN LET p == CHOOSE i \in DOMAIN locks : locks[i] = t
         IN  [i \in 1..(Len(locks) - 1) |-> locks[IF i < p THEN i ELSE i + 1]]
    ELSE locks

\* A mutant of Settle: the promise is never cleared
SettleLeaks(t, kind) ==
    /\ outcome' = [outcome EXCEPT ![t] = kind]
    /\ UNCHANGED <<stage, locks>>

\* the finally of refreshAuthentication, and the release of the lock
Settle(t, kind) ==
    /\ stage' = [stage EXCEPT ![t] = "none"]
    /\ outcome' = [outcome EXCEPT ![t] = kind]
    /\ locks' = Without(t)

-----------------------------------------------------------------------------
(* refreshAuthentication *)

\* resolveAuthentication, getFreshAuthHeaders, or a 401 for the token held
NeedsRefresh(t) ==
    \/ session[t] = None /\ boot[t] # "complete"
    \/ session[t] # None /\ (~valid[t] \/ ~Alive(session[t]))

FormsOnWire == {u \in Tabs : form[u].st \in {"login", "logout"}}

\* runtime.request(getExpectedSID()): the browser adds the cookie
Send(t, sid) ==
    /\ stage' = [stage EXCEPT ![t] = "sent"]
    /\ wire' = [wire EXCEPT ![t] = [st |-> "up", ck |-> cookie, exp |-> sid, ans |-> "none", set |-> {}]]
    /\ crossed' = (crossed \/ FormsOnWire # {})

\* A mutant of Begin: the lock of the profile is not taken
BeginUnlocked(t) ==
    /\ stage[t] = "none"
    /\ current' = [current EXCEPT ![t] = TRUE]
    /\ Send(t, session[t]) /\ UNCHANGED locks

\* refreshAuthentication: one promise per tab, behind the lock of the profile
Begin(t) ==
    /\ stage[t] = "none"
    /\ current' = [current EXCEPT ![t] = TRUE]
    /\ stage' = [stage EXCEPT ![t] = "queued"] /\ locks' = Append(locks, t)
    /\ UNCHANGED <<wire, crossed>>

StartRefresh(t) ==
    /\ NeedsRefresh(t) /\ Begin(t)
    /\ boot' = IF boot[t] = "idle" THEN [boot EXCEPT ![t] = "checking"] ELSE boot
    /\ UNCHANGED <<rows, cookie, session, valid, outcome, form, chan, orphans, missed, left, lost, replayed, budget>>

\* a 401 for a request that outlived the tab's session
LateRefusal(t) ==
    /\ session[t] = None /\ boot[t] = "complete" /\ budget > 0 /\ Begin(t)
    /\ budget' = budget - 1
    /\ UNCHANGED <<rows, cookie, page, outcome, form, chan, orphans, missed, left, lost, replayed>>

\* the lock is granted and run(0, true) starts; a superseded refresh ends there
TakeLock(t) ==
    /\ stage[t] = "queued" /\ Head(locks) = t
    /\ \/ current[t] /\ Send(t, session[t]) /\ UNCHANGED <<outcome, locks>>
       \/ ~current[t] /\ Settle(t, "transient") /\ UNCHANGED <<wire, crossed>>
    /\ UNCHANGED <<rows, cookie, page, current, form, chan, orphans, missed, left, lost, replayed, budget>>

\* the answer arrives: the cookie is stored whatever the script then does
AnswerArrives(t) ==
    LET w == wire[t] IN
    /\ w.st = "down" /\ (w.ans # "mismatch" \/ ~current[t])
    /\ Store(w.set)
    /\ wire' = [wire EXCEPT ![t] = Quiet]
    /\ \/ /\ ~current[t]
          /\ Settle(t, "transient") /\ UNCHANGED <<page, current, chan>>
       \/ /\ current[t] /\ w.ans = "ok"
          /\ Adopt(t, Given(w.set).sid) /\ Supersede(t) /\ Settle(t, "authenticated")
          /\ UNCHANGED chan
       \/ /\ current[t] /\ w.ans = "denied"
          /\ Reset(t, "complete") /\ Supersede(t) /\ Settle(t, "anonymous")
          /\ IF session[t] = None THEN UNCHANGED chan ELSE Post(t, "signed_out", session[t])
    /\ UNCHANGED <<rows, form, orphans, tabHistory, budget>>

\* AUTH_SESSION_MISMATCH: the store is reset and the request repeated without a SID
MismatchArrives(t) ==
    /\ wire[t].st = "down" /\ wire[t].ans = "mismatch" /\ current[t]
    /\ Reset(t, "idle") /\ Send(t, None)
    /\ UNCHANGED <<rows, cookie, current, outcome, locks, form, chan, orphans, missed, left, lost, replayed, budget>>

\* no answer: status 0, markTransient
AnswerLost(t) ==
    /\ wire[t].st \in {"up", "down"} /\ budget > 0
    /\ budget' = budget - 1
    /\ lost' = IF wire[t].st = "down" /\ wire[t].ck # None THEN lost \cup {wire[t].ck.sid} ELSE lost
    /\ wire' = [wire EXCEPT ![t] = Quiet]
    /\ boot' = IF current[t] THEN [boot EXCEPT ![t] = "idle"] ELSE boot
    /\ Settle(t, "transient")
    /\ UNCHANGED <<rows, cookie, session, valid, current, form, chan, orphans, missed, left, crossed, replayed>>

-----------------------------------------------------------------------------
(* Login and executeLogout *)

RefreshesOnWire == {u \in Tabs : wire[u].st # "none"}

\* The sign-in page is shown to a tab that has resolved to anonymous.
\* setupLoginAtAuthVersion: the session the cookies name is renewed under a
\* new SID when it belongs to the same user.
NextSid == CHOOSE s \in SidSet : rows[s].st = "absent" /\ \A q \in SidSet : rows[q].st = "absent" => s <= q

Login(t, sameUser) ==
    /\ session[t] = None /\ boot[t] = "complete" /\ stage[t] = "none" /\ form[t].st = "none"
    /\ \E s \in SidSet : rows[s].st = "absent"
    /\ rows' = [s \in SidSet |->
                 IF s = NextSid THEN [st |-> "active", gen |-> 0, grace |-> FALSE]
                 ELSE IF sameUser /\ cookie # None /\ s \in {cookie.sid} /\ Alive(s) THEN Ending(rows[s], "gone")
                 ELSE rows[s]]
    /\ form' = [form EXCEPT ![t] = [st |-> "login", first |-> TRUE, ans |-> "none", set |-> {[sid |-> NextSid, gen |-> 0]}]]
    /\ crossed' = (crossed \/ RefreshesOnWire # {} \/ orphans # {} \/ FormsOnWire # {})
    /\ UNCHANGED <<cookie, page, promise, wire, chan, orphans, missed, left, lost, replayed, budget>>

\* handleLoginSuccess: ignored when the tab got a session in the meantime
LoginArrives(t) ==
    LET s == Given(form[t].set).sid IN
    /\ form[t].st = "login"
    /\ Store(form[t].set)
    /\ form' = [form EXCEPT ![t] = NoForm]
    /\ \/ session[t] = None /\ Adopt(t, s) /\ Supersede(t) /\ Post(t, "authenticated", s)
       \/ session[t] # None /\ UNCHANGED <<page, current, chan>>
    /\ UNCHANGED <<rows, stage, outcome, locks, wire, orphans, tabHistory, budget>>

\* no answer to a login or a logout: the error is shown, nothing else
FormLost(t) ==
    /\ t \in FormsOnWire /\ budget > 0
    /\ budget' = budget - 1
    /\ form' = [form EXCEPT ![t] = NoForm]
    /\ UNCHANGED <<rows, cookie, page, promise, wire, chan, orphans, tabHistory>>

\* executeLogout and AuthLogout: by the access token, or by the cookie once the
\* token has expired; success even if that cookie no longer names an active session
Logout(t) ==
    LET sid == session[t]
        live == sid # None /\ valid[t]
        mismatch == sid # None /\ cookie # None /\ cookie.sid # sid
        dead == IF mismatch THEN {}
                ELSE IF live THEN {sid}
                ELSE {s \in SidSet : cookie # None /\ s = cookie.sid /\ Known(cookie)}
    IN
    /\ \/ form[t].st = "none" /\ sid # None
       \/ form[t].st = "recovered"
    /\ rows' = [s \in SidSet |-> IF s \in dead /\ Alive(s) THEN Ending(rows[s], "revoked") ELSE rows[s]]
    /\ form' = [form EXCEPT ![t] = [st |-> "logout", first |-> form[t].st = "none",
                                    ans |-> IF mismatch THEN "mismatch" ELSE "ok",
                                    set |-> IF mismatch \/ (live /\ cookie = None) THEN Keep ELSE Clear]]
    /\ crossed' = (crossed \/ RefreshesOnWire # {} \/ orphans # {} \/ FormsOnWire \ {t} # {})
    /\ UNCHANGED <<cookie, page, promise, wire, chan, orphans, missed, left, lost, replayed, budget>>

\* clearAuthenticatedClientState: sign this tab out and tell the others
SignOut(t) ==
    /\ Reset(t, "complete") /\ Supersede(t)
    /\ left' = [left EXCEPT ![t] = @ \cup Ended(session[t])]
    /\ IF session[t] = None THEN UNCHANGED chan ELSE Post(t, "signed_out", session[t])

LogoutArrives(t) ==
    LET f == form[t] IN
    /\ f.st = "logout"
    /\ Store(f.set)
    /\ \/ f.ans = "ok" /\ SignOut(t) /\ form' = [form EXCEPT ![t] = NoForm]
       \/ /\ f.ans = "mismatch" /\ f.first /\ form' = [form EXCEPT ![t] = Waiting("recover")]
          /\ UNCHANGED <<page, current, chan, left>>
       \/ /\ f.ans = "mismatch" /\ ~f.first /\ form' = [form EXCEPT ![t] = NoForm]
          /\ UNCHANGED <<page, current, chan, left>>
    /\ UNCHANGED <<rows, stage, outcome, locks, wire, orphans, missed, lost, crossed, replayed, budget>>

\* runtime.refresh() of executeLogout, joining a refresh that is under way
RecoverLogout(t) ==
    /\ form[t].st = "recover"
    /\ form' = [form EXCEPT ![t] = Waiting("recovering")]
    /\ \/ stage[t] = "none" /\ Begin(t)
       \/ stage[t] # "none" /\ UNCHANGED <<stage, current, locks, wire, crossed>>
    /\ UNCHANGED <<rows, cookie, page, outcome, chan, orphans, missed, left, lost, replayed, budget>>

LogoutRecovered(t) ==
    /\ form[t].st = "recovering" /\ stage[t] = "none"
    /\ \/ /\ outcome[t] = "authenticated" /\ form' = [form EXCEPT ![t] = Waiting("recovered")]
          /\ UNCHANGED <<page, current, chan, left>>
       \/ outcome[t] = "anonymous" /\ SignOut(t) /\ form' = [form EXCEPT ![t] = NoForm]
       \/ /\ outcome[t] = "transient" /\ form' = [form EXCEPT ![t] = NoForm]
          /\ UNCHANGED <<page, current, chan, left>>
    /\ UNCHANGED <<rows, cookie, stage, outcome, locks, wire, orphans, missed, lost, crossed, replayed, budget>>

-----------------------------------------------------------------------------
\* the page of t is replaced: memory, promises and undelivered events are gone
Unload(t) ==
    /\ session' = [session EXCEPT ![t] = None] /\ valid' = [valid EXCEPT ![t] = FALSE]
    /\ boot' = [boot EXCEPT ![t] = "idle"]
    /\ Supersede(t) /\ Settle(t, "none")
    /\ orphans' = IF wire[t].st = "up" THEN orphans \cup {[ck |-> wire[t].ck, exp |-> wire[t].exp]} ELSE orphans
    /\ lost' = IF wire[t].st = "down" /\ wire[t].ck # None THEN lost \cup {wire[t].ck.sid} ELSE lost
    /\ wire' = [wire EXCEPT ![t] = Quiet]
    /\ form' = [form EXCEPT ![t] = NoForm]

Reload(t) ==
    /\ budget > 0
    /\ budget' = budget - 1
    /\ Unload(t)
    /\ chan' = [chan EXCEPT ![t] = <<>>]
    /\ UNCHANGED <<rows, cookie, missed, left, crossed, replayed>>

\* the listener of subscribeAuthSessionEvents in routes/__root.tsx, for an event in time
EventArrives(t) ==
    LET e == Head(chan[t]) IN
    /\ chan[t] # <<>>
    /\ \/ /\ e.kind = "authenticated" /\ e.sid # session[t]
          /\ Unload(t) /\ chan' = [chan EXCEPT ![t] = <<>>] /\ UNCHANGED left
       \/ /\ e.kind = "signed_out" /\ e.sid = session[t]
          /\ Reset(t, "complete") /\ Supersede(t)
          /\ left' = [left EXCEPT ![t] = @ \cup Ended(e.sid)]
          /\ chan' = [chan EXCEPT ![t] = Tail(@)]
          /\ UNCHANGED <<stage, outcome, locks, wire, form, orphans, lost>>
       \/ /\ e.kind = "authenticated" <=> e.sid = session[t]
          /\ chan' = [chan EXCEPT ![t] = Tail(@)]
          /\ UNCHANGED <<page, promise, wire, form, orphans, left, lost>>
    /\ UNCHANGED <<rows, cookie, missed, crossed, replayed, budget>>

\* deliver: an event that is a minute old (a frozen tab, a sleeping computer, a clock
\* that was set) does not reach the listener
EventTooLate(t) ==
    /\ chan[t] # <<>>
    /\ chan' = [chan EXCEPT ![t] = Tail(@)]
    /\ missed' = [missed EXCEPT ![t] = @ \cup ({session[t]} \ {None})]
    /\ UNCHANGED <<rows, cookie, page, promise, wire, form, orphans, left, lost, crossed, replayed, budget>>

TokenExpires(t) ==
    /\ valid[t] /\ budget > 0
    /\ valid' = [valid EXCEPT ![t] = FALSE]
    /\ budget' = budget - 1
    /\ UNCHANGED <<rows, cookie, session, boot, promise, wire, form, chan, orphans, tabHistory>>

-----------------------------------------------------------------------------
TabStep(t) ==
    \/ StartRefresh(t) \/ LateRefusal(t) \/ TakeLock(t) \/ HandleRefresh(t) \/ AnswerArrives(t) \/ MismatchArrives(t)
    \/ LoginArrives(t) \/ LogoutArrives(t) \/ RecoverLogout(t) \/ LogoutRecovered(t)
    \/ EventArrives(t) \/ EventTooLate(t)
    \/ Login(t, TRUE) \/ Login(t, FALSE) \/ Logout(t)
    \/ AnswerLost(t) \/ FormLost(t) \/ Reload(t) \/ TokenExpires(t)

TabNext ==
    \/ \E t \in Tabs : TabStep(t)
    \/ \E o \in orphans : HandleOrphan(o)
    \/ \E s \in SidSet : GraceEnds(s) \/ RevokedElsewhere(s)

TabSpec == TabInit /\ [][TabNext]_tabVars
-----------------------------------------------------------------------------
(* Properties *)

Secret == [sid : SidSet, gen : Nat] \cup {None}

\* Types of the stores, the cookie and the rows; a refresh that was sent is on the
\* wire until its promise settles, and every waiter of the lock has a promise.
TabTypeOK ==
    /\ rows \in [SidSet -> [st : {"absent", "active", "revoked", "gone"}, gen : Nat, grace : BOOLEAN]]
    /\ cookie \in Secret
    /\ session \in [Tabs -> SidSet \cup {None}] /\ valid \in [Tabs -> BOOLEAN]
    /\ boot \in [Tabs -> {"idle", "checking", "complete"}]
    /\ stage \in [Tabs -> {"none", "queued", "sent"}] /\ current \in [Tabs -> BOOLEAN]
    /\ outcome \in [Tabs -> {"none", "transient", "authenticated", "anonymous"}]
    /\ locks \in Seq(Tabs) /\ \A i \in DOMAIN locks : stage[locks[i]] # "none"
    /\ missed \in [Tabs -> SUBSET SidSet] /\ left \in [Tabs -> SUBSET SidSet] /\ lost \subseteq SidSet /\ crossed \in BOOLEAN /\ replayed \subseteq SidSet
    /\ \A t \in Tabs : (stage[t] = "sent") = (wire[t].st # "none")

\* Tabs that refresh one cookie never make the server revoke the session for
\* reuse (model/user_session.go RotateUserSessionRefresh), however late the
\* answers and whenever the replay window ends, unless an answer with the new
\* secret was lost or outlived its page.
ReuseNeedsLoss == replayed \subseteq lost

Silent ==
    /\ orphans = {}
    /\ \A t \in Tabs : stage[t] = "none" /\ form[t].st = "none" /\ chan[t] = <<>>

\* Once nothing is on its way, no tab acts for one session while the shared
\* cookie is for another: applyAuthBundle tells the other tabs of a new SID and
\* clearAuthentication of an ended one, whatever answers were lost.  Two cases are
\* out of the client's hands: a login or logout on the wire together with a
\* refresh, which the lock does not cover, and a tab that stays with the session it
\* had when an event reached it a minute late.
QuietTabsAgree ==
    Silent /\ cookie # None /\ ~crossed =>
        \A t \in Tabs : session[t] \in {None, cookie.sid} \cup missed[t]

\* A tab that was signed out of a session the server has ended never shows it
\* again: authEpoch discards the answer of a refresh that was under way, even one
\* the server gave before the sign-out.
SignedOutStaysOut ==
    [][\A t \in Tabs : session'[t] # session[t] /\ session'[t] # None => session'[t] \notin left[t]]_tabVars
=============================================================================
