-------------------------------- MODULE SignIn --------------------------------
(***************************************************************************)
(* Signing in with Google.  A tab of the console commits a verifier and    *)
(* leaves for Google through the API, which remembers the sign-in under a  *)
(* state that a cookie of the whole browser holds (web: auth/sso-client.ts *)
(* and sso-provider.ts, api/common: handler/auth.go); the callback comes   *)
(* back with a handoff, which the callback page trades for a session       *)
(* token, asking again when an answer does not come (auth/handoff.go).     *)
(* The gates of the sign-in screen and of the dashboard read the session   *)
(* the tab holds (controllers/auth.ts).                                    *)
(*                                                                         *)
(* One number stands for a sign-in: its verifier, its state and its        *)
(* handoff.  Abstracted: codes are hashed and tokens sealed; the account;  *)
(* the start limiter, whose verdict is either; the cookies of session and  *)
(* handoff, which no page of the console reads, so that a client of the    *)
(* cookie channel may come at any time; a state's cookie, which lapses     *)
(* with its state.                                                         *)
(***************************************************************************)
EXTENDS Integers, FiniteSets

CONSTANTS
    Tabs,        \* tabs of one browser
    Attempts,    \* Len of RETRY_DELAYS_MS
    StateTTL,    \* ssoStateTTL, and VERIFIER_TTL_MS
    HandoffTTL,
    ReplayTTL,   \* handoffReplayTTL
    SessionTTL,  \* JWTAccessTTL
    MaxStarts,   \* bound on the sign-ins started
    MaxMoves,    \* bound on what the user does besides
    MaxFaults,   \* bound on failures of Valkey, Postgres and Google, and on lost answers
    MaxClock     \* bound on the clock

ASSUME SignInAssumption ==
    /\ {Attempts, StateTTL, HandoffTTL, ReplayTTL, SessionTTL} \subseteq Nat \ {0}
    /\ {MaxStarts, MaxMoves, MaxFaults, MaxClock} \subseteq Nat
    /\ "other" \notin Tabs

VARIABLES
    now,
    tabs,       \* what each tab shows and holds
    cookie,     \* the browser's OAuth state cookie
    stored,     \* state store: until when each state is pending
    handoffs,   \* sso_handoffs
    exchanges,  \* exchanges the API is working on
    issued,     \* tokens signed per sign-in
    started, moves, faults,
    given       \* history: tokens answered, with their channel

vars == <<now, tabs, cookie, stored, handoffs, exchanges, issued, started, moves, faults, given>>
api == <<cookie, stored, handoffs, exchanges, issued, given>>
bounds == <<started, moves, faults>>

Ids == 1 .. MaxStarts
Times == 0 .. MaxClock + StateTTL + HandoffTTL + ReplayTTL + SessionTTL
Channels == {"body", "cookie"}
Pages == {"signinGate", "signin", "leaving", "google", "callback", "waiting", "exchanging",
          "reading", "failed", "dashboardGate", "dashboard", "signingOut"}
Replies == {"", "ok", "handoff_invalid", "sso_unavailable"}
Messages == {"", "failed", "expired", "used", "offline", "unavailable"}

None == [of |-> 0, n |-> 0, exp |-> 0]
Token == [of : Ids, n : Nat, exp : Times] \union {None}
Handoff == [until : Times, channel : Channels \union {""}, token : Token]
NoHandoff == [until |-> 0, channel |-> "", token |-> None]
Exchange == [tab : Tabs \union {"other"}, try : 0 .. Attempts, id : Ids, verifier : Ids \union {0},
             channel : Channels, stage : {"sent", "read"}, token : Token, at : 0 .. MaxClock]

\* id is the sign-in the tab is in; verifier and until are what sessionStorage holds, held the
\* verifier the callback page took from it; answer and token are what the response says it reads.
Tab == [page : Pages, id : Ids \union {0}, verifier : Ids \union {0}, until : Times,
        held : Ids \union {0}, try : 0 .. Attempts, session : Token,
        answer : Replies, token : Token, message : Messages]

TypeOK ==
    /\ now \in 0 .. MaxClock
    /\ tabs \in [Tabs -> Tab]
    /\ cookie \in Ids \union {0}
    /\ stored \in [Ids -> Times]
    /\ handoffs \in [Ids -> Handoff]
    /\ exchanges \subseteq Exchange
    /\ issued \in [Ids -> Nat]
    /\ started \in 0 .. MaxStarts /\ moves \in 0 .. MaxMoves /\ faults \in 0 .. MaxFaults
    /\ given \subseteq [token : Token, channel : Channels]

NewTab == [page |-> "signinGate", id |-> 0, verifier |-> 0, until |-> 0, held |-> 0, try |-> 0,
           session |-> None, answer |-> "", token |-> None, message |-> ""]

Init ==
    /\ now = 0
    /\ tabs = [t \in Tabs |-> NewTab]
    /\ cookie = 0
    /\ stored = [s \in Ids |-> 0]
    /\ handoffs = [s \in Ids |-> NoHandoff]
    /\ exchanges = {}
    /\ issued = [s \in Ids |-> 0]
    /\ started = 0 /\ moves = 0 /\ faults = 0
    /\ given = {}

Show(t, page, message) ==
    tabs' = [tabs EXCEPT ![t] = [@ EXCEPT !.page = page, !.message = message, !.held = 0, !.try = 0,
                                          !.answer = "", !.token = None]]

Fault == faults < MaxFaults /\ faults' = faults + 1

\* The codes the API redirects back with read as one message here.
redirectError == "failed"

getSsoCompletionErrorMessage ==
    [handoff_invalid |-> "used", network_error |-> "offline", sso_unavailable |-> "unavailable",
     exchange_failed |-> "failed"]

----------------------------------------------------------------------------
(* The gates. *)

\* currentUser: a token that has expired is no session.
SignedIn(t) == tabs[t].session # None /\ tabs[t].session.exp > now

\* Mutant: the sign-in screen's gate looks for a token only.
HasToken(t) == tabs[t].session # None

SeenBySignIn(t) == SignedIn(t)

\* The shell paints the dashboard for a session only.
DashboardShell(t) == IF SignedIn(t) THEN "dashboard" ELSE "signinGate"

useRequireAuth(t) ==
    /\ tabs[t].page = "dashboardGate"
    /\ Show(t, DashboardShell(t), "")
    /\ UNCHANGED <<now, api, bounds>>

SignInGate(t) == IF SeenBySignIn(t) THEN "dashboardGate" ELSE "signin"

useRedirectAuthed(t) ==
    /\ tabs[t].page = "signinGate"
    /\ Show(t, SignInGate(t), IF SeenBySignIn(t) THEN "" ELSE tabs[t].message)
    /\ UNCHANGED <<now, api, bounds>>

----------------------------------------------------------------------------
(* Leaving for Google and coming back. *)

\* A fresh verifier takes the place of the one stored before.
storeVerifier(tab, v) == [tab EXCEPT !.verifier = v, !.until = now + StateTTL]

startGoogleSignIn(t) ==
    /\ started < MaxStarts /\ started' = started + 1
    /\ tabs' = [tabs EXCEPT ![t] = [storeVerifier(@, started') EXCEPT !.page = "leaving",
                                                                     !.message = ""]]

signInWithGoogle(t) ==
    /\ tabs[t].page = "signin"
    /\ startGoogleSignIn(t)
    /\ UNCHANGED <<now, api, moves, faults>>

\* The start is refused, or the state store fails: back to the sign-in screen.
GoogleLoginRefused(t) ==
    /\ tabs[t].page = "leaving"
    /\ Show(t, "signinGate", redirectError)
    /\ UNCHANGED <<now, api, bounds>>

GoogleLogin(t) ==
    /\ tabs[t].page = "leaving"
    /\ stored' = [stored EXCEPT ![tabs[t].verifier] = now + StateTTL]
    /\ cookie' = tabs[t].verifier
    /\ tabs' = [tabs EXCEPT ![t] = [@ EXCEPT !.page = "google", !.id = tabs[t].verifier]]
    /\ UNCHANGED <<now, handoffs, exchanges, issued, given, bounds>>

\* The callback of another state than the cookie's leaves all as it is.
StateMismatch(t) ==
    /\ tabs[t].page = "google" /\ cookie # tabs[t].id
    /\ Show(t, "signinGate", redirectError)
    /\ UNCHANGED <<now, api, bounds>>

\* Consent denied, no code, a state that has lapsed, or a failure of Valkey, Google or
\* Postgres before the handoff is stored: the state is taken and no handoff made.
GoogleCallbackFails(t) ==
    /\ tabs[t].page = "google" /\ cookie = tabs[t].id
    /\ cookie' = 0
    /\ stored' = [stored EXCEPT ![tabs[t].id] = 0]
    /\ Show(t, "signinGate", redirectError)
    /\ UNCHANGED <<now, handoffs, exchanges, issued, given, bounds>>

\* GoogleCallback takes the state and stores a handoff; when its answer is lost the tab is
\* still at Google, and the browser has its cookie.
GoogleCallback(t) ==
    LET s == tabs[t].id
    IN /\ tabs[t].page = "google" /\ cookie = s
       /\ stored[s] > now
       /\ stored' = [stored EXCEPT ![s] = 0]
       /\ handoffs' = [handoffs EXCEPT ![s] = [NoHandoff EXCEPT !.until = now + HandoffTTL]]
       /\ \/ cookie' = 0 /\ Show(t, "callback", "") /\ UNCHANGED faults
          \/ Fault /\ UNCHANGED <<cookie, tabs>>
       /\ UNCHANGED <<now, exchanges, issued, given, started, moves>>

----------------------------------------------------------------------------
(* The callback page. *)

\* The verifier in storage, which taking it clears, or none when it has expired.
takeVerifier(tab) == IF tab.until < now THEN 0 ELSE tab.verifier

\* The page starts once, strips the handoff from the URL and takes the verifier, even when it
\* was opened without a handoff.
AuthCallbackPage(t) ==
    LET tab == [tabs[t] EXCEPT !.verifier = 0, !.until = 0]
        verifier == takeVerifier(tabs[t])
    IN /\ tab.page = "callback"
       /\ \/ /\ verifier # 0 /\ tab.id # 0
             /\ tabs' = [tabs EXCEPT ![t] = [tab EXCEPT !.page = "waiting", !.held = verifier,
                                                        !.try = 1, !.message = ""]]
          \/ /\ verifier = 0 \/ tab.id = 0
             /\ tabs' = [tabs EXCEPT ![t] = [tab EXCEPT !.page = "failed",
                                                        !.message = "expired"]]
       /\ UNCHANGED <<now, api, bounds>>

\* exchangeOnce, after the delay of its try.
exchangeOnce(t) ==
    LET tab == tabs[t]
    IN /\ tab.page = "waiting"
       /\ tabs' = [tabs EXCEPT ![t] = [@ EXCEPT !.page = "exchanging"]]
       /\ exchanges' = exchanges \union
            {[tab |-> t, try |-> tab.try, id |-> tab.id, verifier |-> tab.held,
              channel |-> "body", stage |-> "sent", token |-> None, at |-> 0]}
       /\ UNCHANGED <<now, cookie, stored, handoffs, issued, given, bounds>>

\* The page says why and offers the way back.
Fails(t, code) == Show(t, "failed", getSsoCompletionErrorMessage[code])

\* exchangeHandoff: the next delay, or the last error.
NextTry(t, code) ==
    IF tabs[t].try < Attempts
    THEN tabs' = [tabs EXCEPT ![t] = [@ EXCEPT !.page = "waiting", !.try = tabs[t].try + 1,
                                               !.answer = "", !.token = None]]
    ELSE Fails(t, code)

\* The fetch fails, or is aborted because no headers came in time, whatever the API makes of it.
NetworkError(t) ==
    /\ tabs[t].page = "exchanging"
    /\ NextTry(t, "network_error")
    /\ UNCHANGED <<now, api, bounds>>

\* The page a request came from still waits for it.
Awaited(e) == /\ e.tab \in Tabs
              /\ tabs[e.tab].page = "exchanging"
              /\ tabs[e.tab].try = e.try /\ tabs[e.tab].id = e.id

\* The headers end the timer; the body is then awaited without one.
Answer(e, answer, token) ==
    /\ exchanges' = exchanges \ {e}
    /\ IF Awaited(e)
       THEN tabs' = [tabs EXCEPT ![e.tab] = [@ EXCEPT !.page = "reading", !.answer = answer,
                                                    !.token = token]]
       ELSE UNCHANGED tabs

SignsIn(e, token) ==
    /\ given' = given \union {[token |-> token, channel |-> e.channel]}
    /\ Answer(e, "ok", token)

Refuse(e) == Answer(e, "handoff_invalid", None) /\ UNCHANGED given

Unavailable(e) == Answer(e, "sso_unavailable", None) /\ UNCHANGED given

\* The body is read: storeToken and replace; 401 handoff_invalid is not retried, 503
\* sso_unavailable is.
ReadAnswer(t) ==
    LET tab == tabs[t]
    IN /\ tab.page = "reading"
       /\ \/ /\ tab.answer = "ok"
             /\ tabs' = [tabs EXCEPT ![t] = [@ EXCEPT !.page = "dashboardGate", !.held = 0, !.try = 0,
                                                      !.session = tab.token, !.answer = "",
                                                      !.token = None]]
          \/ tab.answer = "handoff_invalid" /\ Fails(t, "handoff_invalid")
          \/ tab.answer = "sso_unavailable" /\ NextTry(t, "sso_unavailable")
       /\ UNCHANGED <<now, api, bounds>>

\* A body that breaks off, or holds neither token nor code, is not asked for again, unless the
\* status says 503.
AnswerBroken(t) ==
    /\ tabs[t].page = "reading" /\ tabs[t].answer \in {"ok", "handoff_invalid"}
    /\ Fails(t, "exchange_failed")
    /\ UNCHANGED <<now, api, bounds>>

----------------------------------------------------------------------------
(* Redeem. *)

\* A client of the other channel, which sends the cookie and no verifier.
CookieClient(s) ==
    /\ moves < MaxMoves /\ moves' = moves + 1
    /\ handoffs[s].until > 0
    /\ exchanges' = exchanges \union
         {[tab |-> "other", try |-> 0, id |-> s, verifier |-> 0, channel |-> "cookie",
           stage |-> "sent", token |-> None, at |-> 0]}
    /\ UNCHANGED <<now, tabs, cookie, stored, handoffs, issued, given, started, faults>>

Live(e) == handoffs[e.id].until > now
Verified(e) == e.channel = "body" => e.verifier = e.id

replay(e) ==
    IF handoffs[e.id].channel = e.channel THEN SignsIn(e, handoffs[e.id].token) ELSE Refuse(e)

\* FindByCodeHash and what Redeem does up to issuing a token.
Find(e) ==
    /\ e \in exchanges /\ e.stage = "sent"
    /\ \/ ~(Live(e) /\ Verified(e)) /\ Refuse(e) /\ UNCHANGED issued
       \/ Live(e) /\ Verified(e) /\ handoffs[e.id].token # None
          /\ replay(e) /\ UNCHANGED issued
       \/ /\ Live(e) /\ Verified(e) /\ handoffs[e.id].token = None
          /\ issued' = [issued EXCEPT ![e.id] = @ + 1]
          /\ exchanges' = (exchanges \ {e}) \union
               {[e EXCEPT !.stage = "read", !.at = now,
                          !.token = [of |-> e.id, n |-> issued'[e.id], exp |-> now + SessionTTL]]}
          /\ UNCHANGED <<tabs, given>>
    /\ UNCHANGED <<now, cookie, stored, handoffs, bounds>>

\* A failure of the database reads like a wrong code (handoff.go:25).
FindFails(e) ==
    /\ e \in exchanges /\ Fault
    /\ Refuse(e)
    /\ UNCHANGED <<now, cookie, stored, handoffs, issued, started, moves>>

Claimed(e) == [until |-> e.at + ReplayTTL, channel |-> e.channel, token |-> e.token]

\* Mutant: the claim takes the handoff from another redeem.
AlwaysClaims(e) == TRUE

Claims(e) == handoffs[e.id].channel = ""

\* Mutant: a lost claim is refused, with no second look.
RefuseLost(e) == Refuse(e)

\* The second FindByCodeHash.
LostClaim(e) == IF Live(e) THEN replay(e) ELSE Refuse(e)

\* Claim is one UPDATE; the redeem that loses it answers what the other sealed.
Claim(e) ==
    /\ e \in exchanges /\ e.stage = "read"
    /\ IF Claims(e)
       THEN handoffs' = [handoffs EXCEPT ![e.id] = Claimed(e)] /\ SignsIn(e, e.token)
       ELSE LostClaim(e) /\ UNCHANGED handoffs
    /\ UNCHANGED <<now, cookie, stored, issued, bounds>>

\* The claim fails, or its commit went through and the answer did not.
ClaimFails(e) ==
    /\ e \in exchanges /\ e.stage = "read" /\ Fault
    /\ \/ UNCHANGED handoffs
       \/ Claims(e) /\ handoffs' = [handoffs EXCEPT ![e.id] = Claimed(e)]
    /\ Unavailable(e)
    /\ UNCHANGED <<now, cookie, stored, issued, started, moves>>

----------------------------------------------------------------------------
(* The user, and time. *)

Move == moves < MaxMoves /\ moves' = moves + 1

\* signOut forgets the token at once and then waits for the API.
signOut(t) ==
    /\ tabs[t].page = "dashboard" /\ Move
    /\ tabs' = [tabs EXCEPT ![t] = [@ EXCEPT !.page = "signingOut", !.session = None]]
    /\ UNCHANGED <<now, api, started, faults>>

\* requestLogout ends, however it does; it has no timer.
LoggedOut(t) ==
    /\ tabs[t].page = "signingOut"
    /\ Show(t, "signinGate", "")
    /\ UNCHANGED <<now, api, bounds>>

\* Any page is left for another, whose gate reads the session again.  The callback page has no
\* handoff in its URL any more, and the browser may go back to Google's page of an earlier start.
Visit(t) ==
    /\ Move
    /\ \/ \E page \in {"signinGate", "dashboardGate"} : Show(t, page, "")
       \/ /\ tabs[t].page \in {"failed", "signin"}
          /\ tabs' = [tabs EXCEPT ![t] = [@ EXCEPT !.page = "callback", !.id = 0, !.message = ""]]
       \/ /\ tabs[t].page \in {"failed", "signin", "leaving"} /\ tabs[t].id # 0
          /\ Show(t, "google", "")
    /\ UNCHANGED <<now, api, started, faults>>

Tick ==
    /\ now < MaxClock
    /\ now' = now + 1
    /\ UNCHANGED <<tabs, api, bounds>>

\* What a tab does by itself, and what it awaits without a timer.
TabStep(t) ==
    \/ useRequireAuth(t) \/ useRedirectAuthed(t)
    \/ GoogleLogin(t) \/ GoogleLoginRefused(t)
    \/ AuthCallbackPage(t) \/ exchangeOnce(t) \/ NetworkError(t)

Awaits(t) == ReadAnswer(t) \/ AnswerBroken(t) \/ LoggedOut(t)

Redeem(e) == Find(e) \/ FindFails(e) \/ Claim(e) \/ ClaimFails(e)

Next ==
    \/ \E t \in Tabs :
          \/ TabStep(t) \/ Awaits(t)
          \/ signInWithGoogle(t)
          \/ StateMismatch(t) \/ GoogleCallbackFails(t) \/ GoogleCallback(t)
          \/ signOut(t) \/ Visit(t)
    \/ \E e \in exchanges : Redeem(e)
    \/ \E s \in Ids : CookieClient(s)
    \/ Tick

Spec == Init /\ [][Next]_vars

\* Timers fire and navigations end; the headers of an exchange come within REQUEST_TIMEOUT_MS
\* or not at all.  Nothing ends the body of an answer or the logout.
FairSpec == Spec /\ \A t \in Tabs : WF_vars(TabStep(t))

----------------------------------------------------------------------------
(* Properties. *)

\* However often, at once and over which channels a handoff is redeemed, every answer carries
\* the one token of the redeem that claimed it (handoff.go:42).
OneTokenPerHandoff ==
    \A a, b \in given : a.token.of = b.token.of => a = b

\* The callback page says that its sign-in expired or was already used only when it was told
\* so, and it is told so only when it was: the handoff or its minute of replay has lapsed,
\* another channel has it, or the verifier is another start's.  Its own tries, of which an
\* earlier one may have claimed the handoff or be about to, never use it up; a failure of the
\* database is the one exception (handoff.go:102).
OnlyLateIsRefused ==
    [][ \A t \in Tabs :
          LET tab == tabs[t]
          IN /\ tabs'[t].message = "used" => tab.message = "used" \/ tab.answer = "handoff_invalid"
             /\ tab.answer = "" /\ tabs'[t].answer = "handoff_invalid" /\ faults' = faults
                => \/ handoffs[tab.id].until <= now
                   \/ handoffs[tab.id].channel = "cookie"
                   \/ tab.held # tab.id ]_vars

Settled == {"signin", "google", "failed", "dashboard"}

\* Every page comes to rest: the callback page ends on the dashboard or on a message, and
\* the two gates never send a visitor back and forth (useRequireAuth, useRedirectAuthed).  The
\* body of an answer (sso-client.ts:130) and the logout (sso-client.ts:169), which no
\* timer ends, are all that can keep one from it: where they end, it settles.
EveryVisitSettles ==
    \A t \in Tabs :
        WF_vars(Awaits(t)) => (tabs[t].page \notin Settled ~> tabs[t].page \in Settled)
=============================================================================
