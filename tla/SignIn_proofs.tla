----------------------------- MODULE SignIn_proofs -----------------------------
(***************************************************************************)
(* For any number of tabs, sign-ins, tries and clients of either channel,  *)
(* and whichever answers are lost or late: a handoff is redeemed for one   *)
(* token only, and the callback page's own tries never use it up.          *)
(***************************************************************************)
EXTENDS SignIn, TLAPS

\* Sign-in s has not come to the API.
Unused(s) ==
    /\ stored[s] = 0 /\ handoffs[s] = NoHandoff
    /\ \A e \in exchanges : e.id # s
    /\ \A t \in Tabs : tabs[t].id # s

\* A verifier that was not taken yet is new, and a tab that leaves has one to itself.
Verifiers ==
    /\ \A s \in Ids : s > started => Unused(s)
    /\ \A t \in Tabs :
         /\ tabs[t].verifier <= started
         /\ tabs[t].page = "leaving" =>
              /\ tabs[t].verifier # 0
              /\ Unused(tabs[t].verifier)
              /\ \A u \in Tabs \ {t} :
                   tabs[u].page = "leaving" => tabs[u].verifier # tabs[t].verifier

\* While a state is pending no handoff was made of it and none was asked for.
Pending ==
    \A s \in Ids : stored[s] > 0 =>
        /\ handoffs[s] = NoHandoff
        /\ \A e \in exchanges : e.id # s
        /\ \A t \in Tabs :
             tabs[t].id = s => tabs[t].page \notin {"callback", "waiting", "exchanging", "reading"}

\* A page that needs a sign-in is in one.
Placed == \A t \in Tabs : tabs[t].page \in {"google", "waiting", "exchanging", "reading"} => tabs[t].id # 0

\* A redeem that signed a token signed one of its handoff; the requests of the page's
\* present visit carry the verifier it holds.
Requests ==
    \A e \in exchanges :
        /\ e.stage = "read" => e.token.of = e.id
        /\ e.tab \in Tabs =>
             /\ e.channel = "body"
             /\ tabs[e.tab].id = e.id =>
                  /\ tabs[e.tab].page # "callback"
                  /\ tabs[e.tab].page \in {"waiting", "exchanging", "reading"} =>
                       e.verifier = tabs[e.tab].held

\* A handoff has a channel when it has a token, one of its own.
Sealed ==
    \A s \in Ids :
        /\ handoffs[s].channel = "" <=> handoffs[s].token = None
        /\ handoffs[s].token # None => handoffs[s].token.of = s

\* Every token answered is the one its handoff keeps, with its channel.
Answered ==
    \A g \in given :
        /\ g.token # None
        /\ handoffs[g.token.of].token = g.token /\ handoffs[g.token.of].channel = g.channel

IInv == TypeOK /\ Verifiers /\ Pending /\ Placed /\ Requests /\ Sealed /\ Answered

----------------------------------------------------------------------------
(* What a step does to a tab. *)

\* The bounds are numbers, and so is every time there is.
LEMMA Numbers ==
    /\ Attempts \in Nat \ {0} /\ StateTTL \in Nat \ {0} /\ HandoffTTL \in Nat \ {0}
    /\ ReplayTTL \in Nat \ {0} /\ SessionTTL \in Nat \ {0}
    /\ MaxStarts \in Nat /\ MaxMoves \in Nat /\ MaxFaults \in Nat /\ MaxClock \in Nat
  BY SignInAssumption

\* The words a tab may hold.
LEMMA Words ==
    /\ {"google", "callback", "leaving", "waiting", "exchanging", "reading", "failed", "signinGate",
        "dashboardGate", "signingOut"} \subseteq Pages
    /\ {"", "failed", "expired", "used"} \subseteq Messages /\ "" \in Replies
  BY DEF Pages, Messages, Replies

\* The pages of a sign-in under way.
Enroute == {"leaving", "google", "callback", "waiting", "exchanging", "reading"}

\* How a step changes a tab: it comes to rest, leaves with a new verifier, ...
Rests(old, new) ==
    new.page \notin Enroute /\ new.id = old.id /\ new.verifier \in {old.verifier, 0}
Leaves(old, new) ==
    new.page = "leaving" /\ new.id = old.id /\ new.verifier = started + 1 /\ started' = started + 1

\* ... goes to Google with it, goes back there, ...
Enters(old, new) ==
    /\ old.page = "leaving" /\ new.page = "google"
    /\ new.id = old.verifier /\ new.verifier = old.verifier
Returns(old, new) ==
    new.page = "google" /\ old.id # 0 /\ new.id = old.id /\ new.verifier = old.verifier

\* ... comes to the callback page from Google or without a handoff, ...
ComesBack(old, new) ==
    /\ old.page = "google" /\ new.page = "callback"
    /\ new.id = old.id /\ new.verifier = old.verifier
    /\ old.id \in Ids => stored[old.id] > now /\ stored'[old.id] = 0
Empties(old, new) ==
    new.page = "callback" /\ new.id = 0 /\ new.verifier = old.verifier

\* ... takes the verifier, or asks once more.
Takes(old, new) ==
    /\ old.page = "callback" /\ new.page = "waiting"
    /\ old.id # 0 /\ new.id = old.id /\ new.verifier = 0
Tries(old, new) ==
    /\ {old.page, new.page} \subseteq {"waiting", "exchanging", "reading"}
    /\ new.id = old.id /\ new.held = old.held /\ new.verifier = old.verifier

Changes(old, new) ==
    \/ Rests(old, new) \/ Leaves(old, new) \/ Enters(old, new) \/ Returns(old, new)
    \/ ComesBack(old, new) \/ Empties(old, new) \/ Takes(old, new) \/ Tries(old, new)

\* A tab says that its sign-in was used when it said so before or was told so.
Says(old, new) == new.message = "used" => old.message = "used" \/ old.answer = "handoff_invalid"

\* One tab changes.
Becomes(t, tab) ==
    /\ tab \in Tab /\ tabs' = [tabs EXCEPT ![t] = tab]
    /\ Changes(tabs[t], tab) /\ Says(tabs[t], tab)

\* It is told nothing.
Untold(t, tab) == tab.answer \in {"", tabs[t].answer}

\* The part of TypeOK that is about tabs, and the rest.
TabsOK == tabs \in [Tabs -> Tab]
ApiOK == /\ now \in 0 .. MaxClock
         /\ cookie \in Ids \union {0} /\ stored \in [Ids -> Times] /\ handoffs \in [Ids -> Handoff]
         /\ exchanges \subseteq Exchange /\ issued \in [Ids -> Nat]
         /\ started \in 0 .. MaxStarts /\ moves \in 0 .. MaxMoves /\ faults \in 0 .. MaxFaults
         /\ given \subseteq [token : Token, channel : Channels]

\* A page that shows a message has come to rest.
LEMMA ShownRests ==
    ASSUME TabsOK, NEW t \in Tabs, NEW page \in Pages \ Enroute, NEW message \in Messages,
           message = "used" => tabs[t].message = "used" \/ tabs[t].answer = "handoff_invalid",
           Show(t, page, message)
    PROVE  \E tab : Becomes(t, tab) /\ Untold(t, tab)
  <1> DEFINE tab == [tabs[t] EXCEPT !.page = page, !.message = message, !.held = 0, !.try = 0,
                                    !.answer = "", !.token = None]
  <1>0. /\ tabs[t] \in Tab /\ 0 \in 0 .. Attempts /\ None \in Token
        /\ page \in Pages /\ page \notin Enroute
    BY Numbers DEF TabsOK, Token
  <1>1. /\ tab \in Tab /\ tab.page = page /\ tab.message = message /\ tab.answer = ""
        /\ tab.id = tabs[t].id /\ tab.verifier = tabs[t].verifier
    BY <1>0, Words DEF Tab
  <1>4. tabs' = [tabs EXCEPT ![t] = tab]
    BY DEF Show
  <1> HIDE DEF tab
  <1>2. Changes(tabs[t], tab)
    BY <1>0, <1>1 DEF Changes, Rests
  <1>3. Says(tabs[t], tab) /\ Untold(t, tab)
    BY <1>1 DEF Says, Untold
  <1> QED
    BY <1>1, <1>2, <1>3, <1>4 DEF Becomes

\* A tab whose verifier was taken, and what it shows then.
Emptied(a) == [a EXCEPT !.verifier = 0, !.until = 0]
Asks(a, held) == [Emptied(a) EXCEPT !.page = "waiting", !.held = held, !.try = 1, !.message = ""]
Expired(a) == [Emptied(a) EXCEPT !.page = "failed", !.message = "expired"]

\* They are tabs.
LEMMA Taken ==
    ASSUME NEW a \in Tab, NEW held \in Ids \union {0}
    PROVE  /\ Emptied(a).page = a.page /\ Emptied(a).id = a.id
           /\ Asks(a, held) \in Tab /\ Expired(a) \in Tab
           /\ Asks(a, held).page = "waiting" /\ Expired(a).page = "failed"
           /\ Asks(a, held).id = a.id /\ Expired(a).id = a.id
           /\ Asks(a, held).verifier = 0 /\ Expired(a).verifier = 0
           /\ Asks(a, held).held = held
           /\ Asks(a, held).answer = a.answer /\ Expired(a).answer = a.answer
           /\ Asks(a, held).message = "" /\ Expired(a).message = "expired"
  <1>1. 0 \in Times /\ 1 \in 0 .. Attempts
    BY Numbers DEF Times
  <1>2. /\ Emptied(a) \in Tab /\ Emptied(a).page = a.page
        /\ Emptied(a).id = a.id /\ Emptied(a).verifier = 0 /\ Emptied(a).answer = a.answer
    BY <1>1 DEF Emptied, Tab
  <1>3. ASSUME NEW b \in Tab
        PROVE  LET c == [b EXCEPT !.page = "waiting", !.held = held, !.try = 1, !.message = ""]
               IN /\ c \in Tab /\ c.page = "waiting" /\ c.held = held
                  /\ c.id = b.id /\ c.verifier = b.verifier
                  /\ c.answer = b.answer /\ c.message = ""
    <2> DEFINE c == [b EXCEPT !.page = "waiting", !.held = held, !.try = 1, !.message = ""]
    <2>0. "waiting" \in Pages /\ "" \in Messages /\ 1 \in 0 .. Attempts
      BY <1>1, Words
    <2>1. c \in Tab
      BY <2>0 DEF Tab
    <2>2. /\ c.page = "waiting" /\ c.held = held /\ c.id = b.id /\ c.verifier = b.verifier
          /\ c.answer = b.answer /\ c.message = ""
      BY SMTT(30) DEF Tab
    <2> QED
      BY <2>1, <2>2
  <1>4. ASSUME NEW b \in Tab
        PROVE  LET d == [b EXCEPT !.page = "failed", !.message = "expired"]
               IN /\ d \in Tab /\ d.page = "failed"
                  /\ d.id = b.id /\ d.verifier = b.verifier
                  /\ d.answer = b.answer /\ d.message = "expired"
    <2> DEFINE d == [b EXCEPT !.page = "failed", !.message = "expired"]
    <2>0. "failed" \in Pages /\ "expired" \in Messages
      BY Words
    <2>1. d \in Tab
      BY <2>0 DEF Tab
    <2>2. /\ d.page = "failed" /\ d.id = b.id /\ d.verifier = b.verifier
          /\ d.answer = b.answer /\ d.message = "expired"
      BY SMTT(30) DEF Tab
    <2> QED
      BY <2>1, <2>2
  <1> QED
    BY <1>2, <1>3, <1>4 DEF Asks, Expired

\* A try that failed is followed by the next, or by the message.
LEMMA NextTries ==
    ASSUME TabsOK, NEW t \in Tabs, tabs[t].page \in {"exchanging", "reading"},
           NEW code \in DOMAIN getSsoCompletionErrorMessage,
           code = "handoff_invalid" => tabs[t].answer = "handoff_invalid",
           NextTry(t, code) \/ Fails(t, code)
    PROVE  \E tab : Becomes(t, tab) /\ Untold(t, tab)
  <1>0. tabs[t] \in Tab /\ None \in Token
    BY DEF TabsOK, Token
  <1>1. CASE Fails(t, code)
    <2>0. code \in {"handoff_invalid", "network_error", "sso_unavailable", "exchange_failed"}
      BY DEF getSsoCompletionErrorMessage
    <2>1. /\ getSsoCompletionErrorMessage[code] \in Messages
          /\ getSsoCompletionErrorMessage[code] = "used" => code = "handoff_invalid"
      <3>1. /\ getSsoCompletionErrorMessage["handoff_invalid"] = "used"
            /\ getSsoCompletionErrorMessage["network_error"] = "offline"
            /\ getSsoCompletionErrorMessage["sso_unavailable"] = "unavailable"
            /\ getSsoCompletionErrorMessage["exchange_failed"] = "failed"
        BY DEF getSsoCompletionErrorMessage
      <3> HIDE DEF getSsoCompletionErrorMessage
      <3> QED
        BY <2>0, <3>1 DEF Messages
    <2> HIDE DEF getSsoCompletionErrorMessage
    <2> QED
      BY <1>1, <2>1, ShownRests DEF Fails, Pages, Enroute
  <1>2. CASE ~Fails(t, code)
    <2> DEFINE next == [tabs[t] EXCEPT !.page = "waiting", !.try = tabs[t].try + 1,
                                       !.answer = "", !.token = None]
    <2>1. tabs[t].try < Attempts /\ tabs' = [tabs EXCEPT ![t] = next]
      BY <1>2 DEF NextTry
    <2>2. tabs[t].try + 1 \in 0 .. Attempts
      <3>1. tabs[t].try < Attempts /\ tabs[t].try \in 0 .. Attempts
        BY <1>0, <2>1, Words DEF Tab
      <3> QED
        BY <3>1, Numbers
    <2>3. /\ next \in Tab /\ next.page = "waiting" /\ next.id = tabs[t].id
          /\ next.verifier = tabs[t].verifier /\ next.held = tabs[t].held
          /\ next.answer = "" /\ next.message = tabs[t].message
      BY <1>0, <2>2, Words DEF Tab
    <2>4. next \in Tab /\ tabs' = [tabs EXCEPT ![t] = next]
      BY <2>1, <2>3
    <2> HIDE DEF next
    <2>5. Tries(tabs[t], next) /\ Says(tabs[t], next) /\ Untold(t, next)
      BY <2>3 DEF Tries, Says, Untold
    <2>6. Changes(tabs[t], next)
      BY <2>5 DEF Changes
    <2> QED
      BY <2>4, <2>5, <2>6 DEF Becomes
  <1> QED
    BY <1>1, <1>2

\* The steps of a tab by itself.
LEMMA TabChanges ==
    ASSUME TabsOK, ApiOK, NEW t \in Tabs,
           \/ TabStep(t) \/ Awaits(t) \/ signInWithGoogle(t) \/ StateMismatch(t) \/ GoogleCallbackFails(t)
           \/ GoogleCallback(t) \/ signOut(t) \/ Visit(t)
    PROVE  UNCHANGED tabs \/ \E tab : Becomes(t, tab) /\ Untold(t, tab)
  <1> USE DEF TabsOK
  <1>0. /\ tabs[t] \in Tab /\ {"", "failed", redirectError} \subseteq Messages
        /\ redirectError # "used" /\ "" # "used" /\ 0 \in 0 .. Attempts /\ None \in Token
    BY Numbers DEF Messages, redirectError, Token
  <1>1. CASE useRequireAuth(t)
    BY <1>0, <1>1, ShownRests DEF useRequireAuth, DashboardShell, Pages, Enroute
  <1>2. CASE useRedirectAuthed(t)
    <2>1. tabs[t].message \in Messages
      BY <1>0 DEF Tab, Messages
    <2> QED
      BY <1>0, <1>2, <2>1, ShownRests DEF useRedirectAuthed, SignInGate, Pages, Enroute
  <1>3. CASE GoogleLogin(t)
    <2> DEFINE tab == [tabs[t] EXCEPT !.page = "google", !.id = tabs[t].verifier]
    <2>1. tab \in Tab /\ tab.page = "google" /\ tab.id = tabs[t].verifier
          /\ tab.verifier = tabs[t].verifier
          /\ tab.answer = tabs[t].answer /\ tab.message = tabs[t].message
      BY <1>0, Words DEF Tab
    <2>2. tabs' = [tabs EXCEPT ![t] = tab] /\ tabs[t].page = "leaving"
      BY <1>3 DEF GoogleLogin
    <2> HIDE DEF tab
    <2> QED
      BY <2>1, <2>2 DEF Becomes, Changes, Enters, Says, Untold
  <1>4. CASE GoogleLoginRefused(t) \/ StateMismatch(t) \/ GoogleCallbackFails(t)
    BY <1>0, <1>4, ShownRests
       DEF GoogleLoginRefused, StateMismatch, GoogleCallbackFails, Pages, Enroute
  <1>5. CASE AuthCallbackPage(t)
    <2>1. takeVerifier(tabs[t]) \in Ids \union {0}
      BY <1>0 DEF takeVerifier, Tab
    <2> DEFINE c == Asks(tabs[t], takeVerifier(tabs[t]))
               d == Expired(tabs[t])
    <2>2. /\ Emptied(tabs[t]).page = tabs[t].page /\ Emptied(tabs[t]).id = tabs[t].id
          /\ c \in Tab /\ c.page = "waiting" /\ c.id = tabs[t].id /\ c.verifier = 0
          /\ d \in Tab /\ d.page = "failed" /\ d.id = tabs[t].id /\ d.verifier = 0
          /\ c.answer = tabs[t].answer /\ d.answer = tabs[t].answer
          /\ c.message = "" /\ d.message = "expired"
      BY <1>0, <2>1, Taken
    <2>3. /\ Emptied(tabs[t]).page = "callback"
          /\ \/ tabs' = [tabs EXCEPT ![t] = c] /\ Emptied(tabs[t]).id # 0
             \/ tabs' = [tabs EXCEPT ![t] = d]
      BY <1>5 DEF AuthCallbackPage, Asks, Expired, Emptied
    <2> HIDE DEF c, d
    <2> QED
      BY <2>2, <2>3 DEF Becomes, Changes, Takes, Rests, Enroute, Says, Untold
  <1>6. CASE exchangeOnce(t)
    <2> DEFINE tab == [tabs[t] EXCEPT !.page = "exchanging"]
    <2>1. /\ tab \in Tab /\ tab.page = "exchanging" /\ tab.id = tabs[t].id
          /\ tab.verifier = tabs[t].verifier /\ tab.held = tabs[t].held
          /\ tab.answer = tabs[t].answer /\ tab.message = tabs[t].message
      BY <1>0, Words DEF Tab
    <2>2. tabs' = [tabs EXCEPT ![t] = tab] /\ tabs[t].page = "waiting"
      BY <1>6 DEF exchangeOnce
    <2> HIDE DEF tab
    <2> QED
      BY <2>1, <2>2 DEF Becomes, Changes, Tries, Says, Untold
  <1>7. CASE NetworkError(t)
    <2>1. NextTry(t, "network_error") /\ tabs[t].page = "exchanging"
      BY <1>7 DEF NetworkError
    <2>2. "network_error" \in DOMAIN getSsoCompletionErrorMessage
      BY DEF getSsoCompletionErrorMessage
    <2> QED
      BY <2>1, <2>2, NextTries
  <1>13. CASE ReadAnswer(t)
    <2>1. CASE /\ tabs' = [tabs EXCEPT ![t] = [@ EXCEPT !.page = "dashboardGate", !.held = 0, !.try = 0,
                                                      !.session = tabs[t].token, !.answer = "",
                                                      !.token = None]]
      <3> DEFINE next == [tabs[t] EXCEPT !.page = "dashboardGate", !.held = 0, !.try = 0,
                                         !.session = tabs[t].token, !.answer = "", !.token = None]
      <3>1. /\ next \in Tab /\ next.page = "dashboardGate" /\ next.id = tabs[t].id
            /\ next.verifier = tabs[t].verifier /\ next.answer = "" /\ next.message = tabs[t].message
        BY <1>0, Words DEF Tab
      <3>2. tabs' = [tabs EXCEPT ![t] = next]
        BY <2>1
      <3> HIDE DEF next
      <3> QED
        BY <3>1, <3>2 DEF Becomes, Changes, Rests, Enroute, Says, Untold
    <2>2. "handoff_invalid" \in DOMAIN getSsoCompletionErrorMessage
          /\ "sso_unavailable" \in DOMAIN getSsoCompletionErrorMessage
      BY DEF getSsoCompletionErrorMessage
    <2>3. CASE tabs[t].answer = "handoff_invalid" /\ Fails(t, "handoff_invalid")
      BY <1>13, <2>2, <2>3, NextTries DEF ReadAnswer
    <2>4. CASE NextTry(t, "sso_unavailable")
      BY <1>13, <2>2, <2>4, NextTries DEF ReadAnswer
    <2> QED
      BY <1>13, <2>1, <2>3, <2>4 DEF ReadAnswer
  <1>14. CASE AnswerBroken(t)
    <2>1. "exchange_failed" \in DOMAIN getSsoCompletionErrorMessage
      BY DEF getSsoCompletionErrorMessage
    <2> QED
      BY <1>14, <2>1, NextTries DEF AnswerBroken
  <1>8. CASE LoggedOut(t)
    BY <1>0, <1>8, ShownRests DEF LoggedOut, Pages, Enroute
  <1>9. CASE signInWithGoogle(t)
    <2> DEFINE a == [tabs[t] EXCEPT !.verifier = started', !.until = now + StateTTL]
               tab == [a EXCEPT !.page = "leaving", !.message = ""]
    <2>0. started' = started + 1 /\ started < MaxStarts
      BY <1>9 DEF signInWithGoogle, startGoogleSignIn
    <2>1. started' = started + 1 /\ started' \in Ids /\ now + StateTTL \in Times
      BY <2>0, Numbers DEF ApiOK, Ids, Times
    <2>2. a \in Tab /\ a.verifier = started' /\ a.id = tabs[t].id /\ a.answer = tabs[t].answer
      BY <1>0, <2>1, Words DEF Tab
    <2>3. tabs' = [tabs EXCEPT ![t] = tab]
      BY <1>9 DEF signInWithGoogle, startGoogleSignIn, storeVerifier
    <2> HIDE DEF a
    <2>4. /\ tab \in Tab /\ tab.page = "leaving" /\ tab.id = a.id /\ tab.verifier = a.verifier
          /\ tab.answer = a.answer /\ tab.message = ""
      BY <2>2, Words DEF Tab
    <2> HIDE DEF tab
    <2> QED
      BY <2>1, <2>2, <2>3, <2>4 DEF Becomes, Changes, Leaves, Says, Untold
  <1>10. CASE GoogleCallback(t)
    <2>1. tabs[t].page = "google" /\ (Show(t, "callback", "") \/ UNCHANGED tabs)
      BY <1>10 DEF GoogleCallback
    <2>2. tabs[t].id \in Ids => stored[tabs[t].id] > now /\ stored'[tabs[t].id] = 0
      BY <1>10 DEF GoogleCallback, ApiOK
    <2>3. ASSUME Show(t, "callback", "") PROVE \E tab : Becomes(t, tab) /\ Untold(t, tab)
      <3> DEFINE tab == [tabs[t] EXCEPT !.page = "callback", !.message = "", !.held = 0, !.try = 0,
                                        !.answer = "", !.token = None]
      <3>1. /\ tab \in Tab /\ tab.page = "callback" /\ tab.id = tabs[t].id
            /\ tab.verifier = tabs[t].verifier /\ tab.answer = "" /\ tab.message = ""
        BY <1>0, Words DEF Tab
      <3>2. tabs' = [tabs EXCEPT ![t] = tab]
        BY <2>3 DEF Show
      <3> HIDE DEF tab
      <3> QED
        BY <2>1, <2>2, <3>1, <3>2 DEF Becomes, Changes, ComesBack, Says, Untold
    <2> QED
      BY <2>1, <2>3
  <1>11. CASE signOut(t)
    <2> DEFINE tab == [tabs[t] EXCEPT !.page = "signingOut", !.session = None]
    <2>1. tab \in Tab /\ tab.page = "signingOut" /\ tab.id = tabs[t].id
          /\ tab.verifier = tabs[t].verifier
          /\ tab.answer = tabs[t].answer /\ tab.message = tabs[t].message
      BY <1>0, Words DEF Tab
    <2>2. tabs' = [tabs EXCEPT ![t] = tab]
      BY <1>11 DEF signOut
    <2> HIDE DEF tab
    <2> QED
      BY <2>1, <2>2 DEF Becomes, Changes, Rests, Enroute, Says, Untold
  <1>12. CASE Visit(t)
    <2>1. CASE \E page \in {"signinGate", "dashboardGate"} : Show(t, page, "")
      BY <1>0, <2>1, ShownRests DEF Pages, Enroute
    <2>2. CASE tabs' = [tabs EXCEPT ![t] = [@ EXCEPT !.page = "callback", !.id = 0, !.message = ""]]
      <3> DEFINE tab == [tabs[t] EXCEPT !.page = "callback", !.id = 0, !.message = ""]
      <3>1. /\ tab \in Tab /\ tab.page = "callback" /\ tab.id = 0
            /\ tab.verifier = tabs[t].verifier
            /\ tab.answer = tabs[t].answer /\ tab.message = ""
        BY <1>0, Words DEF Tab
      <3>2. tabs' = [tabs EXCEPT ![t] = tab]
        BY <2>2
      <3> HIDE DEF tab
      <3> QED
        BY <3>1, <3>2 DEF Becomes, Changes, Empties, Says, Untold
    <2>3. CASE tabs[t].id # 0 /\ Show(t, "google", "")
      <3> DEFINE tab == [tabs[t] EXCEPT !.page = "google", !.message = "", !.held = 0, !.try = 0,
                                        !.answer = "", !.token = None]
      <3>1. /\ tab \in Tab /\ tab.page = "google" /\ tab.id = tabs[t].id
            /\ tab.verifier = tabs[t].verifier /\ tab.answer = "" /\ tab.message = ""
        BY <1>0, Words DEF Tab
      <3>2. tabs' = [tabs EXCEPT ![t] = tab]
        BY <2>3 DEF Show
      <3> HIDE DEF tab
      <3> QED
        BY <2>3, <3>1, <3>2 DEF Becomes, Changes, Returns, Says, Untold
    <2> QED
      BY <1>12, <2>1, <2>2, <2>3 DEF Visit
  <1> QED
    BY <1>1, <1>2, <1>3, <1>4, <1>5, <1>6, <1>7, <1>8, <1>9, <1>10, <1>11, <1>12, <1>13, <1>14
       DEF TabStep, Awaits

\* The page that waits for an answer reads it.
LEMMA AnswerRead ==
    ASSUME TabsOK, NEW e \in exchanges, NEW token \in Token, Awaited(e),
           NEW answer \in {"ok", "handoff_invalid", "sso_unavailable"}, Answer(e, answer, token)
    PROVE  \E tab : Becomes(e.tab, tab) /\ tab.answer = answer
  <1> DEFINE next == [tabs[e.tab] EXCEPT !.page = "reading", !.answer = answer, !.token = token]
  <1>0. answer \in Replies
    BY DEF Replies
  <1>1. e.tab \in Tabs /\ tabs[e.tab] \in Tab /\ tabs[e.tab].page = "exchanging"
    BY DEF Awaited, TabsOK
  <1>2. /\ next \in Tab /\ next.page = "reading" /\ next.id = tabs[e.tab].id
        /\ next.verifier = tabs[e.tab].verifier /\ next.held = tabs[e.tab].held
        /\ next.answer = answer /\ next.message = tabs[e.tab].message
    BY <1>0, <1>1, Words DEF Tab
  <1>3. tabs' = [tabs EXCEPT ![e.tab] = next]
    BY DEF Answer
  <1> HIDE DEF next
  <1> QED
    BY <1>1, <1>2, <1>3 DEF Becomes, Changes, Tries, Says

\* Any answer changes the tab that waits for it, if one does.
LEMMA AnswerChanges ==
    ASSUME TabsOK, NEW e \in exchanges, NEW token \in Token,
           SignsIn(e, token) \/ Refuse(e) \/ Unavailable(e)
    PROVE  UNCHANGED tabs \/ \E t \in Tabs : \E tab : Becomes(t, tab)
  <1>1. None \in Token
    BY DEF Token
  <1>2. PICK answer \in {"ok", "handoff_invalid", "sso_unavailable"} :
          Answer(e, answer, token) \/ Answer(e, answer, None)
    BY DEF SignsIn, Refuse, Unavailable
  <1>3. CASE ~Awaited(e)
    BY <1>2, <1>3 DEF Answer
  <1>4. CASE Awaited(e)
    <2>1. e.tab \in Tabs
      BY <1>4 DEF Awaited
    <2> QED
      BY <1>1, <1>2, <1>4, <2>1, AnswerRead
  <1> QED
    BY <1>3, <1>4

\* What answers an exchange gives a token, or none.
LEMMA Answers ==
    ASSUME ApiOK, NEW e \in exchanges, Redeem(e)
    PROVE  \/ /\ UNCHANGED <<tabs, given, handoffs>> /\ e.stage = "sent"
              /\ issued' = [issued EXCEPT ![e.id] = @ + 1]
              /\ exchanges' = (exchanges \ {e}) \union
                   {[e EXCEPT !.stage = "read", !.at = now,
                              !.token = [of |-> e.id, n |-> issued'[e.id], exp |-> now + SessionTTL]]}
           \/ /\ UNCHANGED <<handoffs, issued>>
              /\ \/ Refuse(e) \/ Unavailable(e)
                 \/ /\ handoffs[e.id].channel = e.channel
                    /\ handoffs[e.id].channel # "" \/ handoffs[e.id].token # None
                    /\ SignsIn(e, handoffs[e.id].token)
           \/ /\ UNCHANGED issued
              /\ e.stage = "read" /\ handoffs[e.id].channel = ""
              /\ handoffs' = [handoffs EXCEPT ![e.id] = Claimed(e)]
              /\ SignsIn(e, e.token) \/ Unavailable(e)
  <1>1. CASE Find(e)
    BY <1>1, Zenon DEF Find, replay
  <1>2. CASE FindFails(e)
    BY <1>2 DEF FindFails
  <1>3. CASE Claim(e)
    BY <1>3 DEF Claim, LostClaim, replay, Claims
  <1>4. CASE ClaimFails(e)
    BY <1>4 DEF ClaimFails, Claims
  <1> QED
    BY <1>1, <1>2, <1>3, <1>4 DEF Redeem

\* An exchange and the handoff it is about are of their types.
LEMMA ExchangeFields ==
    ASSUME ApiOK, NEW e \in exchanges
    PROVE  /\ e \in Exchange /\ e.id \in Ids /\ e.channel \in Channels /\ e.token \in Token
           /\ e.at \in 0 .. MaxClock /\ handoffs[e.id] \in Handoff
           /\ handoffs[e.id].token \in Token
  BY DEF ApiOK, Exchange, Handoff

\* A step changes one tab at most.
LEMMA TabsMove ==
    ASSUME TabsOK, ApiOK, [Next]_vars
    PROVE  UNCHANGED tabs \/ \E t \in Tabs : \E tab : Becomes(t, tab)
  <1>1. ASSUME NEW e \in exchanges, Redeem(e)
        PROVE  UNCHANGED tabs \/ \E t \in Tabs : \E tab : Becomes(t, tab)
    BY <1>1, Answers, AnswerChanges, ExchangeFields
  <1>2. CASE \E s \in Ids : CookieClient(s)
    BY <1>2 DEF CookieClient
  <1>3. CASE Tick \/ UNCHANGED vars
    BY <1>3 DEF Tick, vars
  <1> QED
    BY <1>1, <1>2, <1>3, TabChanges DEF Next

----------------------------------------------------------------------------
(* What a step does to the API's state. *)

\* The claimed handoff is one.
LEMMA ClaimedType ==
    ASSUME ApiOK, NEW e \in exchanges
    PROVE  /\ Claimed(e) \in Handoff
           /\ Claimed(e).channel = e.channel /\ Claimed(e).token = e.token
  <1>1. e.at + ReplayTTL \in Times
    BY ExchangeFields, Numbers DEF Times
  <1> QED
    BY <1>1, ExchangeFields DEF Claimed, Handoff

\* A pending state stays, is taken, or is a new one of a tab that leaves.
LEMMA StoredSteps ==
    ASSUME TabsOK, ApiOK, [Next]_vars
    PROVE  /\ stored' \in [Ids -> Times]
           /\ \A s \in Ids :
                \/ stored'[s] \in {stored[s], 0}
                \/ \E t \in Tabs : GoogleLogin(t) /\ s = tabs[t].verifier
  <1>1. ASSUME NEW t \in Tabs, GoogleLogin(t)
        PROVE  /\ stored' \in [Ids -> Times]
               /\ \A s \in Ids : stored'[s] = stored[s] \/ s = tabs[t].verifier
    <2>1. now + StateTTL \in Times
      BY Numbers DEF ApiOK, Times
    <2> QED
      BY <1>1, <2>1 DEF GoogleLogin, ApiOK
  <1>2. ASSUME NEW t \in Tabs, GoogleCallback(t) \/ GoogleCallbackFails(t)
        PROVE  /\ stored' \in [Ids -> Times]
               /\ \A s \in Ids : stored'[s] \in {stored[s], 0}
    <2>1. stored' = [stored EXCEPT ![tabs[t].id] = 0]
      BY <1>2 DEF GoogleCallback, GoogleCallbackFails
    <2>2. 0 \in Times
      BY Numbers DEF Times
    <2> QED
      BY <2>1, <2>2 DEF ApiOK
  <1>3. ASSUME NEW e \in exchanges, Redeem(e)
        PROVE  UNCHANGED stored
    BY <1>3 DEF Redeem, Find, FindFails, Claim, ClaimFails
  <1>4. ASSUME NEW t \in Tabs,
               TabStep(t) \/ Awaits(t) \/ signInWithGoogle(t) \/ StateMismatch(t) \/ signOut(t) \/ Visit(t)
        PROVE  UNCHANGED stored \/ GoogleLogin(t)
    BY <1>4 DEF TabStep, signInWithGoogle, StateMismatch, signOut, Visit, useRequireAuth,
          useRedirectAuthed, GoogleLoginRefused, AuthCallbackPage, exchangeOnce, NetworkError,
          Awaits, ReadAnswer, AnswerBroken, LoggedOut, api
  <1>5. ASSUME (\E s \in Ids : CookieClient(s)) \/ Tick \/ UNCHANGED vars
        PROVE  UNCHANGED stored
    BY <1>5 DEF CookieClient, Tick, vars, api
  <1> QED
    BY <1>1, <1>2, <1>3, <1>4, <1>5 DEF Next, ApiOK

\* A handoff is made of a pending state, which is taken with it, and claimed once.
LEMMA HandoffSteps ==
    ASSUME TabsOK, ApiOK, [Next]_vars
    PROVE  /\ handoffs' \in [Ids -> Handoff]
           /\ \A s \in Ids :
                \/ handoffs'[s] = handoffs[s]
                \/ /\ stored[s] > now /\ stored'[s] = 0
                   /\ handoffs'[s].channel = "" /\ handoffs'[s].token = None
                \/ \E e \in exchanges :
                     /\ e.id = s /\ e.stage = "read" /\ handoffs[s].channel = ""
                     /\ handoffs'[s] = Claimed(e)
  <1>1. ASSUME NEW t \in Tabs, GoogleCallback(t)
        PROVE  /\ handoffs' \in [Ids -> Handoff]
               /\ \A s \in Ids :
                    \/ handoffs'[s] = handoffs[s]
                    \/ /\ stored[s] > now /\ stored'[s] = 0
                       /\ handoffs'[s].channel = "" /\ handoffs'[s].token = None
    <2> DEFINE made == [NoHandoff EXCEPT !.until = now + HandoffTTL]
    <2>1. now + HandoffTTL \in Times
      BY Numbers DEF ApiOK, Times
    <2>2. made \in Handoff /\ made.channel = "" /\ made.token = None
      BY <2>1 DEF NoHandoff, Handoff, Token
    <2>3. /\ handoffs' = [handoffs EXCEPT ![tabs[t].id] = made]
          /\ stored[tabs[t].id] > now /\ stored' = [stored EXCEPT ![tabs[t].id] = 0]
      BY <1>1 DEF GoogleCallback
    <2> QED
      BY <2>2, <2>3 DEF ApiOK
  <1>2. ASSUME NEW e \in exchanges, Redeem(e)
        PROVE  /\ handoffs' \in [Ids -> Handoff]
               /\ \A s \in Ids :
                    \/ handoffs'[s] = handoffs[s]
                    \/ /\ e.id = s /\ e.stage = "read" /\ handoffs[s].channel = ""
                       /\ handoffs'[s] = Claimed(e)
    <2>1. \/ UNCHANGED handoffs
          \/ /\ e.stage = "read" /\ handoffs[e.id].channel = ""
             /\ handoffs' = [handoffs EXCEPT ![e.id] = Claimed(e)]
      BY <1>2, Answers
    <2> QED
      BY <2>1, ClaimedType DEF ApiOK
  <1>3. ASSUME NEW t \in Tabs,
               \/ TabStep(t) \/ Awaits(t) \/ signInWithGoogle(t) \/ StateMismatch(t)
               \/ GoogleCallbackFails(t) \/ signOut(t) \/ Visit(t)
        PROVE  UNCHANGED handoffs
    BY <1>3 DEF TabStep, signInWithGoogle, StateMismatch, signOut, Visit, useRequireAuth,
          useRedirectAuthed, GoogleLogin, GoogleLoginRefused, GoogleCallbackFails,
          AuthCallbackPage, exchangeOnce, NetworkError, Awaits, ReadAnswer, AnswerBroken, LoggedOut, api
  <1>4. ASSUME (\E s \in Ids : CookieClient(s)) \/ Tick \/ UNCHANGED vars
        PROVE  UNCHANGED handoffs
    BY <1>4 DEF CookieClient, Tick, vars, api
  <1> QED
    BY <1>1, <1>2, <1>3, <1>4 DEF Next, ApiOK

\* A request is new, of a tab that asks or of the other channel, or has signed a token.
Asked(e) ==
    \E t \in Tabs :
        /\ exchangeOnce(t) /\ e.tab = t /\ e.id = tabs[t].id /\ e.verifier = tabs[t].held
        /\ e.channel = "body" /\ e.stage = "sent" /\ tabs[t].page = "waiting"
        /\ tabs'[t].page = "exchanging" /\ tabs'[t].held = tabs[t].held
Cookied(e) ==
    e.tab = "other" /\ e.stage = "sent" /\ handoffs[e.id].until > 0 /\ UNCHANGED <<tabs, handoffs>>
Signed(e) ==
    \E d \in exchanges :
        /\ e.tab = d.tab /\ e.id = d.id /\ e.verifier = d.verifier /\ e.channel = d.channel
        /\ e.stage = "read" /\ e.token.of = e.id

\* Every request there is after a step was there, or is one of those.
LEMMA ExchangeSteps ==
    ASSUME TabsOK, ApiOK, Placed, [Next]_vars
    PROVE  /\ exchanges' \subseteq Exchange
           /\ \A e \in exchanges' : e \in exchanges \/ Asked(e) \/ Cookied(e) \/ Signed(e)
  <1>1. ASSUME NEW t \in Tabs, exchangeOnce(t)
        PROVE  /\ exchanges' \subseteq Exchange
               /\ \A e \in exchanges' : e \in exchanges \/ Asked(e)
    <2> DEFINE new == [tab |-> t, try |-> tabs[t].try, id |-> tabs[t].id,
                       verifier |-> tabs[t].held, channel |-> "body", stage |-> "sent",
                       token |-> None, at |-> 0]
    <2>1. exchanges' = exchanges \union {new} /\ tabs[t].page = "waiting"
      BY <1>1 DEF exchangeOnce
    <2>2. tabs[t] \in Tab /\ tabs[t].id # 0 /\ 0 \in 0 .. MaxClock
      BY <2>1, Numbers DEF TabsOK, Placed
    <2>3. new \in Exchange
      BY <2>2 DEF Exchange, Tab, Channels, Token
    <2>4. tabs'[t].page = "exchanging" /\ tabs'[t].held = tabs[t].held
      BY <1>1, <2>2 DEF exchangeOnce, TabsOK, Tab
    <2> QED
      BY <1>1, <2>1, <2>3, <2>4 DEF Asked, ApiOK
  <1>2. ASSUME NEW s \in Ids, CookieClient(s)
        PROVE  /\ exchanges' \subseteq Exchange
               /\ \A e \in exchanges' : e \in exchanges \/ Cookied(e)
    <2> DEFINE new == [tab |-> "other", try |-> 0, id |-> s, verifier |-> 0,
                       channel |-> "cookie", stage |-> "sent", token |-> None, at |-> 0]
    <2>1. exchanges' = exchanges \union {new} /\ 0 \in 0 .. MaxClock /\ 0 \in 0 .. Attempts
      BY <1>2, Numbers DEF CookieClient
    <2>2. new \in Exchange
      BY <2>1 DEF Exchange, Channels, Token
    <2>3. handoffs[s].until > 0 /\ UNCHANGED <<tabs, handoffs>>
      BY <1>2 DEF CookieClient
    <2> QED
      BY <2>1, <2>2, <2>3 DEF Cookied, ApiOK
  <1>3. ASSUME NEW e \in exchanges, Redeem(e)
        PROVE  /\ exchanges' \subseteq Exchange
               /\ \A f \in exchanges' : f \in exchanges \/ Signed(f)
    <2>1. CASE exchanges' \subseteq exchanges
      BY <2>1 DEF ApiOK
    <2>2. CASE ~(exchanges' \subseteq exchanges)
      <3> DEFINE token == [of |-> e.id, n |-> issued'[e.id], exp |-> now + SessionTTL]
                 new == [e EXCEPT !.stage = "read", !.at = now, !.token = token]
      <3>1. /\ issued' = [issued EXCEPT ![e.id] = @ + 1]
            /\ exchanges' = (exchanges \ {e}) \union {new}
        BY <1>3, <2>2, Answers DEF SignsIn, Refuse, Unavailable, Answer
      <3>2. issued'[e.id] \in Nat /\ now + SessionTTL \in Times
        BY <3>1, ExchangeFields, Numbers DEF ApiOK, Times
      <3>3. token \in Token /\ token.of = e.id
        BY <3>2, ExchangeFields DEF Token
      <3> HIDE DEF token
      <3>4. /\ new \in Exchange
            /\ new.tab = e.tab /\ new.id = e.id /\ new.verifier = e.verifier
            /\ new.channel = e.channel /\ new.stage = "read" /\ new.token = token
        BY <3>3, ExchangeFields DEF ApiOK, Exchange
      <3> QED
        BY <3>1, <3>3, <3>4 DEF Signed, ApiOK
    <2> QED
      BY <2>1, <2>2
  <1>4. ASSUME NEW t \in Tabs,
               \/ TabStep(t) \/ Awaits(t) \/ signInWithGoogle(t) \/ StateMismatch(t) \/ GoogleCallback(t)
               \/ GoogleCallbackFails(t) \/ signOut(t) \/ Visit(t)
        PROVE  UNCHANGED exchanges \/ exchangeOnce(t)
    BY <1>4 DEF TabStep, signInWithGoogle, StateMismatch, signOut, Visit, useRequireAuth,
          useRedirectAuthed, GoogleLogin, GoogleLoginRefused, GoogleCallbackFails,
          GoogleCallback, AuthCallbackPage, NetworkError, Awaits, ReadAnswer, AnswerBroken, LoggedOut, api
  <1>5. ASSUME Tick \/ UNCHANGED vars PROVE UNCHANGED exchanges
    BY <1>5 DEF Tick, vars, api
  <1> QED
    BY <1>1, <1>2, <1>3, <1>4, <1>5 DEF Next, ApiOK

\* A token is answered again, or is the one its handoff was claimed with.
LEMMA GivenSteps ==
    ASSUME TabsOK, ApiOK, Requests, Sealed, [Next]_vars
    PROVE  /\ given' \subseteq [token : Token, channel : Channels]
           /\ \A g \in given' :
                \/ g \in given
                \/ \E s \in Ids : /\ g.token # None /\ g.token.of = s
                                  /\ handoffs'[s].token = g.token
                                  /\ handoffs'[s].channel = g.channel
  <1>1. ASSUME NEW e \in exchanges, Redeem(e)
        PROVE  /\ given' \subseteq [token : Token, channel : Channels]
               /\ \A g \in given' :
                    \/ g \in given
                    \/ \E s \in Ids : /\ g.token # None /\ g.token.of = s
                                      /\ handoffs'[s].token = g.token
                                      /\ handoffs'[s].channel = g.channel
    <2>0. ASSUME NEW token \in Token, SignsIn(e, token), token # None, token.of = e.id,
                 handoffs'[e.id].token = token, handoffs'[e.id].channel = e.channel
          PROVE  /\ given' \subseteq [token : Token, channel : Channels]
                 /\ \A g \in given' :
                      \/ g \in given
                      \/ \E s \in Ids : /\ g.token # None /\ g.token.of = s
                                        /\ handoffs'[s].token = g.token
                                        /\ handoffs'[s].channel = g.channel
      <3> DEFINE new == [token |-> token, channel |-> e.channel]
      <3>1. given' = given \union {new} /\ new \in [token : Token, channel : Channels]
        BY <2>0, ExchangeFields DEF SignsIn
      <3>2. new.token = token /\ new.channel = e.channel
        OBVIOUS
      <3> HIDE DEF new
      <3> QED
        BY <2>0, <3>1, <3>2, ExchangeFields DEF ApiOK
    <2>1. CASE /\ UNCHANGED handoffs
               /\ handoffs[e.id].channel = e.channel
               /\ handoffs[e.id].channel # "" \/ handoffs[e.id].token # None
               /\ SignsIn(e, handoffs[e.id].token)
      <3>1. handoffs[e.id].token # None /\ handoffs[e.id].token.of = e.id
        BY <2>1, ExchangeFields DEF Sealed
      <3> QED
        BY <2>0, <2>1, <3>1, ExchangeFields
    <2>2. CASE /\ e.stage = "read" /\ handoffs' = [handoffs EXCEPT ![e.id] = Claimed(e)]
               /\ SignsIn(e, e.token)
      <3>1. e.token.of = e.id /\ e.id # 0 /\ e.id \in Ids
        BY <2>2, ExchangeFields DEF Requests, Ids
      <3>2. e.token # None
        BY <3>1 DEF None
      <3>3. handoffs'[e.id].token = e.token /\ handoffs'[e.id].channel = e.channel
        BY <2>2, <3>1, ClaimedType DEF ApiOK
      <3> QED
        BY <2>0, <2>2, <3>1, <3>2, <3>3, ExchangeFields
    <2>3. CASE UNCHANGED given
      BY <2>3 DEF ApiOK
    <2> QED
      BY <1>1, <2>1, <2>2, <2>3, Answers DEF Refuse, Unavailable
  <1>2. ASSUME NEW t \in Tabs,
               \/ TabStep(t) \/ Awaits(t) \/ signInWithGoogle(t) \/ StateMismatch(t) \/ GoogleCallback(t)
               \/ GoogleCallbackFails(t) \/ signOut(t) \/ Visit(t)
        PROVE  UNCHANGED given
    BY <1>2 DEF TabStep, signInWithGoogle, StateMismatch, signOut, Visit, useRequireAuth,
          useRedirectAuthed, GoogleLogin, GoogleLoginRefused, GoogleCallbackFails,
          GoogleCallback, AuthCallbackPage, exchangeOnce, NetworkError, Awaits, ReadAnswer, AnswerBroken, LoggedOut, api
  <1>3. ASSUME (\E s \in Ids : CookieClient(s)) \/ Tick \/ UNCHANGED vars
        PROVE  UNCHANGED given
    BY <1>3 DEF CookieClient, Tick, vars, api
  <1> QED
    BY <1>1, <1>2, <1>3 DEF Next, ApiOK

\* The counters, the clock and the cookie keep their types.
LEMMA CountersStep ==
    ASSUME TabsOK, ApiOK, Placed, [Next]_vars
    PROVE  /\ now' \in 0 .. MaxClock /\ cookie' \in Ids \union {0} /\ issued' \in [Ids -> Nat]
           /\ started' \in 0 .. MaxStarts /\ started' >= started
           /\ moves' \in 0 .. MaxMoves /\ faults' \in 0 .. MaxFaults
  <1> DEFINE Counters == /\ now \in 0 .. MaxClock /\ cookie \in Ids \union {0}
                         /\ issued \in [Ids -> Nat] /\ started \in 0 .. MaxStarts
                         /\ moves \in 0 .. MaxMoves /\ faults \in 0 .. MaxFaults
  <1>0. Counters /\ started \in Nat /\ moves \in Nat /\ faults \in Nat
    BY Numbers DEF ApiOK
  <1>1. ASSUME NEW t \in Tabs, TabStep(t) \/ Awaits(t)
        PROVE  Counters' /\ started' = started
    <2>1. UNCHANGED <<now, issued, bounds>>
      BY <1>1 DEF TabStep, useRequireAuth, useRedirectAuthed, GoogleLogin, GoogleLoginRefused,
            AuthCallbackPage, exchangeOnce, NetworkError, Awaits, ReadAnswer, AnswerBroken, LoggedOut, api
    <2>2. cookie' \in {cookie, tabs[t].verifier}
      BY <1>1 DEF TabStep, useRequireAuth, useRedirectAuthed, GoogleLogin, GoogleLoginRefused,
            AuthCallbackPage, exchangeOnce, NetworkError, Awaits, ReadAnswer, AnswerBroken, LoggedOut, api
    <2>3. tabs[t].verifier \in Ids \union {0}
      BY DEF TabsOK, Tab
    <2> QED
      BY <1>0, <2>1, <2>2, <2>3 DEF bounds
  <1>2. ASSUME NEW t \in Tabs,
               \/ signInWithGoogle(t) \/ StateMismatch(t) \/ GoogleCallback(t)
               \/ GoogleCallbackFails(t) \/ signOut(t) \/ Visit(t)
        PROVE  Counters' /\ started' >= started
    <2>1. /\ UNCHANGED <<now, issued>> /\ cookie' \in {cookie, 0}
          /\ (started' = started \/ (started < MaxStarts /\ started' = started + 1))
          /\ (moves' = moves \/ (moves < MaxMoves /\ moves' = moves + 1))
          /\ (faults' = faults \/ (faults < MaxFaults /\ faults' = faults + 1))
      BY <1>2 DEF signInWithGoogle, startGoogleSignIn, StateMismatch, signOut, Visit, Move,
            GoogleCallbackFails, GoogleCallback, Fault, api, bounds
    <2> QED
      BY <1>0, <2>1, Numbers
  <1>3. ASSUME NEW e \in exchanges, Redeem(e)
        PROVE  Counters' /\ started' = started
    <2>1. /\ UNCHANGED <<now, cookie, started, moves>>
          /\ (faults' = faults \/ (faults < MaxFaults /\ faults' = faults + 1))
      BY <1>3 DEF Redeem, Find, FindFails, Claim, ClaimFails, Fault, bounds
    <2>2. issued' = issued \/ issued' = [issued EXCEPT ![e.id] = @ + 1]
      BY <1>3, Answers
    <2>3. issued' \in [Ids -> Nat]
      BY <1>0, <2>2
    <2> QED
      BY <1>0, <2>1, <2>3, Numbers
  <1>4. ASSUME (\E s \in Ids : CookieClient(s)) \/ Tick \/ UNCHANGED vars
        PROVE  Counters' /\ started' = started
    <2>1. /\ UNCHANGED <<cookie, issued, started, faults>>
          /\ (now' = now \/ (now < MaxClock /\ now' = now + 1))
          /\ (moves' = moves \/ (moves < MaxMoves /\ moves' = moves + 1))
      BY <1>4 DEF CookieClient, Tick, vars, api, bounds
    <2> QED
      BY <1>0, <2>1, Numbers
  <1> QED
    BY <1>0, <1>1, <1>2, <1>3, <1>4 DEF Next

\* TypeOK is what is said of the tabs and of the API.
LEMMA TypeParts == TypeOK <=> TabsOK /\ ApiOK
  BY DEF TypeOK, TabsOK, ApiOK

\* Every step keeps the types.
LEMMA TypeStep ==
    ASSUME TypeOK, Placed, Requests, Sealed, [Next]_vars
    PROVE  TypeOK'
  <1>1. TabsOK /\ ApiOK
    BY TypeParts
  <1>2. TabsOK'
    BY <1>1, TabsMove DEF TabsOK, Becomes
  <1>3. ApiOK'
    BY <1>1, StoredSteps, HandoffSteps, ExchangeSteps, GivenSteps, CountersStep DEF ApiOK
  <1> QED
    BY <1>2, <1>3 DEF TypeOK, TabsOK, ApiOK

----------------------------------------------------------------------------
(* The inductive invariant. *)

\* A sign-in that has not come to the API has not after a step, unless the tab that has its
\* verifier goes there.
LEMMA UnusedKept ==
    ASSUME TypeOK, Placed, Verifiers, [Next]_vars, NEW s \in Ids, Unused(s),
           \A u \in Tabs : tabs[u].page = "leaving" /\ tabs[u].verifier = s => tabs'[u] = tabs[u]
    PROVE  Unused(s)'
  <1>0. TabsOK /\ ApiOK /\ now \in Nat /\ s # 0 /\ NoHandoff.until = 0
    BY TypeParts, Numbers DEF ApiOK, Ids, NoHandoff
  <1>1. stored'[s] = 0
    <2>1. ASSUME NEW t \in Tabs, GoogleLogin(t), s = tabs[t].verifier
          PROVE  FALSE
      <3>1. tabs[t].page = "leaving" /\ tabs'[t].page = "google"
        BY <1>0, <2>1, ZenonT(40) DEF GoogleLogin, TabsOK, Tab
      <3> QED
        BY <2>1, <3>1
    <2> QED
      BY <1>0, <2>1, StoredSteps DEF Unused
  <1>2. handoffs'[s] = NoHandoff
    <2>1. stored[s] = 0 /\ handoffs[s] = NoHandoff /\ \A e \in exchanges : e.id # s
      BY DEF Unused
    <2>2. ~(stored[s] > now)
      BY <1>0, <2>1
    <2> QED
      BY <1>0, <2>1, <2>2, HandoffSteps
  <1>3. ASSUME NEW e \in exchanges', e.id = s
        PROVE  FALSE
    <2>1. handoffs[s].until = 0
      BY <1>0 DEF Unused
    <2> QED
      BY <1>0, <1>3, <2>1, ExchangeSteps DEF Unused, Asked, Cookied, Signed
  <1>4. ASSUME NEW u \in Tabs
        PROVE  tabs'[u].id # s
    <2>1. CASE tabs'[u] = tabs[u]
      BY <2>1 DEF Unused
    <2>2. CASE tabs'[u] # tabs[u]
      <3>1. Changes(tabs[u], tabs'[u])
        BY <1>0, <2>2, TabsMove DEF Becomes, TabsOK
      <3>2. ~Enters(tabs[u], tabs'[u]) \/ tabs[u].verifier # s
        BY <2>2 DEF Enters
      <3> QED
        BY <1>0, <3>1, <3>2 DEF Changes, Rests, Leaves, Enters, Returns, ComesBack, Empties,
              Takes, Tries, Unused
    <2> QED
      BY <2>1, <2>2
  <1> QED
    BY <1>1, <1>2, <1>3, <1>4 DEF Unused

\* A tab changes as Changes says, and no other with it.
LEMMA OneTab ==
    ASSUME TabsOK, ApiOK, [Next]_vars, NEW t \in Tabs, tabs'[t] # tabs[t]
    PROVE  Changes(tabs[t], tabs'[t]) /\ \A u \in Tabs \ {t} : tabs'[u] = tabs[u]
  <1>1. PICK v \in Tabs : \E tab : Becomes(v, tab)
    BY TabsMove
  <1> QED
    BY <1>1 DEF Becomes, TabsOK

\* A verifier in storage is that of a sign-in that was started.
LEMMA VerifierFields ==
    ASSUME TypeOK, Verifiers, NEW t \in Tabs
    PROVE  tabs[t].verifier \in Ids \union {0} /\ tabs[t].verifier \in Nat
           /\ tabs[t].verifier <= started
  <1>1. tabs[t].verifier \in Ids \union {0}
    BY DEF TypeOK, Tab
  <1> QED
    BY <1>1, Numbers DEF Ids, Verifiers

\* Verifiers are new and differ.
LEMMA VerifiersStep ==
    ASSUME TypeOK, Placed, Verifiers, [Next]_vars
    PROVE  Verifiers'
  <1>0. /\ TabsOK /\ ApiOK /\ started \in Nat /\ started' \in Nat
        /\ started' \in 0 .. MaxStarts /\ started' >= started
    BY TypeParts, CountersStep, Numbers DEF ApiOK
  <1>1. ASSUME NEW s \in Ids, s > started
        PROVE  Unused(s)'
    <2>1. Unused(s)
      BY <1>1 DEF Verifiers
    <2>2. \A u \in Tabs : tabs[u].verifier # s
      BY <1>0, <1>1, VerifierFields DEF Ids
    <2> QED
      BY <2>1, <2>2, UnusedKept
  <1>2. \A s \in Ids : s > started' => Unused(s)'
    BY <1>0, <1>1 DEF Ids
  <1>3. ASSUME NEW t \in Tabs
        PROVE  tabs'[t].verifier <= started'
    <2>1. tabs[t].verifier <= started /\ tabs[t].verifier \in Nat
      BY <1>0, VerifierFields
    <2>2. CASE tabs'[t] = tabs[t]
      BY <1>0, <2>1, <2>2
    <2>3. CASE tabs'[t] # tabs[t]
      <3>1. tabs'[t].verifier \in {tabs[t].verifier, 0} \/ tabs'[t].verifier = started'
        BY <1>0, <2>3, OneTab DEF Changes, Rests, Leaves, Enters, Returns, ComesBack, Empties,
              Takes, Tries
      <3> QED
        BY <1>0, <2>1, <3>1
    <2> QED
      BY <2>2, <2>3
  <1>4. ASSUME NEW t \in Tabs, tabs'[t].page = "leaving", tabs'[t] # tabs[t]
        PROVE  tabs'[t].verifier = started + 1 /\ started' = started + 1
    BY <1>0, <1>4, OneTab DEF Changes, Rests, Enters, Returns, ComesBack, Empties, Takes, Tries,
       Leaves, Enroute
  <1>5. ASSUME NEW t \in Tabs, tabs'[t].page = "leaving"
        PROVE  \E s \in Ids : s = tabs'[t].verifier /\ Unused(s)'
    <2>1. CASE tabs'[t] = tabs[t]
      <3>1. PICK s \in Ids : s = tabs[t].verifier /\ Unused(s)
        BY <1>5, <2>1, VerifierFields DEF Verifiers
      <3>2. \A u \in Tabs \ {t} : tabs[u].page = "leaving" => tabs[u].verifier # s
        BY <1>5, <2>1, <3>1 DEF Verifiers
      <3> QED
        BY <2>1, <3>1, <3>2, UnusedKept
    <2>2. CASE tabs'[t] # tabs[t]
      <3>1. started + 1 \in Ids /\ started + 1 > started /\ tabs'[t].verifier = started + 1
        BY <1>0, <1>4, <1>5, <2>2, Numbers DEF Ids
      <3> QED
        BY <1>1, <3>1
    <2> QED
      BY <2>1, <2>2
  <1>6. ASSUME NEW t \in Tabs, NEW u \in Tabs \ {t},
               tabs'[t].page = "leaving", tabs'[u].page = "leaving"
        PROVE  tabs'[u].verifier # tabs'[t].verifier
    <2>1. CASE tabs'[t] = tabs[t] /\ tabs'[u] = tabs[u]
      BY <1>6, <2>1 DEF Verifiers
    <2>2. CASE tabs'[t] # tabs[t]
      <3>1. tabs'[u] = tabs[u] /\ tabs'[t].verifier = started + 1
        BY <1>0, <1>4, <1>6, <2>2, OneTab
      <3> QED
        BY <1>0, <3>1, VerifierFields
    <2>3. CASE tabs'[u] # tabs[u]
      <3>1. tabs'[t] = tabs[t] /\ tabs'[u].verifier = started + 1
        BY <1>0, <1>4, <1>6, <2>3, OneTab
      <3> QED
        BY <1>0, <3>1, VerifierFields
    <2> QED
      BY <2>1, <2>2, <2>3
  <1>7. ASSUME NEW t \in Tabs, tabs'[t].page = "leaving"
        PROVE  tabs'[t].verifier # 0 /\ Unused(tabs[t].verifier)'
    BY <1>5, <1>7 DEF Unused, Ids
  <1> QED
    BY <1>2, <1>3, <1>6, <1>7 DEF Verifiers

\* A tab goes to Google with a sign-in that has not come to the API.
LEMMA EntersUnused ==
    ASSUME TypeOK, Verifiers, NEW t \in Tabs, tabs[t].page = "leaving"
    PROVE  \E s \in Ids : s = tabs[t].verifier /\ s # 0 /\ Unused(s)
  BY VerifierFields DEF Verifiers

\* No handoff is made of a pending state but by the step that takes it.
LEMMA PendingStep ==
    ASSUME TypeOK, Verifiers, Pending, Placed, [Next]_vars
    PROVE  Pending'
  <1>0. TabsOK /\ ApiOK /\ now \in Nat /\ NoHandoff.until = 0 /\ stored \in [Ids -> Nat]
    BY TypeParts, Numbers DEF ApiOK, NoHandoff, Times
  <1> SUFFICES ASSUME NEW s \in Ids, stored'[s] > 0
               PROVE  /\ handoffs'[s] = NoHandoff
                      /\ \A e \in exchanges' : e.id # s
                      /\ \A t \in Tabs : tabs'[t].id = s =>
                           tabs'[t].page \notin {"callback", "waiting", "exchanging", "reading"}
    BY DEF Pending
  <1>1. CASE stored'[s] = stored[s]
    <2>1. /\ handoffs[s] = NoHandoff /\ handoffs[s].until = 0
          /\ \A e \in exchanges : e.id # s
          /\ \A t \in Tabs :
               tabs[t].id = s => tabs[t].page \notin {"callback", "waiting", "exchanging", "reading"}
      BY <1>0, <1>1 DEF Pending
    <2>2. handoffs'[s] = NoHandoff
      <3>1. \/ handoffs'[s] = handoffs[s] \/ stored'[s] = 0
            \/ \E e \in exchanges : e.id = s
        BY <1>0, HandoffSteps
      <3> QED
        BY <2>1, <3>1
    <2>3. ASSUME NEW e \in exchanges', e.id = s
          PROVE  FALSE
      BY <1>0, <2>1, <2>3, ExchangeSteps DEF Asked, Cookied, Signed
    <2>4. ASSUME NEW t \in Tabs, tabs'[t].id = s,
                 tabs'[t].page \in {"callback", "waiting", "exchanging", "reading"}
          PROVE  FALSE
      <3>1. tabs'[t] # tabs[t]
        BY <2>1, <2>4
      <3>2. Changes(tabs[t], tabs'[t])
        BY <1>0, <3>1, OneTab
      <3>3. ~ComesBack(tabs[t], tabs'[t])
        BY <2>4 DEF ComesBack
      <3>4. s # 0
        BY DEF Ids
      <3> QED
        BY <2>1, <2>4, <3>2, <3>3, <3>4
           DEF Changes, Rests, Leaves, Enters, Returns, Empties, Takes, Tries, Enroute
    <2> QED
      BY <2>2, <2>3, <2>4
  <1>2. CASE \E t \in Tabs : GoogleLogin(t) /\ s = tabs[t].verifier
    <2>1. PICK t \in Tabs : GoogleLogin(t) /\ s = tabs[t].verifier
      BY <1>2
    <2>2. tabs[t].page = "leaving" /\ UNCHANGED <<handoffs, exchanges>>
      BY <2>1 DEF GoogleLogin
    <2>3. Unused(s)
      BY <2>1, <2>2, EntersUnused
    <2>4. tabs'[t].page = "google" /\ \A u \in Tabs \ {t} : tabs'[u] = tabs[u]
      BY <1>0, <2>1, ZenonT(40) DEF GoogleLogin, TabsOK, Tab
    <2> QED
      BY <2>2, <2>3, <2>4 DEF Unused
  <1> QED
    BY <1>0, <1>1, <1>2, StoredSteps

\* A page that needs a sign-in stays in one.
LEMMA PlacedStep ==
    ASSUME TypeOK, Verifiers, Placed, [Next]_vars
    PROVE  Placed'
  <1>0. TabsOK /\ ApiOK
    BY TypeParts
  <1> SUFFICES ASSUME NEW t \in Tabs, tabs'[t].page \in {"google", "waiting", "exchanging", "reading"}
               PROVE  tabs'[t].id # 0
    BY DEF Placed
  <1>1. CASE tabs'[t] = tabs[t]
    BY <1>1 DEF Placed
  <1>2. CASE Enters(tabs[t], tabs'[t])
    BY <1>2, EntersUnused DEF Enters
  <1>3. CASE tabs'[t] # tabs[t] /\ ~Enters(tabs[t], tabs'[t])
    <2>1. Changes(tabs[t], tabs'[t])
      BY <1>0, <1>3, OneTab
    <2> QED
      BY <1>3, <2>1 DEF Placed, Changes, Rests, Leaves, Returns, ComesBack, Empties, Takes, Tries,
            Enroute
  <1> QED
    BY <1>1, <1>2, <1>3

\* While a request of a tab's present visit is about, the tab keeps the verifier it sent.
LEMMA VisitKept ==
    ASSUME TypeOK, Pending, Requests, [Next]_vars,
           NEW e \in exchanges, e.tab \in Tabs, tabs'[e.tab].id = e.id
    PROVE  /\ tabs'[e.tab].page # "callback"
           /\ tabs'[e.tab].page \in {"waiting", "exchanging", "reading"} => e.verifier = tabs'[e.tab].held
  <1> DEFINE old == tabs[e.tab]
             new == tabs'[e.tab]
  <1>0. TabsOK /\ ApiOK /\ now \in Nat /\ stored \in [Ids -> Nat] /\ e.id \in Ids /\ e.id # 0
    <2>1. TabsOK /\ ApiOK
      BY TypeParts
    <2>2. now \in Nat /\ stored \in [Ids -> Nat]
      BY <2>1, Numbers DEF ApiOK, Times
    <2>3. e.id \in Ids
      BY <2>1, ExchangeFields
    <2> QED
      BY <2>1, <2>2, <2>3 DEF Ids
  <1>1. old.id = e.id => /\ old.page # "callback"
                         /\ old.page \in {"waiting", "exchanging", "reading"} => e.verifier = old.held
    BY DEF Requests
  <1>2. CASE new = old
    BY <1>1, <1>2
  <1>3. CASE new # old
    <2>1. Changes(old, new)
      BY <1>0, <1>3, OneTab
    <2>2. ~ComesBack(old, new)
      <3>1. ASSUME ComesBack(old, new) PROVE FALSE
        <4>1. stored[e.id] > now
          BY <1>0, <3>1 DEF ComesBack
        <4>2. stored[e.id] > 0
          BY <1>0, <4>1
        <4> QED
          BY <1>0, <4>2 DEF Pending
      <3> QED
        BY <3>1
    <2> QED
      BY <1>0, <1>1, <2>1, <2>2 DEF Changes, Rests, Leaves, Enters, Returns, Empties, Takes, Tries,
            Enroute
  <1> QED
    BY <1>2, <1>3

\* Requests carry what their page holds, and sign tokens of their own handoff.
LEMMA RequestsStep ==
    ASSUME TypeOK, Pending, Placed, Requests, [Next]_vars
    PROVE  Requests'
  <1>0. TabsOK /\ ApiOK
    BY TypeParts
  <1> SUFFICES ASSUME NEW e \in exchanges'
               PROVE  /\ e.stage = "read" => e.token.of = e.id
                      /\ e.tab \in Tabs =>
                           /\ e.channel = "body"
                           /\ tabs'[e.tab].id = e.id =>
                                /\ tabs'[e.tab].page # "callback"
                                /\ tabs'[e.tab].page \in {"waiting", "exchanging", "reading"} =>
                                     e.verifier = tabs'[e.tab].held
    BY DEF Requests
  <1>1. CASE e \in exchanges
    BY <1>1, VisitKept DEF Requests
  <1>2. CASE Asked(e)
    BY <1>2 DEF Asked
  <1>3. CASE Cookied(e)
    BY <1>3, SignInAssumption DEF Cookied
  <1>4. CASE Signed(e)
    <2>1. PICK d \in exchanges :
            /\ e.tab = d.tab /\ e.id = d.id /\ e.verifier = d.verifier /\ e.channel = d.channel
            /\ e.stage = "read" /\ e.token.of = e.id
      BY <1>4 DEF Signed
    <2> QED
      BY <2>1, VisitKept DEF Requests
  <1> QED
    BY <1>0, <1>1, <1>2, <1>3, <1>4, ExchangeSteps

\* A token of a handoff is not none.
LEMMA TokenOf ==
    ASSUME ApiOK, Requests, NEW e \in exchanges, e.stage = "read"
    PROVE  e.token # None /\ e.token.of = e.id
  <1>1. e.token.of = e.id /\ e.id \in Ids /\ None.of = 0
    BY ExchangeFields DEF Requests, None
  <1> QED
    BY <1>1 DEF Ids

\* A handoff is sealed with a token of its own.
LEMMA SealedStep ==
    ASSUME TypeOK, Requests, Sealed, [Next]_vars
    PROVE  Sealed'
  <1>0. TabsOK /\ ApiOK
    BY TypeParts
  <1> SUFFICES ASSUME NEW s \in Ids
               PROVE  /\ handoffs'[s].channel = "" <=> handoffs'[s].token = None
                      /\ handoffs'[s].token # None => handoffs'[s].token.of = s
    BY DEF Sealed
  <1>1. CASE \E e \in exchanges : e.id = s /\ e.stage = "read" /\ handoffs'[s] = Claimed(e)
    <2>1. PICK e \in exchanges : e.id = s /\ e.stage = "read" /\ handoffs'[s] = Claimed(e)
      BY <1>1
    <2>2. handoffs'[s].channel = e.channel /\ handoffs'[s].token = e.token
      BY <1>0, <2>1, ClaimedType
    <2>3. e.channel # ""
      BY <1>0, ExchangeFields DEF Channels
    <2> QED
      BY <1>0, <2>1, <2>2, <2>3, TokenOf
  <1>2. CASE ~\E e \in exchanges : e.id = s /\ e.stage = "read" /\ handoffs'[s] = Claimed(e)
    <2>1. \/ handoffs'[s] = handoffs[s]
          \/ handoffs'[s].channel = "" /\ handoffs'[s].token = None
      BY <1>0, <1>2, HandoffSteps
    <2> QED
      BY <2>1 DEF Sealed
  <1> QED
    BY <1>1, <1>2

\* What was answered stays what the handoff keeps.
LEMMA AnsweredStep ==
    ASSUME TypeOK, Pending, Requests, Sealed, Answered, [Next]_vars
    PROVE  Answered'
  <1>0. TabsOK /\ ApiOK /\ now \in Nat /\ stored \in [Ids -> Nat]
        /\ NoHandoff.token = None
    BY TypeParts, Numbers DEF ApiOK, Times, NoHandoff
  <1> SUFFICES ASSUME NEW g \in given'
               PROVE  /\ g.token # None
                      /\ handoffs'[g.token.of].token = g.token
                      /\ handoffs'[g.token.of].channel = g.channel
    BY DEF Answered
  <1>1. CASE g \in given
    <2>1. PICK s \in Ids : s = g.token.of /\ g.token # None
      BY <1>0, <1>1 DEF Answered, ApiOK, Token
    <2>2. handoffs[s].token = g.token /\ handoffs[s].channel = g.channel
      BY <1>1, <2>1 DEF Answered
    <2>3. handoffs[s] # NoHandoff /\ handoffs[s].channel # ""
      BY <1>0, <2>1, <2>2 DEF Sealed
    <2>4. ~(stored[s] > now)
      <3>1. ~(stored[s] > 0) /\ stored[s] \in Nat
        BY <1>0, <2>3 DEF Pending
      <3> QED
        BY <1>0, <3>1
    <2>5. handoffs'[s] = handoffs[s]
      BY <1>0, <2>3, <2>4, HandoffSteps
    <2> QED
      BY <2>1, <2>2, <2>5
  <1>2. CASE g \notin given
    BY <1>0, <1>2, GivenSteps
  <1> QED
    BY <1>1, <1>2

\* The invariant is inductive.
THEOREM Invariant == Spec => []IInv
  <1>1. Init => IInv
    <2> SUFFICES ASSUME Init PROVE IInv
      OBVIOUS
    <2>1. TypeOK
      <3>1. 0 \in Times /\ 0 \in 0 .. Attempts /\ 0 \in 0 .. MaxClock /\ 0 \in 0 .. MaxStarts
            /\ 0 \in 0 .. MaxMoves /\ 0 \in 0 .. MaxFaults
        BY Numbers DEF Times
      <3>2. NewTab \in Tab
        BY <3>1 DEF NewTab, Tab, Pages, Token, Replies, Messages
      <3>3. NoHandoff \in Handoff
        BY <3>1 DEF NoHandoff, Handoff, Token
      <3> QED
        BY <3>1, <3>2, <3>3 DEF Init, TypeOK
    <2>2. NewTab.page = "signinGate" /\ NewTab.id = 0 /\ NewTab.verifier = 0
      BY DEF NewTab
    <2>3. NoHandoff.channel = "" /\ NoHandoff.token = None
      BY DEF NoHandoff
    <2>4. \A s \in Ids : s \in Nat /\ s # 0
      BY Numbers DEF Ids
    <2>5. Verifiers /\ Pending /\ Placed
      BY <2>2, <2>4 DEF Init, Verifiers, Pending, Placed, Unused
    <2>6. Requests /\ Sealed /\ Answered
      BY <2>3 DEF Init, Requests, Sealed, Answered
    <2> QED
      BY <2>1, <2>5, <2>6 DEF IInv
  <1>2. IInv /\ [Next]_vars => IInv'
    BY TypeStep, VerifiersStep, PendingStep, PlacedStep, RequestsStep, SealedStep, AnsweredStep
       DEF IInv
  <1> QED
    BY <1>1, <1>2, PTL DEF Spec

\* The types of the state are those of TypeOK.
THEOREM TypeCorrect == Spec => []TypeOK
  <1>1. IInv => TypeOK
    BY DEF IInv
  <1> QED
    BY <1>1, Invariant, PTL

\* However often, at once and over which channels a handoff is redeemed, every answer carries
\* the token of the redeem that claimed it: one UPDATE claims it, and the redeem that loses
\* reads what was sealed (Redeem in handoff.go).
THEOREM OneToken == Spec => []OneTokenPerHandoff
  <1>1. IInv => OneTokenPerHandoff
    <2> SUFFICES ASSUME IInv, NEW a \in given, NEW b \in given, a.token.of = b.token.of
                 PROVE  a = b
      BY DEF OneTokenPerHandoff
    <2>1. a.token = b.token /\ a.channel = b.channel
      BY DEF IInv, Answered
    <2>2. /\ a \in [token : Token, channel : Channels] /\ b \in [token : Token, channel : Channels]
      BY DEF IInv, TypeOK
    <2> QED
      BY <2>1, <2>2
  <1> QED
    BY <1>1, Invariant, PTL

----------------------------------------------------------------------------
(* Who is refused. *)

\* A redeem refuses without a failure when the handoff has lapsed, when the verifier is not
\* its own, or when the other channel claimed it.
LEMMA Refusals ==
    ASSUME TypeOK, Sealed, NEW e \in exchanges, Redeem(e), faults' = faults
    PROVE  \/ UNCHANGED tabs
           \/ \E token \in Token : SignsIn(e, token)
           \/ /\ Refuse(e)
              /\ ~Live(e) \/ ~Verified(e) \/ handoffs[e.id].channel \notin {"", e.channel}
  <1>0. ApiOK /\ faults' # faults + 1
    BY TypeParts, Numbers DEF ApiOK
  <1>1. handoffs[e.id].token # None => handoffs[e.id].channel # ""
    BY <1>0, ExchangeFields DEF Sealed
  <1>2. handoffs[e.id].token \in Token /\ e.token \in Token
    BY <1>0, ExchangeFields
  <1>3. CASE Find(e)
    BY <1>1, <1>2, <1>3 DEF Find, replay
  <1>4. CASE Claim(e)
    BY <1>1, <1>2, <1>4 DEF Claim, LostClaim, replay, Claims
  <1>5. ~FindFails(e) /\ ~ClaimFails(e)
    BY <1>0 DEF FindFails, ClaimFails, Fault
  <1> QED
    BY <1>3, <1>4, <1>5 DEF Redeem

\* A step of a tab by itself tells no tab anything.
LEMMA ToldByTheApi ==
    ASSUME TabsOK, ApiOK, [Next]_vars, NEW t \in Tabs,
           tabs[t].answer = "", tabs'[t].answer # ""
    PROVE  \E e \in exchanges : Redeem(e)
  <1>1. ASSUME NEW u \in Tabs,
               \/ TabStep(u) \/ Awaits(u) \/ signInWithGoogle(u) \/ StateMismatch(u)
               \/ GoogleCallbackFails(u) \/ GoogleCallback(u) \/ signOut(u) \/ Visit(u)
        PROVE  FALSE
    <2>1. UNCHANGED tabs \/ \E tab : Becomes(u, tab) /\ Untold(u, tab)
      BY <1>1, TabChanges
    <2> QED
      BY <2>1 DEF Becomes, Untold, TabsOK
  <1>2. ASSUME (\E s \in Ids : CookieClient(s)) \/ Tick \/ UNCHANGED vars
        PROVE  FALSE
    BY <1>2 DEF CookieClient, Tick, vars
  <1> QED
    BY <1>1, <1>2 DEF Next

\* The clock and the times are numbers, of which one is past another or is not.
LEMMA TimesAreNumbers ==
    /\ ApiOK => now \in Nat
    /\ Times \subseteq Nat
    /\ \A m, n \in Nat : ~(m > n) => m <= n
  BY Numbers DEF ApiOK, Times

\* A tab that is told its sign-in was used was told so by a redeem that refused it.
LEMMA LateIsRefused ==
    ASSUME IInv, [Next]_vars, NEW t \in Tabs,
           tabs[t].answer = "", tabs'[t].answer = "handoff_invalid", faults' = faults
    PROVE  \/ handoffs[tabs[t].id].until <= now
           \/ handoffs[tabs[t].id].channel = "cookie"
           \/ tabs[t].held # tabs[t].id
  <1>0. TabsOK /\ ApiOK /\ Requests /\ Sealed /\ tabs'[t] # tabs[t] /\ now \in Nat
    <2>1. TabsOK /\ ApiOK /\ Requests /\ Sealed
      BY TypeParts DEF IInv
    <2>2. tabs'[t] # tabs[t]
      OBVIOUS
    <2>4. now \in Nat
      BY <2>1, TimesAreNumbers
    <2> QED
      BY <2>1, <2>2, <2>4
  <1>1. PICK e \in exchanges : Redeem(e)
    BY <1>0, ToldByTheApi
  <1>2. PICK answer \in {"ok", "handoff_invalid"}, token \in Token :
          /\ Answer(e, answer, token)
          /\ answer = "handoff_invalid" => ~Live(e) \/ ~Verified(e)
                                           \/ handoffs[e.id].channel \notin {"", e.channel}
    <2>1. \/ \E token \in Token : SignsIn(e, token)
          \/ /\ Refuse(e)
             /\ ~Live(e) \/ ~Verified(e) \/ handoffs[e.id].channel \notin {"", e.channel}
      BY <1>0, <1>1, Refusals DEF IInv
    <2>2. None \in Token
      BY DEF Token
    <2> QED
      BY <2>1, <2>2 DEF SignsIn, Refuse
  <1>3. Awaited(e) /\ e.tab = t /\ answer = "handoff_invalid"
    <2>1. Awaited(e)
      BY <1>0, <1>2 DEF Answer
    <2>2. PICK tab : Becomes(e.tab, tab) /\ tab.answer = answer
      BY <1>0, <1>2, <2>1, AnswerRead
    <2> QED
      BY <1>0, <2>1, <2>2 DEF Becomes, TabsOK
  <1>4. e.channel = "body" /\ e.verifier = tabs[t].held /\ e.id = tabs[t].id
    BY <1>0, <1>3 DEF Requests, Awaited
  <1>5. handoffs[e.id].until \in Nat /\ handoffs[e.id].channel \in {"body", "cookie", ""}
    <2>1. handoffs[e.id] \in Handoff
      BY <1>0, ExchangeFields
    <2>2. handoffs[e.id].until \in Times
      BY <2>1 DEF Handoff
    <2>3. handoffs[e.id].channel \in {"body", "cookie", ""}
      BY <2>1 DEF Handoff, Channels
    <2>4. Times \subseteq Nat
      BY TimesAreNumbers
    <2> QED
      BY <2>2, <2>3, <2>4
  <1>6. CASE ~Live(e)
    <2>1. ~(handoffs[e.id].until > now)
      BY <1>6 DEF Live
    <2>0. handoffs[e.id].until \in Nat /\ now \in Nat
      BY <1>0, <1>5
    <2>2. handoffs[e.id].until <= now
      BY <2>0, <2>1, TimesAreNumbers
    <2> QED
      BY <1>4, <2>2
  <1>7. CASE ~Verified(e)
    BY <1>4, <1>7 DEF Verified
  <1> QED
    BY <1>2, <1>3, <1>4, <1>5, <1>6, <1>7

\* A tab says that its sign-in was used when it was told so.
LEMMA SaidWhenTold ==
    ASSUME TabsOK, ApiOK, [Next]_vars, NEW t \in Tabs, tabs'[t].message = "used"
    PROVE  tabs[t].message = "used" \/ tabs[t].answer = "handoff_invalid"
  <1>1. CASE UNCHANGED tabs
    BY <1>1
  <1>2. CASE \E u \in Tabs : \E tab : Becomes(u, tab)
    BY <1>2 DEF Becomes, Says, TabsOK
  <1> QED
    BY <1>1, <1>2, TabsMove

\* The callback page says that its sign-in was used only when the handoff or its minute of
\* replay has lapsed, another channel has it, or the verifier is another start's: the page's
\* own tries, however many are lost or late, never use it up.
THEOREM TriesUseNothingUp == Spec => OnlyLateIsRefused
  <1>1. IInv /\ [Next]_vars =>
          [ \A t \in Tabs :
              LET tab == tabs[t]
              IN /\ tabs'[t].message = "used" => tab.message = "used" \/ tab.answer = "handoff_invalid"
                 /\ tab.answer = "" /\ tabs'[t].answer = "handoff_invalid" /\ faults' = faults
                    => \/ handoffs[tab.id].until <= now
                       \/ handoffs[tab.id].channel = "cookie"
                       \/ tab.held # tab.id ]_vars
    BY LateIsRefused, SaidWhenTold, TypeParts DEF IInv
  <1> QED
    BY <1>1, Invariant, PTL DEF Spec, OnlyLateIsRefused

=============================================================================
