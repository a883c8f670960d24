----------------------------- MODULE WebSession -----------------------------
(***************************************************************************)
(* The session of one browser against the API: lib/auth.ts,                *)
(* components/AuthGuard.tsx and the pages app/auth and app/logout of       *)
(* packages/web, composed with Auth.                                       *)
(*                                                                         *)
(* A page is one mounted component with at most one request under way.     *)
(* Several pages are several tabs, or pages one tab has left: nothing      *)
(* cancels a check when its component unmounts.  They share localStorage.  *)
(* The access and the refresh token are saved and cleared together, so one *)
(* variable holds the pair.                                                *)
(*                                                                         *)
(* A request that fails reaches the page as an error while its handler may *)
(* go on; Lossy says whether requests and handlers can fail.               *)
(*                                                                         *)
(* One variable is no state of the browser: crossed is a history variable, *)
(* for the property about answers that come too late.                      *)
(***************************************************************************)
EXTENDS Auth

CONSTANTS Page, Lossy

ASSUME LossyAssumption == Lossy \in BOOLEAN

VARIABLES
  stored,   \* TOKEN_KEY and REFRESH_KEY
  profile,  \* USER_KEY
  crossed,  \* pages whose tokens changed hands while they refresh them
  page,     \* what each page shows or waits for
  phone,    \* the number typed into the form
  carried,  \* the token GET /auth/me was sent with
  waits     \* the call whose answer the page awaits

storage  == <<stored, profile, crossed>>
pageVars == <<page, phone, carried, waits>>
vars     == <<authVars, storage, pageVars>>

PageState ==
  {"blank", "form", "sending", "code", "resending", "verifying",
   "guard", "me", "refreshing", "in", "out"}

TypeOK ==
  /\ AuthTypeOK
  /\ stored \in Token \cup {NoToken}
  /\ profile \in User \cup {None}
  /\ crossed \subseteq Page
  /\ page \in [Page -> PageState]
  /\ phone \in [Page -> User \cup {None}]
  /\ carried \in [Page -> Token \cup {NoToken}]
  /\ waits \in [Page -> Call \cup {None}]

Init ==
  /\ AuthInit
  /\ stored = NoToken /\ profile = None /\ crossed = {}
  /\ page = [p \in Page |-> "blank"]
  /\ phone = [p \in Page |-> None]
  /\ carried = [p \in Page |-> NoToken]
  /\ waits = [p \in Page |-> None]

Show(p, s) == page' = [page EXCEPT ![p] = s]

\* Variants that forget one of the keys.
ClearAuthKeepsProfile == stored' = NoToken /\ UNCHANGED profile
ClearAuthKeepsTokens  == profile' = None /\ UNCHANGED stored

\* clearAuth
ClearAuth == stored' = NoToken /\ profile' = None

\* A variant that saves the access token alone.
SaveTokensAccessOnly(c) ==
  stored' = IF stored = NoToken THEN issued[c] ELSE stored

\* saveTokens
SaveTokens(c) == stored' = issued[c]

\* Every step that writes the storage records whose refresh it overtakes.
Crossing ==
  crossed' = {p \in Page : /\ page'[p] = "refreshing"
                           /\ p \in crossed \/ stored'.user # stored.user}

Attended(c) == \E p \in Page : waits[p] = c

\* Page p sends a request, handled by call c, and shows s meanwhile.
Await(p, c, s) ==
  /\ Show(p, s)
  /\ waits' = [waits EXCEPT ![p] = c]

\* A variant that does not catch an error.
SettlesUncaught(p, outcome) ==
  /\ outcome = "answered" /\ at[waits[p]] = outcome
  /\ Release(waits[p])
  /\ waits' = [waits EXCEPT ![p] = None]

\* The request of page p is over for the page, with the given outcome: the
\* answer of the handler frees the call, and an error may also come from the
\* network while the handler goes on.
Settles(p, outcome) ==
  /\ \/ at[waits[p]] = outcome /\ Release(waits[p])
     \/ outcome = "refused" /\ Lossy /\ UNCHANGED authVars
  /\ waits' = [waits EXCEPT ![p] = None]
-----------------------------------------------------------------------------
(* The sign-in page *)

\* Mounting it: a browser that holds a token is sent to the dashboard.
OpenAuth(p) ==
  /\ page[p] \in {"blank", "out"}
  /\ Show(p, IF stored # NoToken THEN "guard" ELSE "form")
  /\ UNCHANGED <<authVars, storage, phone, carried, waits>>

HandleRegister(p) ==
  /\ page[p] = "form"
  /\ \E c \in Call, u \in User, k \in Code :
       /\ Register(c, u, k)
       /\ Await(p, c, "sending")
       /\ phone' = [phone EXCEPT ![p] = u]
  /\ UNCHANGED <<storage, carried>>

HandleResend(p) ==
  /\ page[p] = "code"
  /\ \E c \in Call, k \in Code :
       Register(c, phone[p], k) /\ Await(p, c, "resending")
  /\ UNCHANGED <<storage, phone, carried>>

RegisterAnswered(p) ==
  /\ page[p] \in {"sending", "resending"}
  /\ \/ Settles(p, "answered") /\ Show(p, "code")
     \/ /\ Settles(p, "refused")
        /\ Show(p, IF page[p] = "sending" THEN "form" ELSE "code")
  /\ UNCHANGED <<storage, phone, carried>>

\* The user enters a code, the right one or not.
HandleVerify(p) ==
  /\ page[p] = "code"
  /\ \E c \in Call, k \in Code :
       VerifyCode(c, phone[p], k) /\ Await(p, c, "verifying")
  /\ UNCHANGED <<storage, phone, carried>>

\* Success saves the tokens and the user and opens the dashboard.
VerifyAnswered(p) ==
  /\ page[p] = "verifying"
  /\ \/ /\ Settles(p, "answered")
        /\ SaveTokens(waits[p])
        /\ profile' = who[waits[p]]
        /\ Show(p, "guard")
        /\ Crossing
     \/ /\ Settles(p, "refused")
        /\ Show(p, "code")
        /\ UNCHANGED storage
  /\ UNCHANGED <<phone, carried>>

EditPhone(p) ==
  /\ page[p] = "code"
  /\ Show(p, "form")
  /\ UNCHANGED <<authVars, storage, phone, carried, waits>>
-----------------------------------------------------------------------------
(* AuthGuard, around every page that needs a user *)

OpenGuarded(p) ==
  /\ page[p] \in {"blank", "form", "code", "in"}
  /\ Show(p, "guard")
  /\ UNCHANGED <<authVars, storage, phone, carried, waits>>

\* checkAuth: without tokens refreshTokens has nothing to show either; with
\* tokens GET /auth/me is sent.
CheckAuth(p) ==
  /\ page[p] = "guard"
  /\ \/ stored = NoToken /\ Show(p, "out") /\ UNCHANGED carried
     \/ /\ stored # NoToken
        /\ Show(p, "me")
        /\ carried' = [carried EXCEPT ![p] = stored]
  /\ UNCHANGED <<authVars, storage, phone, waits>>

MeAccepted(p) ==
  /\ page[p] = "me"
  /\ AccessValid(carried[p]) /\ carried[p].user \in registered
  /\ Show(p, "in")
  /\ carried' = [carried EXCEPT ![p] = NoToken]
  /\ UNCHANGED <<authVars, storage, phone, waits>>

\* Any error sends the refresh token that is stored by now; if there is none,
\* or the request never reaches the API, the page ends signed out.
MeRefused(p) ==
  /\ page[p] = "me"
  /\ Lossy \/ ~AccessValid(carried[p])
  /\ carried' = [carried EXCEPT ![p] = NoToken]
  /\ \/ /\ stored # NoToken
        /\ \E c \in Call : AskRefresh(c, stored) /\ Await(p, c, "refreshing")
        /\ UNCHANGED storage
     \/ /\ stored = NoToken \/ Lossy
        /\ ClearAuth
        /\ Show(p, "out")
        /\ Crossing
        /\ UNCHANGED <<authVars, waits>>
  /\ UNCHANGED phone

\* saveTokens, or clearAuth on any error.
RefreshAnswered(p) ==
  /\ page[p] = "refreshing"
  /\ \/ /\ Settles(p, "answered")
        /\ SaveTokens(waits[p])
        /\ Show(p, "in")
        /\ UNCHANGED profile
     \/ /\ Settles(p, "refused")
        /\ ClearAuth
        /\ Show(p, "out")
  /\ Crossing
  /\ UNCHANGED <<phone, carried>>
-----------------------------------------------------------------------------
\* The page app/logout clears localStorage and tells the API nothing.
Logout(p) ==
  /\ page[p] \in {"blank", "in"}
  /\ ClearAuth
  /\ Show(p, "out")
  /\ Crossing
  /\ UNCHANGED <<authVars, phone, carried, waits>>

PageStep(p) ==
  \/ OpenAuth(p) \/ HandleRegister(p) \/ HandleResend(p) \/ RegisterAnswered(p)
  \/ HandleVerify(p) \/ VerifyAnswered(p) \/ EditPhone(p)
  \/ OpenGuarded(p) \/ CheckAuth(p) \/ MeAccepted(p) \/ MeRefused(p)
  \/ RefreshAnswered(p) \/ Logout(p)

CallStep(c) ==
  \/ HandlerStep(c)
  \/ Lossy /\ HandlerFails(c)
  \/ ~Attended(c) /\ at[c] \in Ended /\ Release(c)

Next ==
  \/ \E p \in Page : PageStep(p)
  \/ (\E c \in Call : CallStep(c)) /\ UNCHANGED <<storage, pageVars>>
  \/ Tick /\ UNCHANGED <<storage, pageVars>>

Spec == Init /\ [][Next]_vars

\* Handlers run; a request is answered or fails; a page goes on by itself
\* when the answer is there, and follows its redirects.
Fairness ==
  /\ \A c \in Call : WF_vars(CallStep(c) /\ UNCHANGED <<storage, pageVars>>)
  /\ \A p \in Page :
       /\ WF_vars(CheckAuth(p)) /\ WF_vars(MeAccepted(p) \/ MeRefused(p))
       /\ WF_vars(RefreshAnswered(p)) /\ WF_vars(VerifyAnswered(p))
       /\ WF_vars(RegisterAnswered(p))
       /\ WF_vars(page[p] = "out" /\ OpenAuth(p))

FairSpec == Spec /\ Fairness
-----------------------------------------------------------------------------
(* Properties *)

Quiet == \A c \in Call : at[c] = "free"

\* What the browser keeps is what the API would accept: with no request under
\* way, the stored refresh token is the one whose hash the users table holds
\* (lib/auth.ts saveTokens against auth.service.ts:102-109 and 156-159).
StoredIsLive ==
  Quiet /\ stored # NoToken => hash[stored.user] = stored

\* What makes it so for one page whose requests are all answered.  Every call
\* under way is the one the page awaits; the sign-in form is shown only with
\* nothing stored; and a refresh shows the live token until its handler has
\* replaced it, so that nothing but the age of the token can refuse it.
SigningIn(p) ==
  page[p] \in {"form", "sending", "code", "resending", "verifying", "out"}

StoredSessionOpen == stored.user \in registered /\ hash[stored.user] = stored

VerifyUnderWay(c) ==
  /\ at[c] \in {"storing", "answered", "refused"}
  /\ at[c] \in {"storing", "answered"} =>
       issued[c] # NoToken /\ issued[c].user = who[c] /\ who[c] \in registered
  /\ at[c] = "answered" => hash[who[c]] = issued[c]

RefreshUnderWay(c) ==
  /\ at[c] \in {"asked", "rotating", "answered", "refused"}
  /\ shown[c] = stored /\ stored # NoToken /\ who[c] = stored.user
  /\ at[c] \in {"asked", "rotating"} => StoredSessionOpen
  /\ at[c] \in {"rotating", "answered"} =>
       issued[c] # NoToken /\ issued[c].user = who[c] /\ who[c] \in registered
  /\ at[c] = "answered" => hash[who[c]] = issued[c]
  /\ at[c] = "refused" => ~RefreshValid(shown[c])

SessionInv ==
  /\ \A c \in Call : at[c] # "free" => Attended(c)
  /\ \A p \in Page :
       /\ waits[p] # None <=>
            page[p] \in {"sending", "resending", "verifying", "refreshing"}
       /\ SigningIn(p) => stored = NoToken
       /\ stored # NoToken /\ page[p] # "refreshing" => StoredSessionOpen
       /\ page[p] \in {"sending", "resending"} =>
            at[waits[p]] \in {"texting", "answered"}
       /\ page[p] = "verifying" => VerifyUnderWay(waits[p])
       /\ page[p] = "refreshing" => RefreshUnderWay(waits[p])

\* USER_KEY names the user whose tokens are stored.
ProfileMatches == profile = stored.user

\* refreshTokens saves tokens without a user, and every tab writes the same
\* three keys.  The only step that puts one user's tokens under another's name
\* is the answer of a refresh during which the stored session passed to
\* another user, or to nobody; every other order of sign-ins, refreshes, lost
\* answers and logouts keeps the two together.
ProfileKept ==
  [][ProfileMatches /\ ~ProfileMatches' =>
       \E p \in crossed : page[p] = "refreshing" /\ page'[p] = "in"]_vars

\* A check signs the browser out only once the refresh token it showed has
\* expired (docs/Refinement.md:58, EC-27: silent refresh via refresh token).
ExpiryAlone ==
  \A p \in Page : page[p] = "refreshing" /\ page'[p] = "out" =>
    ~RefreshValid(shown[waits[p]])

SilentRefresh == [][ExpiryAlone]_vars

\* Every visit to a guarded page ends with the page or at the sign-in form, and
\* never in a chase of redirects between the two (AuthGuard.tsx:44-46 sends to
\* /auth, auth/page.tsx:22-26 sends back).
CheckEnds ==
  \A p \in Page :
    page[p] \in {"guard", "me", "refreshing", "out"} ~>
      page[p] \in {"in", "form"}

\* Every check reaches a verdict, however the checks of other pages interleave.
CheckDecides ==
  \A p \in Page :
    page[p] \in {"guard", "me", "refreshing"} ~> page[p] \in {"in", "out"}

\* A code request and a sign-in are answered: the form is usable again.
FormAnswers ==
  \A p \in Page :
    page[p] \in {"sending", "resending", "verifying"} ~>
      page[p] \in {"code", "form", "guard"}
=============================================================================
