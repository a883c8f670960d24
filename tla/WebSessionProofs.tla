-------------------------- MODULE WebSessionProofs --------------------------
(***************************************************************************)
(* Theorems about WebSession: its types for all constants; for a browser   *)
(* with one page whose requests are all answered, that the session it      *)
(* stores is the live one and ends by age alone; and for any number of     *)
(* tabs, when the name beside the tokens stops being theirs.               *)
(***************************************************************************)
EXTENDS WebSession, TLAPS

\* The null values are none of the values they stand in for.
LEMMA NullsApart ==
  /\ NoToken \notin Token
  /\ None \notin User /\ None \notin Code /\ None \notin Call
BY AuthAssumption DEF NoToken, Token

\* A pair is issued with the time of the clock.
LEMMA PairType ==
  ASSUME AuthTypeOK, NEW u \in User PROVE Pair(u) \in Token
BY DEF AuthTypeOK, Pair, Token

\* The initial users table and calls have their types.
LEMMA InitAuthTypeOK == AuthInit => AuthTypeOK
BY AuthAssumption DEF AuthInit, AuthTypeOK, Time

\* A code request keeps the types of Auth.
LEMMA RegisterTypeOK ==
  ASSUME AuthTypeOK, NEW c \in Call, NEW u \in User, NEW k \in Code,
         Register(c, u, k)
  PROVE  AuthTypeOK'
<1>1. now + CodeLife \in Nat
  BY AuthAssumption DEF AuthTypeOK, Time
<1>2. [code |-> k, expires |-> now + CodeLife] \in [code : Code, expires : Nat]
  BY <1>1
<1>3. pending' \in [User -> [code : Code, expires : Nat] \cup {NoCode}]
  BY <1>2 DEF AuthTypeOK, Register
<1>4. at' \in [Call -> {"free"} \cup Handling \cup Ended]
  BY DEF AuthTypeOK, Register, Handling
<1>5. who' \in [Call -> User \cup {None}]
  BY DEF AuthTypeOK, Register
<1> QED
  BY <1>3, <1>4, <1>5 DEF AuthTypeOK, Register

\* A sign-in keeps the types of Auth.
LEMMA VerifyTypeOK ==
  ASSUME AuthTypeOK, NEW c \in Call, NEW u \in User, NEW k \in Code,
         VerifyCode(c, u, k)
  PROVE  AuthTypeOK'
<1>1. issued' \in [Call -> Token \cup {NoToken}]
  BY PairType DEF AuthTypeOK, VerifyCode, usersTable
<1>2. at' \in [Call -> {"free"} \cup Handling \cup Ended]
  BY DEF AuthTypeOK, VerifyCode, Handling, Ended
<1>3. who' \in [Call -> User \cup {None}]
  BY DEF AuthTypeOK, VerifyCode, usersTable
<1> QED
  BY <1>1, <1>2, <1>3 DEF AuthTypeOK, VerifyCode, usersTable

\* The arrival of a refresh keeps the types of Auth.
LEMMA AskTypeOK ==
  ASSUME AuthTypeOK, NEW c \in Call, NEW t \in Token, AskRefresh(c, t)
  PROVE  AuthTypeOK'
<1>1. t.user \in User
  BY DEF Token
<1>2. at' \in [Call -> {"free"} \cup Handling \cup Ended]
  BY DEF AuthTypeOK, AskRefresh, Handling
<1>3. who' \in [Call -> User \cup {None}]
  BY <1>1 DEF AuthTypeOK, AskRefresh, usersTable
<1>4. shown' \in [Call -> Token \cup {NoToken}]
  BY DEF AuthTypeOK, AskRefresh, usersTable
<1> QED
  BY <1>2, <1>3, <1>4 DEF AuthTypeOK, AskRefresh, usersTable

\* So does the reading of its row: an open session belongs to a user.
LEMMA RefreshTypeOK ==
  ASSUME AuthTypeOK, NEW c \in Call, RefreshToken(c)
  PROVE  AuthTypeOK'
<1>1. at' \in [Call -> {"free"} \cup Handling \cup Ended]
  BY DEF AuthTypeOK, RefreshToken, Handling, Ended
<1>2. issued' \in [Call -> Token \cup {NoToken}]
  <2>1. CASE issued' = issued
    BY <2>1 DEF AuthTypeOK
  <2>2. CASE /\ who[c] \in registered
             /\ issued' = [issued EXCEPT ![c] = Pair(who[c])]
    <3>1. Pair(who[c]) \in Token
      BY <2>2, PairType DEF AuthTypeOK
    <3> QED
      BY <2>2, <3>1 DEF AuthTypeOK
  <2> QED
    BY <2>1, <2>2 DEF RefreshToken
<1> QED
  BY <1>1, <1>2 DEF AuthTypeOK, RefreshToken, usersTable

\* So do the writes to the session.
LEMMA StoreTypeOK ==
  ASSUME AuthTypeOK, NEW c \in Call,
         StoreSession(c) \/ Rotate(c) \/ Revoke(c)
  PROVE  AuthTypeOK'
<1>1. hash' \in [User -> Token \cup {NoToken}]
  <2>1. hash' = WithSession(c) \/ hash' = [hash EXCEPT ![who[c]] = NoToken]
    BY DEF StoreSession, Rotate, Revoke
  <2> QED
    BY <2>1 DEF AuthTypeOK, WithSession
<1>2. at' \in [Call -> {"free"} \cup Handling \cup Ended]
  BY DEF AuthTypeOK, StoreSession, Rotate, Revoke, Ended
<1>3. pending' \in [User -> [code : Code, expires : Nat] \cup {NoCode}]
  BY DEF AuthTypeOK, StoreSession, Rotate, Revoke
<1> QED
  BY <1>1, <1>2, <1>3 DEF AuthTypeOK, StoreSession, Rotate, Revoke

\* And the steps that end a call, whichever slot they name.
LEMMA EndTypeOK ==
  ASSUME AuthTypeOK, NEW c,
         SendSmsCode(c) \/ HandlerFails(c) \/ Release(c)
  PROVE  AuthTypeOK'
<1>1. at' \in [Call -> {"free"} \cup Handling \cup Ended]
  BY DEF AuthTypeOK, SendSmsCode, HandlerFails, Release, Ended
<1>2. /\ who' \in [Call -> User \cup {None}]
      /\ shown' \in [Call -> Token \cup {NoToken}]
      /\ issued' \in [Call -> Token \cup {NoToken}]
  BY DEF AuthTypeOK, SendSmsCode, HandlerFails, Release
<1> QED
  BY <1>1, <1>2 DEF AuthTypeOK, SendSmsCode, HandlerFails, Release, usersTable
-----------------------------------------------------------------------------
(* Pages *)

\* A page awaits a call exactly while it shows so, and a page that has asked
\* for a code knows its number.
PageFits(p) ==
  /\ waits[p] # None <=>
       page[p] \in {"sending", "resending", "verifying", "refreshing"}
  /\ page[p] \in {"sending", "code", "resending", "verifying"} =>
       phone[p] \in User

AllFit == \A p \in Page : PageFits(p)

WebTypes ==
  /\ stored \in Token \cup {NoToken}
  /\ profile \in User \cup {None}
  /\ crossed \subseteq Page
  /\ page \in [Page -> PageState]
  /\ phone \in [Page -> User \cup {None}]
  /\ carried \in [Page -> Token \cup {NoToken}]
  /\ waits \in [Page -> Call \cup {None}]

\* A browser starts with nothing.
LEMMA InitTypeOK == Init => TypeOK /\ AllFit
BY InitAuthTypeOK
DEF Init, TypeOK, AllFit, PageFits, PageState

\* The end of a request keeps the types of Auth.
LEMMA SettlesTypeOK ==
  ASSUME AuthTypeOK, NEW p, NEW outcome, Settles(p, outcome)
  PROVE  AuthTypeOK'
<1>1. CASE Release(waits[p])
  BY <1>1, EndTypeOK
<1>2. CASE UNCHANGED authVars
  BY <1>2 DEF AuthTypeOK, authVars, usersTable, callVars
<1> QED
  BY <1>1, <1>2 DEF Settles

\* The steps of the sign-in page keep the types, and every page fits.
LEMMA SignInTypeOK ==
  ASSUME TypeOK, AllFit, NEW p \in Page,
         \/ OpenAuth(p) \/ HandleRegister(p) \/ HandleResend(p)
         \/ RegisterAnswered(p) \/ HandleVerify(p) \/ VerifyAnswered(p)
         \/ EditPhone(p)
  PROVE  TypeOK' /\ AllFit'
<1> USE DEF AllFit, PageFits, Show, Await
<1>0. AuthTypeOK /\ WebTypes /\ None \notin Call
  BY NullsApart DEF TypeOK, WebTypes
<1>1. CASE OpenAuth(p)
  <2>1. AuthTypeOK'
    BY <1>0, <1>1 DEF OpenAuth, authVars, usersTable, callVars, AuthTypeOK
  <2>2. WebTypes'
    BY <1>0, <1>1 DEF OpenAuth, WebTypes, PageState, storage
  <2>3. AllFit'
    BY <1>0, <1>1 DEF OpenAuth, WebTypes, PageState
  <2> QED BY <2>1, <2>2, <2>3 DEF TypeOK, WebTypes
<1>2. CASE HandleRegister(p)
  <2>1. PICK c \in Call, u \in User, k \in Code :
          /\ Register(c, u, k)
          /\ Await(p, c, "sending")
          /\ phone' = [phone EXCEPT ![p] = u]
    BY <1>2 DEF HandleRegister
  <2>2. AuthTypeOK'
    BY <1>0, <2>1, RegisterTypeOK
  <2>3. WebTypes'
    BY <1>0, <1>2, <2>1 DEF HandleRegister, WebTypes, PageState, storage
  <2>4. AllFit'
    BY <1>0, <1>2, <2>1 DEF HandleRegister, WebTypes, PageState
  <2> QED BY <2>2, <2>3, <2>4 DEF TypeOK, WebTypes
<1>3. CASE HandleResend(p)
  <2>1. PICK c \in Call, k \in Code :
          Register(c, phone[p], k) /\ Await(p, c, "resending")
    BY <1>3 DEF HandleResend
  <2>2. phone[p] \in User
    BY <1>3 DEF HandleResend
  <2>3. AuthTypeOK'
    BY <1>0, <2>1, <2>2, RegisterTypeOK
  <2>4. WebTypes'
    BY <1>0, <1>3, <2>1 DEF HandleResend, WebTypes, PageState, storage
  <2>5. AllFit'
    BY <1>0, <1>3, <2>1 DEF HandleResend, WebTypes, PageState
  <2> QED BY <2>3, <2>4, <2>5 DEF TypeOK, WebTypes
<1>4. CASE RegisterAnswered(p)
  <2>1. AuthTypeOK'
    BY <1>0, <1>4, SettlesTypeOK DEF RegisterAnswered
  <2>2. /\ waits' = [waits EXCEPT ![p] = None]
        /\ \E s \in {"code", "form"} : page' = [page EXCEPT ![p] = s]
        /\ UNCHANGED <<stored, profile, crossed, phone, carried>>
        /\ phone[p] \in User
    BY <1>4 DEF RegisterAnswered, Settles, storage
  <2>3. WebTypes'
    BY <1>0, <2>2 DEF WebTypes, PageState
  <2>4. AllFit'
    BY <1>0, <2>2 DEF WebTypes, PageState
  <2> QED BY <2>1, <2>3, <2>4 DEF TypeOK, WebTypes
<1>5. CASE HandleVerify(p)
  <2>1. PICK c \in Call, k \in Code :
          VerifyCode(c, phone[p], k) /\ Await(p, c, "verifying")
    BY <1>5 DEF HandleVerify
  <2>2. phone[p] \in User
    BY <1>5 DEF HandleVerify
  <2>3. AuthTypeOK'
    BY <1>0, <2>1, <2>2, VerifyTypeOK
  <2>4. WebTypes'
    BY <1>0, <1>5, <2>1 DEF HandleVerify, WebTypes, PageState, storage
  <2>5. AllFit'
    BY <1>0, <1>5, <2>1 DEF HandleVerify, WebTypes, PageState
  <2> QED BY <2>3, <2>4, <2>5 DEF TypeOK, WebTypes
<1>6. CASE VerifyAnswered(p)
  <2>1. AuthTypeOK'
    BY <1>0, <1>6, SettlesTypeOK DEF VerifyAnswered
  <2>2. waits[p] \in Call
    BY <1>0, <1>6 DEF VerifyAnswered, WebTypes
  <2>3. /\ waits' = [waits EXCEPT ![p] = None]
        /\ \E s \in {"code", "guard"} : page' = [page EXCEPT ![p] = s]
        /\ stored' \in {stored, issued[waits[p]]}
        /\ profile' \in {profile, who[waits[p]]}
        /\ UNCHANGED <<phone, carried>>
        /\ phone[p] \in User
    BY <1>6 DEF VerifyAnswered, Settles, SaveTokens, storage
  <2>4. stored' \in Token \cup {NoToken} /\ profile' \in User \cup {None}
    BY <1>0, <2>2, <2>3 DEF WebTypes, AuthTypeOK
  <2>5. WebTypes'
    <3>1. crossed' \subseteq Page
      BY <1>0, <1>6 DEF VerifyAnswered, Crossing, storage, WebTypes
    <3> QED
      BY <1>0, <2>3, <2>4, <3>1 DEF WebTypes, PageState
  <2>6. AllFit'
    BY <1>0, <2>3 DEF WebTypes, PageState
  <2> QED BY <2>1, <2>5, <2>6 DEF TypeOK, WebTypes
<1>7. CASE EditPhone(p)
  <2>1. AuthTypeOK'
    BY <1>0, <1>7 DEF EditPhone, authVars, usersTable, callVars, AuthTypeOK
  <2>2. WebTypes'
    BY <1>0, <1>7 DEF EditPhone, WebTypes, PageState, storage
  <2>3. AllFit'
    BY <1>0, <1>7 DEF EditPhone, WebTypes, PageState
  <2> QED BY <2>1, <2>2, <2>3 DEF TypeOK, WebTypes
<1> QED
  BY <1>1, <1>2, <1>3, <1>4, <1>5, <1>6, <1>7

\* So do the steps of AuthGuard and the logout page.
LEMMA GuardTypeOK ==
  ASSUME TypeOK, AllFit, NEW p \in Page,
         \/ OpenGuarded(p) \/ CheckAuth(p) \/ MeAccepted(p) \/ MeRefused(p)
         \/ RefreshAnswered(p) \/ Logout(p)
  PROVE  TypeOK' /\ AllFit'
<1> USE DEF AllFit, PageFits, Show, Await
<1>0. AuthTypeOK /\ WebTypes /\ None \notin Call
  BY NullsApart DEF TypeOK, WebTypes
<1>1. CASE OpenGuarded(p) \/ CheckAuth(p) \/ MeAccepted(p) \/ Logout(p)
  <2>1. AuthTypeOK'
    BY <1>0, <1>1
    DEF OpenGuarded, CheckAuth, MeAccepted, Logout, authVars, usersTable,
        callVars, AuthTypeOK
  <2>2. /\ \E s \in {"guard", "me", "in", "out"} : page' = [page EXCEPT ![p] = s]
        /\ waits[p] = None
        /\ UNCHANGED <<phone, waits>>
    BY <1>1 DEF OpenGuarded, CheckAuth, MeAccepted, Logout
  <2>3. /\ stored' \in {stored, NoToken}
        /\ profile' \in {profile, None}
        /\ \E t \in {stored, NoToken, carried[p]} :
             carried' = [carried EXCEPT ![p] = t]
    BY <1>0, <1>1
    DEF OpenGuarded, CheckAuth, MeAccepted, Logout, ClearAuth, storage, WebTypes
  <2>4. carried' \in [Page -> Token \cup {NoToken}]
    BY <1>0, <2>3 DEF WebTypes
  <2>5. WebTypes'
    <3>1. crossed' \subseteq Page
      BY <1>0, <1>1 DEF OpenGuarded, CheckAuth, MeAccepted, Logout, Crossing, storage, WebTypes
    <3> QED
      BY <1>0, <2>2, <2>3, <2>4, <3>1 DEF WebTypes, PageState
  <2>6. AllFit'
    BY <1>0, <2>2 DEF WebTypes, PageState
  <2> QED BY <2>1, <2>5, <2>6 DEF TypeOK, WebTypes
<1>2. CASE MeRefused(p)
  <2>1. carried' = [carried EXCEPT ![p] = NoToken] /\ phone' = phone
    BY <1>2 DEF MeRefused
  <2>2. CASE stored # NoToken /\ UNCHANGED storage
             /\ \E c \in Call : AskRefresh(c, stored) /\ Await(p, c, "refreshing")
    <3>1. PICK c \in Call : AskRefresh(c, stored) /\ Await(p, c, "refreshing")
      BY <2>2
    <3>2. AuthTypeOK'
      BY <1>0, <2>2, <3>1, AskTypeOK DEF WebTypes
    <3>3. WebTypes'
      BY <1>0, <2>1, <2>2, <3>1 DEF WebTypes, PageState, storage
    <3>4. AllFit'
      BY <1>0, <2>1, <3>1 DEF WebTypes, PageState
    <3> QED BY <3>2, <3>3, <3>4 DEF TypeOK, WebTypes
  <2>3. CASE ClearAuth /\ Show(p, "out") /\ Crossing /\ UNCHANGED <<authVars, waits>>
    <3>1. AuthTypeOK'
      BY <1>0, <2>3 DEF authVars, usersTable, callVars, AuthTypeOK
    <3>2. WebTypes'
      BY <1>0, <2>1, <2>3 DEF WebTypes, PageState, ClearAuth, Crossing
    <3>3. waits[p] = None
      BY <1>2 DEF MeRefused
    <3>4. AllFit'
      BY <1>0, <2>1, <2>3, <3>3 DEF WebTypes, PageState
    <3> QED BY <3>1, <3>2, <3>4 DEF TypeOK, WebTypes
  <2> QED BY <1>2, <2>2, <2>3 DEF MeRefused
<1>3. CASE RefreshAnswered(p)
  <2>1. AuthTypeOK'
    BY <1>0, <1>3, SettlesTypeOK DEF RefreshAnswered
  <2>2. waits[p] \in Call
    BY <1>0, <1>3 DEF RefreshAnswered, WebTypes
  <2>3. /\ waits' = [waits EXCEPT ![p] = None]
        /\ \E s \in {"in", "out"} : page' = [page EXCEPT ![p] = s]
        /\ stored' \in {NoToken, issued[waits[p]]}
        /\ profile' \in {profile, None}
        /\ UNCHANGED <<phone, carried>>
    BY <1>3 DEF RefreshAnswered, Settles, SaveTokens, ClearAuth
  <2>4. stored' \in Token \cup {NoToken}
    BY <1>0, <2>2, <2>3 DEF AuthTypeOK
  <2>5. WebTypes'
    <3>1. crossed' \subseteq Page
      BY <1>3 DEF RefreshAnswered, Crossing
    <3> QED
      BY <1>0, <2>3, <2>4, <3>1 DEF WebTypes, PageState
  <2>6. AllFit'
    BY <1>0, <2>3 DEF WebTypes, PageState
  <2> QED BY <2>1, <2>5, <2>6 DEF TypeOK, WebTypes
<1> QED
  BY <1>1, <1>2, <1>3

\* Handlers and the clock leave the browser alone.
LEMMA OutsideTypeOK ==
  ASSUME TypeOK, AllFit,
         \/ (\E c \in Call : CallStep(c)) /\ UNCHANGED <<storage, pageVars>>
         \/ Tick /\ UNCHANGED <<storage, pageVars>>
         \/ UNCHANGED vars
  PROVE  TypeOK' /\ AllFit'
<1>1. UNCHANGED <<storage, pageVars>>
  BY DEF vars
<1>2. AllFit'
  BY <1>1 DEF AllFit, PageFits, pageVars
<1>3. AuthTypeOK /\ WebTypes
  BY DEF TypeOK, WebTypes
<1>4. WebTypes'
  BY <1>1, <1>3 DEF WebTypes, storage, pageVars
<1>5. AuthTypeOK'
  <2>1. CASE \E c \in Call : CallStep(c)
    BY <1>3, <2>1, StoreTypeOK, RefreshTypeOK, EndTypeOK
    DEF CallStep, HandlerStep
  <2>2. CASE Tick
    BY <1>3, <2>2, AuthAssumption
    DEF Tick, AuthTypeOK, Time, Token, usersTable, callVars
  <2>3. CASE UNCHANGED vars
    BY <1>3, <2>3 DEF vars, authVars, usersTable, callVars, AuthTypeOK
  <2> QED
    BY <2>1, <2>2, <2>3
<1> QED
  BY <1>2, <1>4, <1>5 DEF TypeOK, WebTypes

\* No step leaves the types.
LEMMA NextTypeOK == TypeOK /\ AllFit /\ [Next]_vars => TypeOK' /\ AllFit'
<1> SUFFICES ASSUME TypeOK, AllFit, [Next]_vars PROVE TypeOK' /\ AllFit'
  OBVIOUS
<1>1. CASE \E p \in Page : PageStep(p)
  BY <1>1, SignInTypeOK, GuardTypeOK DEF PageStep
<1> QED
  BY <1>1, OutsideTypeOK DEF Next

\* Every variable keeps its type, for any number of users, pages and calls,
\* whether or not requests are lost.
THEOREM TypeCorrect == Spec => []TypeOK
<1>1. TypeOK /\ AllFit /\ [Next]_vars => TypeOK' /\ AllFit'
  BY NextTypeOK
<1> QED
  BY InitTypeOK, <1>1, PTL DEF Spec
-----------------------------------------------------------------------------
(* One page whose requests are answered *)

OnlyCall(p) == \A c \in Call : at[c] # "free" => waits[p] = c

SessionOf(p) ==
  /\ SigningIn(p) => stored = NoToken
  /\ stored # NoToken /\ page[p] # "refreshing" => StoredSessionOpen
  /\ page[p] \in {"sending", "resending"} =>
       at[waits[p]] \in {"texting", "answered"}
  /\ page[p] = "verifying" => VerifyUnderWay(waits[p])
  /\ page[p] = "refreshing" => RefreshUnderWay(waits[p])

\* What the proof assumes of the state before a step.
Before(p) == TypeOK /\ PageFits(p) /\ OnlyCall(p) /\ SessionOf(p)

\* A page that awaits nothing has no call under way, and one that awaits
\* a call awaits one of Call.
LEMMA AwaitedCall ==
  ASSUME NEW p \in Page, Before(p)
  PROVE  /\ waits[p] = None => \A c \in Call : at[c] = "free"
         /\ waits[p] # None => waits[p] \in Call
BY NullsApart DEF Before, OnlyCall, TypeOK

\* Steps of a page between two of its requests, which at most clear what is
\* stored and enter the form only with nothing stored, keep the invariant.
LEMMA BetweenRequests ==
  ASSUME NEW p \in Page, Before(p), waits[p] = None,
         UNCHANGED <<authVars, waits>>,
         NEW s \in {"form", "guard", "me", "in", "out"},
         page' = [page EXCEPT ![p] = s],
         stored' \in {stored, NoToken},
         s \in {"form", "out"} => stored' = NoToken
  PROVE  OnlyCall(p)' /\ SessionOf(p)'
<1>1. page'[p] = s
  BY DEF Before, TypeOK
<1>2. page[p] # "refreshing"
  BY DEF Before, PageFits
<1>3. OnlyCall(p)'
  BY AwaitedCall DEF OnlyCall, authVars, callVars
<1>4. stored' # NoToken => StoredSessionOpen'
  BY <1>2 DEF Before, SessionOf, StoredSessionOpen, authVars, usersTable
<1> QED
  BY <1>1, <1>3, <1>4 DEF SessionOf, SigningIn

\* Sending a code request or a sign-in: nothing is stored, nothing else runs.
LEMMA SendKeeps ==
  ASSUME NEW p \in Page, Before(p),
         HandleRegister(p) \/ HandleResend(p) \/ HandleVerify(p)
  PROVE  OnlyCall(p)' /\ SessionOf(p)'
<1>1. stored = NoToken /\ stored' = stored
  BY DEF Before, SessionOf, SigningIn, HandleRegister, HandleResend,
         HandleVerify, storage
<1>2. waits[p] = None
  BY DEF Before, PageFits, HandleRegister, HandleResend, HandleVerify
<1>3. \A c \in Call : at[c] = "free"
  BY <1>2, AwaitedCall
<1>4. CASE HandleRegister(p) \/ HandleResend(p)
  <2>1. PICK c \in Call, s \in {"sending", "resending"} :
          at' = [at EXCEPT ![c] = "texting"] /\ Await(p, c, s)
    BY <1>4 DEF HandleRegister, HandleResend, Register
  <2>2. page'[p] = s /\ waits'[p] = c
    BY <2>1 DEF Await, Show, Before, TypeOK
  <2>3. OnlyCall(p)' /\ at'[c] = "texting"
    BY <1>3, <2>1, <2>2 DEF OnlyCall, Before, TypeOK, AuthTypeOK
  <2> QED
    BY <1>1, <2>2, <2>3 DEF SessionOf, SigningIn
<1>5. CASE HandleVerify(p)
  <2>1. PICK c \in Call, k \in Code :
          VerifyCode(c, phone[p], k) /\ Await(p, c, "verifying")
    BY <1>5 DEF HandleVerify
  <2>2. page'[p] = "verifying" /\ waits'[p] = c /\ who'[c] = phone[p]
    BY <2>1 DEF Await, Show, VerifyCode, Before, TypeOK, AuthTypeOK
  <2>3. \E s \in {"storing", "refused"} : at' = [at EXCEPT ![c] = s]
    BY <2>1 DEF VerifyCode
  <2>4. OnlyCall(p)' /\ at'[c] \in {"storing", "refused"}
    BY <1>3, <2>2, <2>3 DEF OnlyCall, Before, TypeOK, AuthTypeOK
  <2>5. phone[p] \in User
    BY <1>5 DEF HandleVerify, Before, PageFits
  <2>6. CASE at'[c] = "storing"
    <3>1. issued' = [issued EXCEPT ![c] = Pair(phone[p])]
          /\ phone[p] \in registered /\ registered' = registered
      BY <2>1, <2>6
      DEF VerifyCode, CodeAccepted, Before, TypeOK, AuthTypeOK, usersTable
    <3>2. issued'[c] = Pair(phone[p])
      BY <3>1 DEF Before, TypeOK, AuthTypeOK
    <3>3. Pair(phone[p]) # NoToken /\ Pair(phone[p]).user = phone[p]
      BY <2>5, NullsApart DEF Pair, NoToken
    <3> QED
      BY <1>1, <2>2, <2>4, <2>6, <3>1, <3>2, <3>3 DEF SessionOf, VerifyUnderWay
  <2>7. CASE at'[c] = "refused"
    BY <1>1, <2>2, <2>4, <2>7 DEF SessionOf, VerifyUnderWay
  <2> QED
    BY <2>4, <2>6, <2>7
<1> QED
  BY <1>4, <1>5

\* The end of the awaited request frees the only call under way.
LEMMA SettledCall ==
  ASSUME NEW p \in Page, Before(p), ~Lossy, waits[p] # None,
         NEW outcome, Settles(p, outcome), waits'[p] = None
  PROVE  /\ OnlyCall(p)'
         /\ at[waits[p]] = outcome
         /\ UNCHANGED <<now, usersTable>>
<1>1. waits[p] \in Call /\ at[waits[p]] = outcome /\ Release(waits[p])
  BY AwaitedCall DEF Settles
<1>2. at' = [at EXCEPT ![waits[p]] = "free"]
  BY <1>1 DEF Release
<1>3. OnlyCall(p)'
  BY <1>1, <1>2, NullsApart DEF OnlyCall, Before, TypeOK, AuthTypeOK
<1> QED
  BY <1>1, <1>3 DEF Release

\* What the answers do: the saved pair is the one the users table holds.
LEMMA AnswerKeeps ==
  ASSUME NEW p \in Page, Before(p), ~Lossy,
         RegisterAnswered(p) \/ VerifyAnswered(p) \/ RefreshAnswered(p)
  PROVE  OnlyCall(p)' /\ SessionOf(p)'
<1>1. waits[p] # None /\ waits'[p] = None
  BY DEF RegisterAnswered, VerifyAnswered, RefreshAnswered, Settles, Before,
         PageFits, TypeOK
<1>2. PICK outcome : Settles(p, outcome) /\ outcome \in {"answered", "refused"}
  BY DEF RegisterAnswered, VerifyAnswered, RefreshAnswered
<1>3. OnlyCall(p)' /\ UNCHANGED <<now, usersTable>>
  BY <1>1, <1>2, SettledCall
<1>4. CASE RegisterAnswered(p)
  <2>1. stored' = NoToken /\ page'[p] \in {"code", "form"}
    BY <1>4 DEF RegisterAnswered, Before, SessionOf, SigningIn, storage, Show,
                TypeOK
  <2> QED
    BY <1>3, <2>1 DEF SessionOf
<1>5. CASE VerifyAnswered(p)
  <2>1. CASE Settles(p, "refused") /\ Show(p, "code") /\ UNCHANGED storage
    <3>1. stored' = NoToken /\ page'[p] = "code"
      BY <1>5, <2>1
      DEF VerifyAnswered, Before, SessionOf, SigningIn, storage, Show, TypeOK
    <3> QED
      BY <1>3, <3>1 DEF SessionOf
  <2>2. CASE Settles(p, "answered") /\ SaveTokens(waits[p]) /\ Show(p, "guard")
    <3>1. at[waits[p]] = "answered"
      BY <1>1, <2>2, SettledCall
    <3>2. stored' = issued[waits[p]] /\ page'[p] = "guard"
      BY <2>2 DEF SaveTokens, Show, Before, TypeOK
    <3>3. StoredSessionOpen'
      BY <1>3, <1>5, <3>1, <3>2
      DEF VerifyAnswered, Before, SessionOf, VerifyUnderWay, StoredSessionOpen,
          usersTable
    <3> QED
      BY <1>3, <3>2, <3>3 DEF SessionOf, SigningIn
  <2> QED
    BY <1>5, <2>1, <2>2 DEF VerifyAnswered
<1>6. CASE RefreshAnswered(p)
  <2>1. CASE Settles(p, "refused") /\ ClearAuth /\ Show(p, "out")
    <3>1. stored' = NoToken /\ page'[p] = "out"
      BY <2>1 DEF ClearAuth, Show, Before, TypeOK
    <3> QED
      BY <1>3, <3>1 DEF SessionOf
  <2>2. CASE Settles(p, "answered") /\ SaveTokens(waits[p]) /\ Show(p, "in")
    <3>1. at[waits[p]] = "answered"
      BY <1>1, <2>2, SettledCall
    <3>2. stored' = issued[waits[p]] /\ page'[p] = "in"
      BY <2>2 DEF SaveTokens, Show, Before, TypeOK
    <3>3. StoredSessionOpen'
      BY <1>3, <1>6, <3>1, <3>2
      DEF RefreshAnswered, Before, SessionOf, RefreshUnderWay,
          StoredSessionOpen, usersTable
    <3> QED
      BY <1>3, <3>2, <3>3 DEF SessionOf, SigningIn
  <2> QED
    BY <1>6, <2>1, <2>2 DEF RefreshAnswered
<1> QED
  BY <1>4, <1>5, <1>6

\* Sending a refresh shows the live token.
LEMMA AskKeeps ==
  ASSUME NEW p \in Page, Before(p), ~Lossy, MeRefused(p)
  PROVE  OnlyCall(p)' /\ SessionOf(p)'
<1>1. waits[p] = None /\ page[p] = "me"
  BY DEF MeRefused, Before, PageFits
<1>2. CASE stored = NoToken
  <2>1. ClearAuth /\ Show(p, "out") /\ UNCHANGED <<authVars, waits>>
    BY <1>2 DEF MeRefused
  <2> QED
    BY <1>1, <2>1, BetweenRequests DEF ClearAuth, Show
<1>3. CASE stored # NoToken
  <2>1. PICK c \in Call : AskRefresh(c, stored) /\ Await(p, c, "refreshing")
    BY <1>3 DEF MeRefused
  <2>2. stored' = stored
    BY <1>3 DEF MeRefused, storage
  <2>3. page'[p] = "refreshing" /\ waits'[p] = c
    BY <2>1 DEF Await, Show, Before, TypeOK
  <2>4. /\ at' = [at EXCEPT ![c] = "asked"]
        /\ who'[c] = stored.user /\ shown'[c] = stored
        /\ UNCHANGED <<now, usersTable>>
    BY <2>1 DEF AskRefresh, Before, TypeOK, AuthTypeOK
  <2>5. \A d \in Call : at[d] = "free"
    BY <1>1, AwaitedCall
  <2>6. OnlyCall(p)' /\ at'[c] = "asked"
    BY <2>3, <2>4, <2>5 DEF OnlyCall, Before, TypeOK, AuthTypeOK
  <2>7. StoredSessionOpen'
    BY <1>1, <1>3, <2>2, <2>4
    DEF Before, SessionOf, StoredSessionOpen, usersTable
  <2>8. RefreshUnderWay(c)'
    BY <1>3, <2>2, <2>4, <2>6, <2>7 DEF RefreshUnderWay
  <2> QED
    BY <2>3, <2>6, <2>8 DEF SessionOf, SigningIn
<1> QED
  BY <1>2, <1>3

\* Where the handler under way stands tells what its page awaits.
LEMMA PageOfCall ==
  ASSUME NEW p \in Page, Before(p), NEW c \in Call, at[c] # "free"
  PROVE  /\ waits[p] = c
         /\ at[c] = "storing" => page[p] = "verifying"
         /\ at[c] \in {"asked", "rotating"} => page[p] = "refreshing"
         /\ at[c] = "texting" => page[p] \in {"sending", "resending"}
         /\ at[c] # "revoking"
<1>1. waits[p] = c
  BY DEF Before, OnlyCall
<1>2. page[p] \in {"sending", "resending", "verifying", "refreshing"}
  BY <1>1, NullsApart DEF Before, PageFits
<1> QED
  BY <1>1, <1>2
  DEF Before, SessionOf, VerifyUnderWay, RefreshUnderWay

\* A step of the handler keeps the invariant: the row it read has not changed.
LEMMA HandlerKeeps ==
  ASSUME NEW p \in Page, Before(p), NEW c \in Call, HandlerStep(c),
         UNCHANGED <<storage, pageVars>>
  PROVE  OnlyCall(p)' /\ SessionOf(p)'
<1>1. at[c] # "free" /\ waits[p] = c /\ waits[p] # None
  BY PageOfCall, NullsApart
  DEF HandlerStep, SendSmsCode, StoreSession, RefreshToken, Revoke, Rotate
<1>2. UNCHANGED <<stored, page, waits>>
  BY DEF storage, pageVars
<1>3. PICK s \in {"answered", "refused", "rotating"} : at' = [at EXCEPT ![c] = s]
  BY PageOfCall
  DEF HandlerStep, SendSmsCode, StoreSession, RefreshToken, Revoke, Rotate,
      Before, SessionOf, RefreshUnderWay, StoredSessionOpen
<1>4. OnlyCall(p)' /\ at'[c] = s
  BY <1>1, <1>2, <1>3 DEF Before, OnlyCall, TypeOK, AuthTypeOK
<1>5. CASE SendSmsCode(c)
  <2>1. page[p] \in {"sending", "resending"} /\ at'[c] = "answered"
    BY <1>5, PageOfCall DEF SendSmsCode, Before, TypeOK, AuthTypeOK
  <2>2. stored' = NoToken
    BY <1>2, <2>1 DEF Before, SessionOf, SigningIn
  <2> QED
    BY <1>1, <1>2, <1>4, <2>1, <2>2 DEF SessionOf
<1>6. CASE StoreSession(c)
  <2>1. page[p] = "verifying" /\ at[c] = "storing" /\ at'[c] = "answered"
    BY <1>6, PageOfCall DEF StoreSession, Before, TypeOK, AuthTypeOK
  <2>2. stored' = NoToken
    BY <1>2, <2>1 DEF Before, SessionOf, SigningIn
  <2>3. /\ issued[c] # NoToken /\ issued[c].user = who[c]
        /\ who[c] \in registered
    BY <1>1, <2>1 DEF Before, SessionOf, VerifyUnderWay
  <2>4. who[c] \in User /\ UNCHANGED <<issued, who, registered>>
    BY <1>6, <2>3 DEF StoreSession, Before, TypeOK, AuthTypeOK
  <2>5. hash'[who[c]] = issued[c]
    BY <1>6, <2>4 DEF StoreSession, WithSession, Before, TypeOK, AuthTypeOK
  <2>6. VerifyUnderWay(c)'
    BY <2>1, <2>3, <2>4, <2>5 DEF VerifyUnderWay
  <2> QED
    BY <1>1, <1>2, <1>4, <2>1, <2>2, <2>6 DEF SessionOf
<1>7. CASE RefreshToken(c)
  <2>1. page[p] = "refreshing" /\ at[c] = "asked"
    BY <1>7, PageOfCall DEF RefreshToken
  <2>2. /\ shown[c] = stored /\ stored # NoToken /\ who[c] = stored.user
        /\ StoredSessionOpen
    BY <1>1, <2>1 DEF Before, SessionOf, RefreshUnderWay
  <2>3. UNCHANGED <<now, registered, pending, hash, who, shown>>
    BY <1>7 DEF RefreshToken, usersTable
  <2>4. CASE RefreshValid(shown[c])
    <3>1. at'[c] = "rotating" /\ issued' = [issued EXCEPT ![c] = Pair(who[c])]
      BY <1>7, <2>2, <2>4
      DEF RefreshToken, StoredSessionOpen, Before, TypeOK, AuthTypeOK
    <3>2. issued'[c] = Pair(who[c])
      BY <3>1 DEF Before, TypeOK, AuthTypeOK
    <3>3. who[c] \in registered /\ who[c] \in User
      BY <2>2 DEF StoredSessionOpen, Before, TypeOK, AuthTypeOK
    <3>4. issued'[c] # NoToken /\ issued'[c].user = who[c]
      BY <3>2, <3>3, NullsApart DEF Pair, NoToken
    <3>5. RefreshUnderWay(c)'
      BY <1>2, <2>2, <2>3, <3>1, <3>3, <3>4
      DEF RefreshUnderWay, StoredSessionOpen
    <3> QED
      BY <1>1, <1>2, <1>4, <2>1, <3>5 DEF SessionOf, SigningIn
  <2>5. CASE ~RefreshValid(shown[c])
    <3>1. at'[c] = "refused"
      BY <1>7, <2>5 DEF RefreshToken, Before, TypeOK, AuthTypeOK
    <3>2. RefreshUnderWay(c)'
      BY <1>2, <2>2, <2>3, <2>5, <3>1 DEF RefreshUnderWay, RefreshValid
    <3> QED
      BY <1>1, <1>2, <1>4, <2>1, <3>2 DEF SessionOf, SigningIn
  <2> QED
    BY <2>4, <2>5
<1>8. CASE Revoke(c)
  BY <1>1, <1>8, PageOfCall DEF Revoke
<1>9. CASE Rotate(c)
  <2>1. page[p] = "refreshing" /\ at[c] = "rotating" /\ at'[c] = "answered"
    BY <1>9, PageOfCall DEF Rotate, Before, TypeOK, AuthTypeOK
  <2>2. /\ shown[c] = stored /\ stored # NoToken /\ who[c] = stored.user
        /\ issued[c] # NoToken /\ issued[c].user = who[c]
        /\ who[c] \in registered
    BY <1>1, <2>1 DEF Before, SessionOf, RefreshUnderWay
  <2>3. who[c] \in User /\ UNCHANGED <<now, registered, who, shown, issued>>
    BY <1>9, <2>2 DEF Rotate, Before, TypeOK, AuthTypeOK
  <2>4. hash'[who[c]] = issued[c]
    BY <1>9, <2>3 DEF Rotate, WithSession, Before, TypeOK, AuthTypeOK
  <2>5. RefreshUnderWay(c)'
    BY <1>2, <2>1, <2>2, <2>3, <2>4 DEF RefreshUnderWay
  <2> QED
    BY <1>1, <1>2, <1>4, <2>1, <2>5 DEF SessionOf, SigningIn
<1> QED
  BY <1>5, <1>6, <1>7, <1>8, <1>9 DEF HandlerStep

\* A refused token only grows older.
LEMMA TickKeeps ==
  ASSUME NEW p \in Page, Before(p), Tick, UNCHANGED <<storage, pageVars>>
  PROVE  OnlyCall(p)' /\ SessionOf(p)'
<1>1. UNCHANGED <<stored, page, waits, registered, hash, at, who, shown, issued>>
  BY DEF Tick, storage, pageVars, usersTable, callVars
<1>2. ASSUME page[p] = "refreshing", at[waits[p]] = "refused"
      PROVE  ~RefreshValid(shown[waits[p]])'
  <2>1. ~RefreshValid(shown[waits[p]]) /\ shown[waits[p]] \in Token
    BY <1>2 DEF Before, SessionOf, RefreshUnderWay, TypeOK
  <2>2. shown[waits[p]].at \in Nat /\ now \in Nat /\ now' = now + 1
    BY <2>1, AuthAssumption
    DEF Tick, Before, TypeOK, AuthTypeOK, Token, Time
  <2> QED
    BY <1>1, <2>1, <2>2, AuthAssumption DEF RefreshValid
<1>3. OnlyCall(p)'
  BY <1>1 DEF Before, OnlyCall
<1>4. page[p] = "refreshing" => RefreshUnderWay(waits[p])'
  BY <1>1, <1>2 DEF Before, SessionOf, RefreshUnderWay, StoredSessionOpen
<1> QED
  BY <1>1, <1>3, <1>4
  DEF Before, SessionOf, SigningIn, StoredSessionOpen, VerifyUnderWay

\* Every step keeps the invariant of the only page.
LEMMA NextKeeps ==
  ASSUME NEW p \in Page, Page = {p}, ~Lossy, Before(p), [Next]_vars
  PROVE  OnlyCall(p)' /\ SessionOf(p)'
<1>1. CASE OpenAuth(p) \/ EditPhone(p) \/ OpenGuarded(p) \/ CheckAuth(p)
           \/ MeAccepted(p) \/ Logout(p)
  <2>1. waits[p] = None /\ UNCHANGED <<authVars, waits>>
    BY <1>1
    DEF OpenAuth, EditPhone, OpenGuarded, CheckAuth, MeAccepted, Logout,
        Before, PageFits
  <2>2. PICK s \in {"form", "guard", "me", "in", "out"} :
          /\ page' = [page EXCEPT ![p] = s]
          /\ stored' \in {stored, NoToken}
          /\ s \in {"form", "out"} => stored' = NoToken
    BY <1>1
    DEF OpenAuth, EditPhone, OpenGuarded, CheckAuth, MeAccepted, Logout, Show,
        ClearAuth, storage, Before, SessionOf, SigningIn
  <2> QED
    BY <2>1, <2>2, BetweenRequests
<1>2. CASE PageStep(p)
  BY <1>1, <1>2, SendKeeps, AnswerKeeps, AskKeeps DEF PageStep
<1>3. CASE (\E c \in Call : CallStep(c)) /\ UNCHANGED <<storage, pageVars>>
  <2>1. PICK c \in Call : CallStep(c)
    BY <1>3
  <2>2. CASE HandlerStep(c)
    BY <1>3, <2>2, HandlerKeeps
  <2>3. CASE ~Attended(c) /\ at[c] \in Ended
    <3>1. at[c] # "free"
      BY <2>3 DEF Ended
    <3> QED
      BY <2>3, <3>1, PageOfCall DEF Attended
  <2> QED
    BY <2>1, <2>2, <2>3 DEF CallStep
<1>4. CASE Tick /\ UNCHANGED <<storage, pageVars>>
  BY <1>4, TickKeeps
<1>5. CASE UNCHANGED vars
  BY <1>5
  DEF vars, authVars, usersTable, callVars, storage, pageVars, Before, OnlyCall,
      SessionOf, SigningIn, StoredSessionOpen, VerifyUnderWay, RefreshUnderWay,
      RefreshValid
<1> QED
  BY <1>2, <1>3, <1>4, <1>5 DEF Next

\* With one page, the invariant is that page's.
LEMMA OnePage ==
  ASSUME NEW p \in Page, Page = {p}, AllFit
  PROVE  SessionInv <=> OnlyCall(p) /\ SessionOf(p)
BY DEF SessionInv, OnlyCall, SessionOf, Attended, AllFit, PageFits

\* In a browser with one page and answered requests, the handler under way is
\* the one the page awaits, and a refresh shows the token the users table
\* holds until its handler replaces it.
THEOREM SessionCorrect ==
  ASSUME NEW p \in Page, Page = {p}, ~Lossy
  PROVE  Spec => []SessionInv
<1> DEFINE Inv == TypeOK /\ AllFit /\ OnlyCall(p) /\ SessionOf(p)
<1>1. Init => Inv
  <2> SUFFICES ASSUME Init PROVE Inv
    OBVIOUS
  <2>1. OnlyCall(p)
    BY DEF Init, AuthInit, OnlyCall
  <2>2. SessionOf(p)
    BY DEF Init, SessionOf, SigningIn
  <2> QED
    BY <2>1, <2>2, InitTypeOK
<1>2. Inv /\ [Next]_vars => Inv'
  <2> SUFFICES ASSUME Inv, [Next]_vars PROVE Inv'
    OBVIOUS
  <2>1. Before(p)
    BY DEF Before, AllFit
  <2>2. TypeOK' /\ AllFit'
    BY NextTypeOK
  <2>3. OnlyCall(p)' /\ SessionOf(p)'
    BY <2>1, NextKeeps
  <2> QED
    BY <2>2, <2>3
<1>3. Inv => SessionInv
  BY OnePage
<1> QED
  BY <1>1, <1>2, <1>3, PTL DEF Spec

\* The refresh token in localStorage is the live one whenever no request is
\* under way.
THEOREM StoredLive ==
  ASSUME NEW p \in Page, Page = {p}, ~Lossy
  PROVE  Spec => []StoredIsLive
<1>1. TypeOK /\ SessionInv => StoredIsLive
  <2> SUFFICES ASSUME TypeOK, SessionInv, Quiet, stored # NoToken
               PROVE  hash[stored.user] = stored
    BY DEF StoredIsLive
  <2>1. page[p] # "refreshing"
    <3> SUFFICES ASSUME page[p] = "refreshing" PROVE FALSE
      OBVIOUS
    <3>1. waits[p] \in Call /\ at[waits[p]] # "free"
      BY DEF SessionInv, RefreshUnderWay, TypeOK
    <3> QED
      BY <3>1 DEF Quiet
  <2> QED
    BY <2>1 DEF SessionInv, StoredSessionOpen
<1> QED
  BY <1>1, TypeCorrect, SessionCorrect, PTL

\* Only the age of its refresh token signs the browser out.
THEOREM Silent ==
  ASSUME NEW p \in Page, Page = {p}, ~Lossy
  PROVE  Spec => SilentRefresh
<1>1. TypeOK /\ SessionInv /\ [Next]_vars => [ExpiryAlone]_vars
  <2> SUFFICES ASSUME TypeOK, SessionInv, [Next]_vars,
                      page[p] = "refreshing", page'[p] = "out"
               PROVE  ~RefreshValid(shown[waits[p]])
    BY DEF ExpiryAlone
  <2>1. PageStep(p)
    BY DEF Next, vars, pageVars
  <2>2. RefreshAnswered(p)
    BY <2>1
    DEF PageStep, OpenAuth, HandleRegister, HandleResend, RegisterAnswered,
        HandleVerify, VerifyAnswered, EditPhone, OpenGuarded, CheckAuth,
        MeAccepted, MeRefused, Logout
  <2>3. Settles(p, "refused")
    BY <2>2 DEF RefreshAnswered, Show, TypeOK
  <2>4. at[waits[p]] = "refused"
    BY <2>3 DEF Settles
  <2> QED
    BY <2>4 DEF SessionInv, RefreshUnderWay
<1> QED
  BY <1>1, TypeCorrect, SessionCorrect, PTL DEF Spec, SilentRefresh
-----------------------------------------------------------------------------
(* Any number of pages, whose requests may fail *)

\* A pair that is signed, or on its way back, is its handler's user's.
SignedFor(c) == at[c] \in {"storing", "rotating", "answered"} => issued[c].user = who[c]

\* The call a page awaits is a sign-in or a refresh of its own, and a refresh that
\* nothing overtook is for the user whose tokens are stored.
OwnCall(p) ==
  /\ waits[p] # None => at[waits[p]] # "free"
  /\ page[p] = "verifying" =>
       at[waits[p]] \in {"storing", "answered", "refused"} /\ SignedFor(waits[p])
  /\ page[p] = "refreshing" =>
       /\ at[waits[p]] \in {"asked", "rotating", "revoking", "answered", "refused"}
       /\ SignedFor(waits[p])
       /\ p \notin crossed => who[waits[p]] = stored.user
  /\ p \in crossed => page[p] = "refreshing"

\* No two pages await the same call.
CallsApart ==
  \A p, q \in Page : p # q /\ waits[p] # None => waits[p] # waits[q]

PagesInv == TypeOK /\ AllFit /\ CallsApart /\ (\A p \in Page : OwnCall(p))

\* What the step of a page leaves alone: the other pages, and every call in use but
\* the one it awaited.
LEMMA PageStepFrame ==
  ASSUME TypeOK, NEW p \in Page, PageStep(p)
  PROVE  /\ \A q \in Page \ {p} : page'[q] = page[q] /\ waits'[q] = waits[q]
         /\ \A d \in Call : d # waits[p] /\ at[d] # "free" =>
              at'[d] = at[d] /\ who'[d] = who[d] /\ issued'[d] = issued[d]
         /\ \/ waits'[p] \in {None, waits[p]}
            \/ waits'[p] \in Call /\ at[waits'[p]] = "free" /\ at'[waits'[p]] # "free"
<1>1. CASE OpenAuth(p) \/ EditPhone(p) \/ OpenGuarded(p) \/ CheckAuth(p) \/ MeAccepted(p)
             \/ Logout(p)
  BY <1>1 DEF OpenAuth, EditPhone, OpenGuarded, CheckAuth, MeAccepted, Logout, Show, TypeOK,
              authVars, callVars
<1>2. CASE HandleRegister(p) \/ HandleResend(p)
  <2>1. PICK c \in Call, s \in {"sending", "resending"}, u \in User \cup {None}, k \in Code :
          Register(c, u, k) /\ Await(p, c, s)
    BY <1>2 DEF HandleRegister, HandleResend, TypeOK
  <2>2. /\ at[c] = "free" /\ at'[c] = "texting"
        /\ \A d \in Call \ {c} : at'[d] = at[d] /\ who'[d] = who[d]
        /\ issued' = issued
    BY <2>1 DEF Register, TypeOK, AuthTypeOK
  <2>3. waits'[p] = c /\ \A q \in Page \ {p} : page'[q] = page[q] /\ waits'[q] = waits[q]
    BY <2>1 DEF Await, Show, TypeOK
  <2> QED
    BY <2>2, <2>3
<1>3. CASE HandleVerify(p)
  <2>1. PICK c \in Call, k \in Code : VerifyCode(c, phone[p], k) /\ Await(p, c, "verifying")
    BY <1>3 DEF HandleVerify
  <2>2. /\ at[c] = "free" /\ at'[c] # "free"
        /\ \A d \in Call \ {c} : at'[d] = at[d] /\ who'[d] = who[d] /\ issued'[d] = issued[d]
    BY <2>1 DEF VerifyCode, TypeOK, AuthTypeOK
  <2>3. waits'[p] = c /\ \A q \in Page \ {p} : page'[q] = page[q] /\ waits'[q] = waits[q]
    BY <2>1 DEF Await, Show, TypeOK
  <2> QED
    BY <2>2, <2>3
<1>4. CASE RegisterAnswered(p) \/ VerifyAnswered(p) \/ RefreshAnswered(p)
  <2>1. /\ \/ Release(waits[p])
           \/ UNCHANGED authVars
        /\ waits' = [waits EXCEPT ![p] = None]
        /\ \E s \in PageState : Show(p, s)
    BY <1>4 DEF RegisterAnswered, VerifyAnswered, RefreshAnswered, Settles, PageState
  <2>2. \A d \in Call : d # waits[p] =>
          at'[d] = at[d] /\ who'[d] = who[d] /\ issued'[d] = issued[d]
    BY <2>1 DEF Release, authVars, callVars, TypeOK, AuthTypeOK
  <2>3. waits'[p] = None /\ \A q \in Page \ {p} : page'[q] = page[q] /\ waits'[q] = waits[q]
    BY <2>1 DEF Show, TypeOK
  <2> QED
    BY <2>2, <2>3
<1>5. CASE MeRefused(p)
  <2>1. CASE \E c \in Call : AskRefresh(c, stored) /\ Await(p, c, "refreshing")
    <3>1. PICK c \in Call : AskRefresh(c, stored) /\ Await(p, c, "refreshing")
      BY <2>1
    <3>2. /\ at[c] = "free" /\ at'[c] = "asked"
          /\ \A d \in Call \ {c} : at'[d] = at[d] /\ who'[d] = who[d]
          /\ issued' = issued
      BY <3>1 DEF AskRefresh, TypeOK, AuthTypeOK
    <3>3. waits'[p] = c /\ \A q \in Page \ {p} : page'[q] = page[q] /\ waits'[q] = waits[q]
      BY <3>1 DEF Await, Show, TypeOK
    <3> QED
      BY <3>2, <3>3
  <2>2. CASE Show(p, "out") /\ UNCHANGED <<authVars, waits>>
    BY <2>2 DEF Show, TypeOK, authVars, callVars
  <2> QED
    BY <1>5, <2>1, <2>2 DEF MeRefused
<1> QED
  BY <1>1, <1>2, <1>3, <1>4, <1>5 DEF PageStep

\* A step that writes the storage marks every refresh it overtakes; one that does not
\* leaves the marks alone.
LEMMA MarksOvertaken ==
  ASSUME TypeOK, NEW p \in Page, PageStep(p), NEW q \in Page, q # p, page[q] = "refreshing",
         q \notin crossed'
  PROVE  q \notin crossed /\ stored'.user = stored.user
<1>1. page'[q] = "refreshing"
  BY PageStepFrame
<1>2. Crossing \/ UNCHANGED storage
  BY DEF PageStep, OpenAuth, HandleRegister, HandleResend, RegisterAnswered, HandleVerify,
         VerifyAnswered, EditPhone, OpenGuarded, CheckAuth, MeAccepted, MeRefused,
         RefreshAnswered, Logout
<1> QED
  BY <1>1, <1>2 DEF Crossing, storage

\* The step of one page keeps what the others rest on.
LEMMA OthersKeep ==
  ASSUME PagesInv, NEW p \in Page, PageStep(p), NEW q \in Page, q # p
  PROVE  OwnCall(q)'
<1>1. TypeOK /\ PageFits(q) /\ OwnCall(q) /\ page'[q] = page[q] /\ waits'[q] = waits[q]
  BY PageStepFrame DEF PagesInv, AllFit
<1>2. waits[q] # None =>
        /\ waits[q] \in Call /\ at'[waits[q]] = at[waits[q]] /\ who'[waits[q]] = who[waits[q]]
        /\ issued'[waits[q]] = issued[waits[q]]
  <2> SUFFICES ASSUME waits[q] # None
               PROVE  /\ waits[q] \in Call /\ at'[waits[q]] = at[waits[q]]
                      /\ who'[waits[q]] = who[waits[q]] /\ issued'[waits[q]] = issued[waits[q]]
    OBVIOUS
  <2>1. waits[q] \in Call /\ at[waits[q]] # "free"
    BY <1>1 DEF TypeOK, OwnCall
  <2>2. waits[q] # waits[p]
    BY DEF PagesInv, CallsApart
  <2> QED
    BY <1>1, <2>1, <2>2, PageStepFrame
<1>3. page[q] \in {"verifying", "refreshing"} => waits[q] # None
  BY <1>1 DEF PageFits
<1>4. page[q] = "refreshing" /\ q \notin crossed' => q \notin crossed /\ stored'.user = stored.user
  BY <1>1, MarksOvertaken
<1>5. q \in crossed' => page'[q] = "refreshing"
  <2>1. Crossing \/ UNCHANGED storage
    BY DEF PageStep, OpenAuth, HandleRegister, HandleResend, RegisterAnswered, HandleVerify,
           VerifyAnswered, EditPhone, OpenGuarded, CheckAuth, MeAccepted, MeRefused,
           RefreshAnswered, Logout
  <2> QED
    BY <1>1, <2>1 DEF Crossing, storage, OwnCall
<1> QED
  BY <1>1, <1>2, <1>3, <1>4, <1>5 DEF OwnCall, SignedFor

\* A request for a code, or one that the page ends, leaves it awaiting nothing of its own.
LEMMA ProfileBetween ==
  ASSUME PagesInv, NEW p \in Page,
         OpenAuth(p) \/ HandleRegister(p) \/ HandleResend(p) \/ RegisterAnswered(p)
           \/ EditPhone(p) \/ OpenGuarded(p) \/ CheckAuth(p) \/ MeAccepted(p) \/ Logout(p)
  PROVE  OwnCall(p)' /\ (ProfileMatches => ProfileMatches')
<1>1. TypeOK /\ OwnCall(p) /\ PageFits(p)
  BY DEF PagesInv, AllFit
<1>2. page'[p] \notin {"verifying", "refreshing"} /\ page[p] # "refreshing"
  BY <1>1 DEF OpenAuth, HandleRegister, HandleResend, RegisterAnswered, EditPhone, OpenGuarded,
         CheckAuth, MeAccepted, Logout, Show, Await, TypeOK
<1>3. \/ UNCHANGED storage
      \/ stored' = NoToken /\ profile' = None /\ Crossing
  BY DEF OpenAuth, HandleRegister, HandleResend, RegisterAnswered, EditPhone, OpenGuarded,
         CheckAuth, MeAccepted, Logout, ClearAuth
<1>4. p \notin crossed'
  BY <1>1, <1>2, <1>3 DEF OwnCall, storage, Crossing
<1>5. waits'[p] # None => at'[waits'[p]] # "free"
  <2>1. PageStep(p)
    BY DEF PageStep
  <2>2. waits[p] = None \/ page[p] \in {"sending", "resending"}
    BY <1>1, <1>2 DEF PageFits, OpenAuth, HandleRegister, HandleResend, RegisterAnswered,
       EditPhone, OpenGuarded, CheckAuth, MeAccepted, Logout
  <2>3. CASE waits[p] = None
    BY <1>1, <2>1, <2>3, PageStepFrame
  <2>4. CASE page[p] \in {"sending", "resending"}
    <3>1. RegisterAnswered(p)
      BY <2>4 DEF OpenAuth, HandleRegister, HandleResend, EditPhone, OpenGuarded, CheckAuth,
                  MeAccepted, Logout
    <3> QED
      BY <1>1, <3>1 DEF RegisterAnswered, Settles, TypeOK
  <2> QED
    BY <2>2, <2>3, <2>4
<1> QED
  BY <1>2, <1>3, <1>4, <1>5 DEF ProfileMatches, OwnCall, NoToken, storage

\* A sign-in begins with a pair for the number in the form, or refused.
LEMMA ProfileVerify ==
  ASSUME PagesInv, NEW p \in Page, HandleVerify(p)
  PROVE  OwnCall(p)' /\ (ProfileMatches => ProfileMatches')
<1> USE DEF PagesInv
<1>1. PICK c \in Call, k \in Code : VerifyCode(c, phone[p], k) /\ Await(p, c, "verifying")
  BY DEF HandleVerify
<1>2. stored' = stored /\ profile' = profile /\ crossed' = crossed /\ p \notin crossed
  BY DEF HandleVerify, storage, OwnCall
<1>3. page'[p] = "verifying" /\ waits'[p] = c /\ who'[c] = phone[p]
  BY <1>1 DEF Await, Show, VerifyCode, TypeOK, AuthTypeOK
<1>4. \/ at'[c] = "storing" /\ issued'[c] = Pair(phone[p])
      \/ at'[c] = "refused"
  BY <1>1 DEF VerifyCode, TypeOK, AuthTypeOK
<1>5. at'[c] \in {"storing", "answered", "refused"} /\ SignedFor(c)'
  BY <1>3, <1>4 DEF SignedFor, Pair
<1> QED
  BY <1>2, <1>3, <1>5 DEF OwnCall, ProfileMatches

\* Its answer saves the pair and the user together.
LEMMA ProfileVerified ==
  ASSUME PagesInv, NEW p \in Page, VerifyAnswered(p)
  PROVE  OwnCall(p)' /\ (ProfileMatches => ProfileMatches')
<1> USE DEF PagesInv
<1>1. waits'[p] = None /\ page[p] = "verifying" /\ OwnCall(p)
  BY DEF VerifyAnswered, Settles, TypeOK
<1>2. CASE /\ Settles(p, "answered") /\ SaveTokens(waits[p])
           /\ profile' = who[waits[p]] /\ Show(p, "guard") /\ Crossing
  <2>1. page'[p] = "guard" /\ stored' = issued[waits[p]] /\ p \notin crossed'
    BY <1>2 DEF Show, SaveTokens, TypeOK, Crossing
  <2>2. at[waits[p]] = "answered"
    BY <1>2 DEF Settles
  <2>3. issued[waits[p]].user = who[waits[p]]
    BY <1>1, <2>2 DEF OwnCall, SignedFor
  <2> QED
    BY <1>1, <1>2, <2>1, <2>3 DEF OwnCall, ProfileMatches
<1>3. CASE Settles(p, "refused") /\ Show(p, "code") /\ UNCHANGED storage
  BY <1>1, <1>3 DEF Show, storage, TypeOK, ProfileMatches, OwnCall
<1> QED
  BY <1>2, <1>3 DEF VerifyAnswered

\* A refresh is sent for the user whose tokens are stored, or clears both keys.
LEMMA ProfileAsk ==
  ASSUME PagesInv, NEW p \in Page, MeRefused(p)
  PROVE  OwnCall(p)' /\ (ProfileMatches => ProfileMatches')
<1> USE DEF PagesInv
<1>1. ASSUME NEW c \in Call, AskRefresh(c, stored), Await(p, c, "refreshing"), UNCHANGED storage
      PROVE  OwnCall(p)' /\ (ProfileMatches => ProfileMatches')
  <2>1. page'[p] = "refreshing" /\ waits'[p] = c /\ stored' = stored /\ profile' = profile
    BY <1>1 DEF Await, Show, storage, TypeOK
  <2>2. at'[c] = "asked" /\ who'[c] = stored.user
    BY <1>1 DEF AskRefresh, TypeOK, AuthTypeOK
  <2> QED
    BY <2>1, <2>2 DEF OwnCall, SignedFor, ProfileMatches
<1>2. CASE ClearAuth /\ Show(p, "out") /\ Crossing /\ UNCHANGED waits
  <2>1. /\ page'[p] = "out" /\ stored' = NoToken /\ profile' = None /\ p \notin crossed'
        /\ waits'[p] = waits[p]
    BY <1>2 DEF ClearAuth, Show, TypeOK, Crossing
  <2>2. waits[p] = None
    BY DEF AllFit, PageFits, MeRefused
  <2> QED
    BY <2>1, <2>2 DEF OwnCall, ProfileMatches, NoToken
<1> QED
  BY <1>1, <1>2 DEF MeRefused

\* Its answer saves a pair for that user, unless it was overtaken, or clears both keys.
LEMMA ProfileRefreshed ==
  ASSUME PagesInv, NEW p \in Page, RefreshAnswered(p)
  PROVE  /\ OwnCall(p)'
         /\ ProfileMatches => ProfileMatches' \/ (p \in crossed /\ page'[p] = "in")
<1> USE DEF PagesInv
<1>1. waits'[p] = None /\ page[p] = "refreshing" /\ OwnCall(p) /\ page'[p] \in {"in", "out"}
  BY DEF RefreshAnswered, Settles, TypeOK, Show
<1>2. OwnCall(p)'
  BY <1>1 DEF OwnCall, RefreshAnswered, Crossing
<1>3. CASE /\ Settles(p, "answered") /\ SaveTokens(waits[p]) /\ Show(p, "in")
           /\ UNCHANGED profile
  <2>1. page'[p] = "in" /\ stored' = issued[waits[p]] /\ profile' = profile
    BY <1>3 DEF Show, SaveTokens, TypeOK
  <2>2. at[waits[p]] = "answered"
    BY <1>3 DEF Settles
  <2>3. issued[waits[p]].user = who[waits[p]]
    BY <1>1, <2>2 DEF OwnCall, SignedFor
  <2>4. p \notin crossed => who[waits[p]] = stored.user
    BY <1>1 DEF OwnCall
  <2> QED
    BY <1>2, <2>1, <2>3, <2>4 DEF ProfileMatches
<1>4. CASE ClearAuth
  <2>1. stored' = NoToken /\ profile' = None
    BY <1>4 DEF ClearAuth
  <2> QED
    BY <1>2, <2>1 DEF ProfileMatches, NoToken
<1> QED
  BY <1>3, <1>4 DEF RefreshAnswered

\* A handler moves on within its own kind of request, and signs for its own user.
LEMMA ProfileHandled ==
  ASSUME PagesInv, NEW p \in Page, NEW c \in Call, CallStep(c),
         UNCHANGED <<storage, pageVars>>
  PROVE  OwnCall(p)'
<1> USE DEF PagesInv
<1>1. UNCHANGED <<stored, profile, crossed, page, waits>> /\ OwnCall(p)
  BY DEF storage, pageVars
<1>2. waits[p] # None => waits[p] \in Call
  BY DEF TypeOK
<1>3. page[p] \in {"verifying", "refreshing"} => waits[p] # None
  BY DEF AllFit, PageFits
<1>4. CASE ~Attended(c) /\ Release(c)
  <2>1. waits[p] # c
    BY <1>4 DEF Attended
  <2>2. \A d \in Call \ {c} : at'[d] = at[d] /\ who'[d] = who[d] /\ issued'[d] = issued[d]
    BY <1>4 DEF Release, TypeOK, AuthTypeOK
  <2>3. waits[p] # None =>
          /\ at'[waits[p]] = at[waits[p]] /\ who'[waits[p]] = who[waits[p]]
          /\ issued'[waits[p]] = issued[waits[p]]
    BY <1>2, <2>1, <2>2
  <2> QED
    BY <1>1, <1>3, <2>3 DEF OwnCall, SignedFor
<1>5. CASE HandlerStep(c) \/ HandlerFails(c)
  <2>1. who' = who
    BY <1>5 DEF HandlerStep, HandlerFails, SendSmsCode, StoreSession, RefreshToken, Revoke,
                Rotate, callVars
  <2>2. /\ \A d \in Call \ {c} : at'[d] = at[d] /\ issued'[d] = issued[d]
        /\ at'[c] # "free"
        /\ \/ at[c] = "texting" /\ at'[c] = "answered"
           \/ at[c] = "storing" /\ at'[c] = "answered" /\ issued'[c] = issued[c]
           \/ at[c] = "asked" /\ at'[c] \in {"refused", "revoking"}
           \/ at[c] = "asked" /\ at'[c] = "rotating" /\ issued'[c] = Pair(who[c])
           \/ at[c] = "revoking" /\ at'[c] = "refused"
           \/ at[c] = "rotating" /\ at'[c] = "answered" /\ issued'[c] = issued[c]
           \/ at[c] \in Handling /\ at'[c] = "refused"
    BY <1>5 DEF HandlerStep, HandlerFails, SendSmsCode, StoreSession, RefreshToken, Revoke,
                Rotate, TypeOK, AuthTypeOK
  <2>3. CASE waits[p] = c
    BY <1>1, <2>1, <2>2, <2>3 DEF OwnCall, SignedFor, Pair
  <2>4. CASE waits[p] # c
    <3>1. waits[p] # None => at'[waits[p]] = at[waits[p]] /\ issued'[waits[p]] = issued[waits[p]]
      BY <1>2, <2>2, <2>4
    <3> QED
      BY <1>1, <1>3, <2>1, <3>1 DEF OwnCall, SignedFor
  <2> QED
    BY <2>3, <2>4
<1> QED
  BY <1>4, <1>5 DEF CallStep

\* A page only awaits what it asked for itself.
LEMMA ApartStep ==
  ASSUME PagesInv, NEW p \in Page, PageStep(p) PROVE CallsApart'
<1> SUFFICES ASSUME NEW a \in Page, NEW b \in Page, a # b, waits'[a] # None
             PROVE  waits'[a] # waits'[b]
  BY DEF CallsApart
<1>1. TypeOK /\ CallsApart /\ \A q \in Page : waits[q] # None => at[waits[q]] # "free"
  BY DEF PagesInv, OwnCall
<1>2. waits'[p] \in {None, waits[p]} \/ at[waits'[p]] = "free"
  BY <1>1, PageStepFrame
<1>3. \A q \in Page \ {p} : waits'[q] = waits[q]
  BY <1>1, PageStepFrame
<1>4. CASE a = p
  BY <1>1, <1>2, <1>3, <1>4 DEF CallsApart
<1>5. CASE b = p
  BY <1>1, <1>2, <1>3, <1>5 DEF CallsApart
<1>6. CASE a # p /\ b # p
  BY <1>1, <1>3, <1>6 DEF CallsApart
<1> QED
  BY <1>4, <1>5, <1>6

LEMMA PagesInvStep ==
  ASSUME PagesInv, [Next]_vars
  PROVE  /\ PagesInv'
         /\ ProfileMatches /\ ~ProfileMatches' =>
              \E p \in crossed : page[p] = "refreshing" /\ page'[p] = "in"
<1>1. TypeOK' /\ AllFit'
  BY NextTypeOK DEF PagesInv
<1>2. CASE \E p \in Page : PageStep(p)
  <2>1. PICK p \in Page : PageStep(p)
    BY <1>2
  <2>2. /\ OwnCall(p)'
        /\ ProfileMatches => ProfileMatches' \/ (RefreshAnswered(p) /\ p \in crossed /\ page'[p] = "in")
    BY <2>1, ProfileBetween, ProfileVerify, ProfileVerified, ProfileAsk, ProfileRefreshed
       DEF PageStep
  <2>3. \A q \in Page : OwnCall(q)'
    BY <2>1, <2>2, OthersKeep
  <2>4. RefreshAnswered(p) => page[p] = "refreshing"
    BY DEF RefreshAnswered
  <2> QED
    BY <1>1, <2>1, <2>2, <2>3, <2>4, ApartStep DEF PagesInv
<1>3. CASE (\E c \in Call : CallStep(c)) /\ UNCHANGED <<storage, pageVars>>
  <2>1. \A p \in Page : OwnCall(p)'
    BY <1>3, ProfileHandled
  <2>2. CallsApart' /\ ProfileMatches' = ProfileMatches
    BY <1>3 DEF PagesInv, CallsApart, ProfileMatches, storage, pageVars
  <2> QED
    BY <1>1, <2>1, <2>2 DEF PagesInv
<1>4. CASE (Tick /\ UNCHANGED <<storage, pageVars>>) \/ UNCHANGED vars
  <2>1. UNCHANGED <<stored, profile, crossed, page, waits, at, who, issued>>
    BY <1>4 DEF Tick, vars, storage, pageVars, authVars, callVars
  <2>2. (\A p \in Page : OwnCall(p)') /\ CallsApart' /\ ProfileMatches' = ProfileMatches
    BY <2>1 DEF PagesInv, OwnCall, SignedFor, CallsApart, ProfileMatches
  <2> QED
    BY <1>1, <2>2 DEF PagesInv
<1> QED
  BY <1>2, <1>3, <1>4 DEF Next

\* In however many tabs, whatever requests fail and whatever their handlers do
\* afterwards, only the answer of a refresh during which the session changed hands
\* puts one user's tokens under another's name.
THEOREM ProfileRight == Spec => ProfileKept
<1>1. Init => PagesInv
  <2>1. ASSUME Init PROVE CallsApart /\ \A p \in Page : OwnCall(p)
    BY <2>1 DEF Init, OwnCall, CallsApart
  <2> QED
    BY <2>1, InitTypeOK DEF PagesInv
<1>2. PagesInv /\ [Next]_vars =>
        /\ PagesInv'
        /\ [ProfileMatches /\ ~ProfileMatches' =>
              \E p \in crossed : page[p] = "refreshing" /\ page'[p] = "in"]_vars
  BY PagesInvStep
<1> QED
  BY <1>1, <1>2, PTL DEF Spec, ProfileKept
=============================================================================
