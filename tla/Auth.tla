-------------------------------- MODULE Auth --------------------------------
(***************************************************************************)
(* register, verifyCode and refreshToken of                                *)
(* packages/api/src/auth/auth.service.ts over the users table, one action  *)
(* per awaited call, so that the calls of several clients interleave       *)
(* between the read of a row and the write back.                           *)
(*                                                                         *)
(* A token pair is signed without an identifier of its own: its bytes are  *)
(* fixed by the user and the second it is issued in, so a pair *is* that   *)
(* record, and so is its SHA-256.  (The user's name is signed as well;     *)
(* renaming is left out.)  The clock counts seconds.  An SMS code is drawn *)
(* at random from a finite set; the text itself decides nothing, because   *)
(* sendSmsCode swallows every error.                                       *)
(*                                                                         *)
(* Clients are not part of this module: WebSession composes it with the    *)
(* browser.                                                                *)
(***************************************************************************)
EXTENDS Naturals

CONSTANTS
  User,         \* phone numbers, each a row once registered
  Code,         \* the SMS codes
  Call,         \* slots for requests being handled
  None,
  CodeLife,     \* verification_expires, in seconds from the request
  AccessLife,   \* expiresIn of the access token
  RefreshLife,  \* expiresIn of the refresh token
  MaxTime       \* bound on the clock

ASSUME AuthAssumption ==
  /\ CodeLife \in Nat /\ AccessLife \in Nat /\ RefreshLife \in Nat
  /\ MaxTime \in Nat
  /\ None \notin User \cup Code \cup Call

VARIABLES
  now,
  registered,  \* users that have a row
  pending,     \* verification_code and verification_expires of each user
  hash,        \* refresh_token_hash of each user
  at,          \* where the handler of each call stands
  who,         \* the user whose row the handler works on
  shown,       \* the refresh token of the request
  issued       \* the pair the handler signs

usersTable == <<registered, pending, hash>>
callVars   == <<at, who, shown, issued>>
authVars   == <<now, usersTable, callVars>>

Time  == 0 .. MaxTime
Token == [user : User, at : Time]
NoToken == [user |-> None, at |-> 0]
NoCode  == [code |-> None, expires |-> 0]

Handling == {"asked", "texting", "storing", "rotating", "revoking"}
Ended    == {"answered", "refused"}

AuthTypeOK ==
  /\ now \in Time
  /\ registered \subseteq User
  /\ pending \in [User -> [code : Code, expires : Nat] \cup {NoCode}]
  /\ hash \in [User -> Token \cup {NoToken}]
  /\ at \in [Call -> {"free"} \cup Handling \cup Ended]
  /\ who \in [Call -> User \cup {None}]
  /\ shown \in [Call -> Token \cup {NoToken}]
  /\ issued \in [Call -> Token \cup {NoToken}]

AuthInit ==
  /\ now = 0
  /\ registered = {}
  /\ pending = [u \in User |-> NoCode]
  /\ hash = [u \in User |-> NoToken]
  /\ at = [c \in Call |-> "free"]
  /\ who = [c \in Call |-> None]
  /\ shown = [c \in Call |-> NoToken]
  /\ issued = [c \in Call |-> NoToken]

\* jwtService.verify accepts a token up to the second before its exp.
AccessValid(t)  == now < t.at + AccessLife
RefreshValid(t) == now < t.at + RefreshLife

\* A variant that dates a token by its expiry, for the mutation runs.
PairByExpiry(u) == [user |-> u, at |-> now + RefreshLife]

\* issueTokens
Pair(u) == [user |-> u, at |-> now]

\* A variant that never replaces a session.
WithSessionKept(c) ==
  [hash EXCEPT ![who[c]] = IF @ = NoToken THEN issued[c] ELSE @]

\* refresh_token_hash once the pair of call c is stored.
WithSession(c) == [hash EXCEPT ![who[c]] = issued[c]]
-----------------------------------------------------------------------------
(* register *)

\* The upsert, then the request to SMSC.
Register(c, u, k) ==
  /\ at[c] = "free"
  /\ registered' = registered \cup {u}
  /\ pending' = [pending EXCEPT ![u] = [code |-> k, expires |-> now + CodeLife]]
  /\ at' = [at EXCEPT ![c] = "texting"]
  /\ who' = [who EXCEPT ![c] = u]
  /\ UNCHANGED <<now, hash, shown, issued>>

\* SMSC answers or fails; the caller is told that the code was sent.
SendSmsCode(c) ==
  /\ at[c] = "texting"
  /\ at' = [at EXCEPT ![c] = "answered"]
  /\ UNCHANGED <<now, usersTable, who, shown, issued>>
-----------------------------------------------------------------------------
(* verifyCode *)

CodeAccepted(u, k) ==
  /\ u \in registered
  /\ pending[u] # NoCode
  /\ now <= pending[u].expires
  /\ pending[u].code = k

VerifyCode(c, u, k) ==
  /\ at[c] = "free"
  /\ who' = [who EXCEPT ![c] = u]
  /\ \/ /\ CodeAccepted(u, k)
        /\ issued' = [issued EXCEPT ![c] = Pair(u)]
        /\ at' = [at EXCEPT ![c] = "storing"]
     \/ /\ ~CodeAccepted(u, k)
        /\ at' = [at EXCEPT ![c] = "refused"]
        /\ UNCHANGED issued
  /\ UNCHANGED <<now, usersTable, shown>>

\* One unconditional update clears the code and replaces the session.
StoreSession(c) ==
  /\ at[c] = "storing"
  /\ pending' = [pending EXCEPT ![who[c]] = NoCode]
  /\ hash' = WithSession(c)
  /\ at' = [at EXCEPT ![c] = "answered"]
  /\ UNCHANGED <<now, registered, who, shown, issued>>
-----------------------------------------------------------------------------
(* refreshToken *)

\* The request arrives with token t.
AskRefresh(c, t) ==
  /\ at[c] = "free"
  /\ at' = [at EXCEPT ![c] = "asked"]
  /\ who' = [who EXCEPT ![c] = t.user]
  /\ shown' = [shown EXCEPT ![c] = t]
  /\ UNCHANGED <<now, usersTable, issued>>

\* The token is checked, the row read and the verdict reached.
RefreshToken(c) ==
  /\ at[c] = "asked"
  /\ LET t == shown[c]
         session == hash[who[c]]
         open == RefreshValid(t) /\ who[c] \in registered /\ session # NoToken
     IN \/ /\ ~open
           /\ at' = [at EXCEPT ![c] = "refused"]
           /\ UNCHANGED issued
        \/ /\ open /\ session # t
           /\ at' = [at EXCEPT ![c] = "revoking"]
           /\ UNCHANGED issued
        \/ /\ open /\ session = t
           /\ at' = [at EXCEPT ![c] = "rotating"]
           /\ issued' = [issued EXCEPT ![c] = Pair(who[c])]
  /\ UNCHANGED <<now, usersTable, who, shown>>

\* A token that is not the stored one closes the session.
Revoke(c) ==
  /\ at[c] = "revoking"
  /\ hash' = [hash EXCEPT ![who[c]] = NoToken]
  /\ at' = [at EXCEPT ![c] = "refused"]
  /\ UNCHANGED <<now, registered, pending, who, shown, issued>>

Rotate(c) ==
  /\ at[c] = "rotating"
  /\ hash' = WithSession(c)
  /\ at' = [at EXCEPT ![c] = "answered"]
  /\ UNCHANGED <<now, registered, pending, who, shown, issued>>
-----------------------------------------------------------------------------
\* The awaited call throws, or the process is restarted: the client sees an
\* error, and what the handler has written stays.
HandlerFails(c) ==
  /\ at[c] \in Handling
  /\ at' = [at EXCEPT ![c] = "refused"]
  /\ UNCHANGED <<now, usersTable, who, shown, issued>>

\* The response is gone; the slot serves another request.
Release(c) ==
  /\ at' = [at EXCEPT ![c] = "free"]
  /\ who' = [who EXCEPT ![c] = None]
  /\ shown' = [shown EXCEPT ![c] = NoToken]
  /\ issued' = [issued EXCEPT ![c] = NoToken]
  /\ UNCHANGED <<now, usersTable>>

Tick ==
  /\ now < MaxTime
  /\ now' = now + 1
  /\ UNCHANGED <<usersTable, callVars>>

\* What a handler does next by itself.
HandlerStep(c) ==
  \/ SendSmsCode(c) \/ StoreSession(c)
  \/ RefreshToken(c) \/ Revoke(c) \/ Rotate(c)
=============================================================================
