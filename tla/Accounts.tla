------------------------------ MODULE Accounts ------------------------------
(***************************************************************************)
(* Accounts: what happens after a phone has proved its code               *)
(* (AuthService.login_with_otp), the refresh tokens, and the Flutter app's *)
(* way to log in.                                                          *)
(*                                                                         *)
(* A login is a transaction that finds or inserts the user's row, may turn *)
(* the user into a partner with a row of delivery_partners, and commits;   *)
(* then the hash of a new refresh token goes to Redis.  The app's handler  *)
(* writes the role once more, in a second transaction.  A session's view   *)
(* of the user is what it has loaded first.                                *)
(*                                                                         *)
(* The refresh tokens of a user are numbered in the order of issue; 0 is   *)
(* none.  The client keeps the last that it has received.                  *)
(***************************************************************************)
EXTENDS Requests

CONSTANTS
    Users,          \* phones, each with at most one row of users
    MaxTokens       \* bounds the refresh tokens of each user

ASSUME AccountsAssumption == IsFiniteSet(Users) /\ MaxTokens \in [Users -> Nat]

Roles  == {"CUSTOMER", "DELIVERY_PARTNER", "RESTAURANT_PARTNER"}
Absent == "ABSENT"    \* no row of users
FeIds  == 0..Cardinality(Users)

VARIABLES
    role,       \* users.role
    feId,       \* delivery_partners.fe_id, 0 for no row
    refresh,    \* Redis refresh:{user_id}
    issued,     \* how many refresh tokens the user has been issued
    held,       \* the token that the client holds
    authReq,    \* requests in flight
    broken,     \* clients that have missed an answer
    single      \* clients that wait for each answer

accountVars == <<role, feId, refresh, issued, held, authReq, broken, single>>

Partners == {u \in Users : feId[u] # 0}

Known == Roles \cup {Absent}    \* what a request may have loaded

AuthRequest ==
    [user : Users, at : {"commit", "store", "role", "rotate", "revoke", "logout"},
     seen : Known, role : Roles, feId : 0..(Cardinality(Users) + 1),
     app : BOOLEAN, wants : Roles, token : Nat]

At(s, step) == authReq[s] # Idle /\ authReq[s].at = step

Starts(s, u) ==
    /\ authReq[s] = Idle
    /\ u \in single => AloneOn(authReq, "user", u)

-----------------------------------------------------------------------------
(* login_with_otp *)

\* Partners are numbered by counting the rows.
NextFeId == Cardinality(Partners) + 1

Conflicting(seen, wants) ==
    {seen, wants} = {"DELIVERY_PARTNER", "RESTAURANT_PARTNER"}

\* A customer stays what the user was, unless it is the app that logs in.
Login(s, u, wants, app) ==
    LET joins == wants = "DELIVERY_PARTNER" /\ role[u] # "DELIVERY_PARTNER"
        kept  == IF role[u] = Absent THEN "CUSTOMER" ELSE role[u]
    IN  /\ Starts(s, u)
        /\ issued[u] < MaxTokens[u]
        /\ ~Conflicting(role[u], wants)
        /\ authReq' = [authReq EXCEPT ![s] =
             [user |-> u, at |-> "commit", seen |-> role[u],
              role |-> IF wants = "CUSTOMER" THEN kept ELSE wants,
              feId |-> IF joins THEN NextFeId ELSE 0,
              app |-> app, wants |-> wants, token |-> 0]]
        /\ UNCHANGED <<role, feId, refresh, issued, held, broken, single>>

\* Mutant: the numbers of partners need not be unique.
LoginViolates_NumberTwice(w) ==
    \/ w.seen = Absent /\ role[w.user] # Absent
    \/ w.feId # 0 /\ feId[w.user] # 0

\* users.phone, delivery_partners.user_id and fe_id are unique.
LoginViolates(w) ==
    \/ w.seen = Absent /\ role[w.user] # Absent
    \/ w.feId # 0 /\ (feId[w.user] # 0 \/ \E u \in Users : feId[u] = w.feId)

CommitLogin(s) ==
    LET w == authReq[s]
        u == w.user
    IN  /\ At(s, "commit") /\ ~LoginViolates(w)
        /\ role' = IF w.role = w.seen THEN role ELSE [role EXCEPT ![u] = w.role]
        /\ feId' = IF w.feId = 0 THEN feId ELSE [feId EXCEPT ![u] = w.feId]
        /\ authReq' = Goes(authReq, s, "store")
        /\ UNCHANGED <<refresh, issued, held, broken, single>>

LoginConflict(s) ==
    /\ At(s, "commit") /\ LoginViolates(authReq[s])
    /\ authReq' = Ends(authReq, s)
    /\ UNCHANGED <<role, feId, refresh, issued, held, broken, single>>

\* A new token is issued, its hash stored, and the client gets it.
Issue(u) ==
    /\ issued[u] < MaxTokens[u]
    /\ issued' = [issued EXCEPT ![u] = @ + 1]
    /\ refresh' = [refresh EXCEPT ![u] = issued[u] + 1]
    /\ held' = [held EXCEPT ![u] = issued[u] + 1]

StoreToken(s) ==
    LET u == authReq[s].user
    IN  /\ At(s, "store") /\ ~authReq[s].app
        /\ Issue(u)
        /\ authReq' = Ends(authReq, s)
        /\ UNCHANGED <<role, feId, broken, single>>

\* The app gets its token only after the second transaction.
AppStoreToken(s) ==
    LET u == authReq[s].user
    IN  /\ At(s, "store") /\ authReq[s].app
        /\ issued[u] < MaxTokens[u]
        /\ issued' = [issued EXCEPT ![u] = @ + 1]
        /\ refresh' = [refresh EXCEPT ![u] = issued[u] + 1]
        /\ authReq' = [authReq EXCEPT ![s].at = "role", ![s].token = issued[u] + 1]
        /\ UNCHANGED <<role, feId, held, broken, single>>

\* The app's role becomes the user's; a partner that logs in as a customer is
\* a customer from then on.
AppRole(s) ==
    LET w == authReq[s]
        u == w.user
    IN  /\ At(s, "role")
        /\ role' = IF w.wants = w.role THEN role ELSE [role EXCEPT ![u] = w.wants]
        /\ held' = [held EXCEPT ![u] = w.token]
        /\ authReq' = Ends(authReq, s)
        /\ UNCHANGED <<feId, refresh, issued, broken, single>>

-----------------------------------------------------------------------------
(* Refresh tokens *)

\* The token is compared with the stored hash, and the user is looked up.
RefreshTokens(s, u) ==
    /\ Starts(s, u)
    /\ held[u] # 0
    /\ authReq' = [authReq EXCEPT ![s] =
         [user |-> u, at |-> IF held[u] = refresh[u] THEN "rotate" ELSE "revoke",
          seen |-> role[u], role |-> "CUSTOMER", feId |-> 0, app |-> FALSE,
          wants |-> "CUSTOMER", token |-> 0]]
    /\ UNCHANGED <<role, feId, refresh, issued, held, broken, single>>

\* Mutant: the client gets a new token and the old hash stays.
Rotate_NotStored(s) ==
    LET u == authReq[s].user
    IN  /\ At(s, "rotate") /\ issued[u] < MaxTokens[u]
        /\ issued' = [issued EXCEPT ![u] = @ + 1]
        /\ held' = [held EXCEPT ![u] = issued[u] + 1]
        /\ authReq' = Ends(authReq, s)
        /\ UNCHANGED <<role, feId, refresh, broken, single>>

Rotate(s) ==
    /\ At(s, "rotate")
    /\ Issue(authReq[s].user)
    /\ authReq' = Ends(authReq, s)
    /\ UNCHANGED <<role, feId, broken, single>>

\* A token that is not the stored one takes the stored one with it.
Revoke(s) ==
    /\ At(s, "revoke")
    /\ refresh' = [refresh EXCEPT ![authReq[s].user] = 0]
    /\ authReq' = Ends(authReq, s)
    /\ UNCHANGED <<role, feId, issued, held, broken, single>>

Logout(s, u) ==
    /\ Starts(s, u)
    /\ issued[u] > 0
    /\ refresh' = [refresh EXCEPT ![u] = 0]
    /\ UNCHANGED <<role, feId, issued, held, authReq, broken, single>>

TokenExpires(u) ==
    /\ refresh[u] # 0
    /\ refresh' = [refresh EXCEPT ![u] = 0]
    /\ UNCHANGED <<role, feId, issued, held, authReq, broken, single>>

\* A request fails before its next access.
AuthFails(s) ==
    /\ authReq[s] # Idle
    /\ broken' = broken \cup {authReq[s].user}
    /\ authReq' = Ends(authReq, s)
    /\ UNCHANGED <<role, feId, refresh, issued, held, single>>

\* A token has been rotated and the answer does not arrive.
AnswerLost(s) ==
    LET u == authReq[s].user
    IN  /\ At(s, "rotate") /\ issued[u] < MaxTokens[u]
        /\ issued' = [issued EXCEPT ![u] = @ + 1]
        /\ refresh' = [refresh EXCEPT ![u] = issued[u] + 1]
        /\ broken' = broken \cup {u}
        /\ authReq' = Ends(authReq, s)
        /\ UNCHANGED <<role, feId, held, single>>

-----------------------------------------------------------------------------
(* The specification *)

AccountsInit ==
    /\ role = [u \in Users |-> Absent]
    /\ feId = [u \in Users |-> 0]
    /\ refresh = [u \in Users |-> 0]
    /\ issued = [u \in Users |-> 0]
    /\ held = [u \in Users |-> 0]
    /\ authReq = [s \in Sessions |-> Idle]
    /\ broken = {}
    /\ single \in SUBSET Users

AccountsNext ==
    \/ \E s \in Sessions, u \in Users :
         \/ \E wants \in Roles, app \in BOOLEAN : Login(s, u, wants, app)
         \/ RefreshTokens(s, u) \/ Logout(s, u)
    \/ \E s \in Sessions :
         \/ CommitLogin(s) \/ LoginConflict(s)
         \/ StoreToken(s) \/ AppStoreToken(s) \/ AppRole(s)
         \/ Rotate(s) \/ Revoke(s)
         \/ AuthFails(s) \/ AnswerLost(s)
    \/ \E u \in Users : TokenExpires(u)

AccountsSpec == AccountsInit /\ [][AccountsNext]_accountVars

-----------------------------------------------------------------------------
(* Properties *)

\* Every variable has values of its kind.
AccountsTypeOK ==
    /\ role \in [Users -> Known]
    /\ feId \in [Users -> FeIds]
    /\ refresh \in [Users -> Nat]
    /\ issued \in [Users -> Nat] /\ \A u \in Users : issued[u] <= MaxTokens[u]
    /\ held \in [Users -> Nat]
    /\ authReq \in [Sessions -> AuthRequest \cup {Idle}]
    /\ broken \in SUBSET Users
    /\ single \in SUBSET Users

\* However logins overlap: whoever has the partner's role has a partner's row,
\* and the rows are numbered from 1 without a gap, so that the next number,
\* which is computed by counting, is free (auth_service.py:81-108).
PartnersRegistered ==
    /\ \A u \in Users : role[u] = "DELIVERY_PARTNER" => u \in Partners
    /\ {feId[u] : u \in Partners} = 1..Cardinality(Partners)

\* A client that waits for each answer and misses none holds the stored token
\* between its requests, unless that is gone: its next refresh is not taken for
\* a token that was used before (auth_service.py:186-194).
StaysLoggedIn ==
    \A u \in single \ broken :
        AloneOn(authReq, "user", u) => refresh[u] \in {0, held[u]}

=============================================================================
