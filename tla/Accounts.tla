------------------------------- MODULE Accounts -------------------------------
(***************************************************************************)
(* Registration, login, and the tokens that later requests carry. Hashing  *)
(* and verifying a password take long, so that registrations and logins of *)
(* one account overlap; the unique index of the table decides. The         *)
(* database compares accounts by its collation: several spellings are one  *)
(* account. A token is not stored anywhere; it proves itself until it      *)
(* expires, and there is no way to take it back.                           *)
(*                                                                         *)
(* A hash is represented by the password it was made from; a signature     *)
(* that fails, by NoToken.                                                 *)
(*                                                                         *)
(* Source: internal/application/account/service.go, domain/account,        *)
(* infra/persistence/account, infra/jwt, interfaces/http/middleware.       *)
(***************************************************************************)
EXTENDS Integers, Sequences

CONSTANTS
    Guests,       \* clients
    Spellings,    \* ways to write accounts; "" is left of a blank one
    SameAs,       \* SameAs[s]: the account a spelling stands for
    Passwords,    \* "" is left of a blank one
    LongPassword, \* one that bcrypt does not hash: over 72 bytes
    AccessTTL,    \* the life of a token
    NoToken,
    MaxClock,     \* bound: the time
    MaxVisits,    \* bound: registrations and logins
    MaxSlips      \* bound: database calls that fail

ASSUME AccessTTLNat == AccessTTL \in Nat

VARIABLES
    accounts,     \* the table: accounts[i] is user i
    guest,        \* guest[g]: next step, spelling and password given, answer
    token,        \* token[g]: what g carries, or NoToken
    served,       \* served[g]: as whom the last request with the token was served;
                  \* 0 is nobody
    clock, visits, slips

accountVars == <<accounts, guest, token, served, clock, visits, slips>>

NoGuest == [at |-> "idle", spelling |-> "", password |-> "", row |-> 0, answer |-> "none"]

AccountInit ==
    /\ accounts = <<>>
    /\ guest = [g \in Guests |-> NoGuest]
    /\ token = [g \in Guests |-> NoToken]
    /\ served = [g \in Guests |-> 0]
    /\ clock = 0
    /\ visits = 0
    /\ slips = 0

Slip == slips < MaxSlips /\ slips' = slips + 1

Visit == visits < MaxVisits /\ visits' = visits + 1

Told(g, answer) == guest' = [guest EXCEPT ![g].at = "idle", ![g].row = 0, ![g].answer = answer]

\* The rows an account has: WHERE account = ?, in the table's collation.
RowsOf(spelling) == {i \in DOMAIN accounts : SameAs[accounts[i].spelling] = SameAs[spelling]}

-----------------------------------------------------------------------------
(* Service.Register. *)

\* domainaccount.New: blank input and passwords without a hash are refused.
NewUser(g) ==
    /\ guest[g].at = "idle"
    /\ \E s \in Spellings, w \in Passwords :
        guest' = [guest EXCEPT ![g] =
            IF s = "" \/ w \in {"", LongPassword}
            THEN [NoGuest EXCEPT !.answer = "refused"]
            ELSE [NoGuest EXCEPT !.at = "save", !.spelling = s, !.password = w]]
    /\ Visit
    /\ UNCHANGED <<accounts, token, served, clock, slips>>

Inserted(g) == accounts' = Append(accounts, [spelling |-> guest[g].spelling, password |-> guest[g].password])

\* Wrong: without the unique index.
SaveUnchecked(g) ==
    /\ guest[g].at = "save"
    /\ Inserted(g)
    /\ Told(g, "registered")
    /\ UNCHANGED <<token, served, clock, visits, slips>>

\* The INSERT; when it fails the row may be there all the same.
SaveUser(g) ==
    /\ guest[g].at = "save"
    /\ IF RowsOf(guest[g].spelling) = {}
       THEN \/ Inserted(g) /\ Told(g, "registered") /\ UNCHANGED slips
            \/ Slip /\ Told(g, "failed") /\ (Inserted(g) \/ UNCHANGED accounts)
       ELSE \/ Told(g, "exists") /\ UNCHANGED <<accounts, slips>>
            \/ Slip /\ Told(g, "failed") /\ UNCHANGED accounts
    /\ UNCHANGED <<token, served, clock, visits>>

-----------------------------------------------------------------------------
(* Service.Login. *)

Login(g) ==
    /\ guest[g].at = "idle"
    /\ \E s \in Spellings, w \in Passwords :
        guest' = [guest EXCEPT ![g] =
            IF s = "" THEN [NoGuest EXCEPT !.answer = "refused"]
            ELSE [NoGuest EXCEPT !.at = "find", !.spelling = s, !.password = w]]
    /\ Visit
    /\ UNCHANGED <<accounts, token, served, clock, slips>>

\* Take reads one row; an unknown account is answered as a wrong password is.
FindByAccount(g) ==
    /\ guest[g].at = "find"
    /\ \/ RowsOf(guest[g].spelling) = {} /\ Told(g, "invalid") /\ UNCHANGED slips
       \/ /\ \E i \in RowsOf(guest[g].spelling) : guest' = [guest EXCEPT ![g].at = "verify", ![g].row = i]
          /\ UNCHANGED slips
       \/ Slip /\ Told(g, "failed")
    /\ UNCHANGED <<accounts, token, served, clock, visits>>

\* SignAccessToken.
Signed(user) == [user |-> user, expires |-> clock + AccessTTL]

\* Authenticate verifies the password against the hash that was read.
Authenticate(g) ==
    /\ guest[g].at = "verify"
    /\ IF guest[g].password # "" /\ guest[g].password = accounts[guest[g].row].password
       THEN /\ token' = [token EXCEPT ![g] = Signed(guest[g].row)]
            /\ served' = [served EXCEPT ![g] = 0]
            /\ Told(g, "token")
       ELSE /\ Told(g, IF guest[g].password = "" THEN "refused" ELSE "invalid")
            /\ UNCHANGED <<token, served>>
    /\ UNCHANGED <<accounts, clock, visits, slips>>

-----------------------------------------------------------------------------
(* Requests. *)

\* ParseAndValidateToken: the signature, the life, the type and the user.
ValidToken(t) == t # NoToken /\ clock < t.expires

\* NewOptionalJWTAuth: without a valid token the request is anybody's.
OptionalRequest(g) ==
    /\ served' = [served EXCEPT ![g] = IF ValidToken(token[g]) THEN token[g].user ELSE 0]
    /\ UNCHANGED <<accounts, guest, token, clock, visits, slips>>

\* NewJWTAuth answers 401 without one; the client logs in again.
RequiredRequest(g) ==
    /\ IF ValidToken(token[g])
       THEN served' = [served EXCEPT ![g] = token[g].user] /\ UNCHANGED token
       ELSE served' = [served EXCEPT ![g] = 0] /\ token' = [token EXCEPT ![g] = NoToken]
    /\ UNCHANGED <<accounts, guest, clock, visits, slips>>

\* What was served was served before.
TimePasses ==
    /\ clock < MaxClock
    /\ clock' = clock + 1
    /\ served' = [g \in Guests |-> 0]
    /\ UNCHANGED <<accounts, guest, token, visits, slips>>

AccountNext ==
    \/ TimePasses
    \/ \E g \in Guests :
        \/ NewUser(g) \/ SaveUser(g) \/ Login(g) \/ FindByAccount(g) \/ Authenticate(g)
        \/ OptionalRequest(g) \/ RequiredRequest(g)

-----------------------------------------------------------------------------
\* Several spellings of an account are one user's.
OneUserEach == \A i \in DOMAIN accounts : RowsOf(accounts[i].spelling) = {i}

\* Who was answered "registered" has the account with that password.
RegisteredOwn ==
    \A g \in Guests : guest[g].at = "idle" /\ guest[g].answer = "registered" =>
        \E i \in RowsOf(guest[g].spelling) : accounts[i].password = guest[g].password

(* An account is one user's, whoever registers at the same time and however *)
(* it is spelled: registering never answers two of them, and who logs in    *)
(* with the password of an account is served as its user, until the token   *)
(* expires.                                                                 *)
AccountsHaveOneUser ==
    /\ OneUserEach
    /\ RegisteredOwn
    /\ \A g \in Guests :
        /\ guest[g].answer = "token" =>
              \A i \in RowsOf(guest[g].spelling) :
                  /\ accounts[i].password = guest[g].password
                  /\ token[g] # NoToken => token[g].user = i
        /\ served[g] # 0 => ValidToken(token[g]) /\ served[g] = token[g].user

-----------------------------------------------------------------------------
(* The strengthening that is inductive.                                    *)

AccountSpec == AccountInit /\ [][AccountNext]_accountVars

GuestSteps == {"idle", "save", "find", "verify"}
AccountAnswers == {"none", "refused", "registered", "failed", "exists", "invalid", "token"}
GuestRecords == [at : GuestSteps, spelling : Spellings \cup {""}, password : Passwords \cup {""},
                 row : Nat, answer : AccountAnswers]
AccountRows == [spelling : Spellings \cup {""}, password : Passwords \cup {""}]

AccountTypes ==
    /\ accounts \in Seq(AccountRows)
    /\ guest \in [Guests -> GuestRecords]
    /\ token \in [Guests -> [user : Nat, expires : Nat] \cup {NoToken}]
    /\ served \in [Guests -> Nat]
    /\ clock \in Nat

\* What clients know of their account stays true: it has a row, and keeps it.
GuestsKnow ==
    \A g \in Guests :
        /\ guest[g].at = "verify" => guest[g].row \in RowsOf(guest[g].spelling)
        /\ guest[g].at = "idle" /\ guest[g].answer = "registered" =>
              \E i \in RowsOf(guest[g].spelling) : accounts[i].password = guest[g].password
        /\ guest[g].answer = "token" =>
              \E i \in RowsOf(guest[g].spelling) :
                  /\ accounts[i].password = guest[g].password
                  /\ token[g] # NoToken => token[g].user = i
        /\ served[g] # 0 => ValidToken(token[g]) /\ served[g] = token[g].user

AccountIInv == AccountTypes /\ OneUserEach /\ GuestsKnow
================================================================================
