------------------------------- MODULE Accounts -------------------------------
(***************************************************************************)
(* Accounts and their access tokens.  A token is what create_access_token  *)
(* signs, the user and the time of expiry, so that two logins at one time  *)
(* get the same token.  A logout writes the token into JWT_BLACKLIST, and  *)
(* get_current_user checks expiry, blacklist and user one after the other. *)
(***************************************************************************)
EXTENDS Integers, FiniteSets

CONSTANTS
    Emails,
    Signups,        \* the requests POST /signup
    EmailOf,
    Visits,         \* the requests that bring a token
    Purpose,        \* "route", "optional" or "logout"
    Life,           \* ACCESS_TOKEN_EXPIRE_MINUTES
    LastMoment      \* where the model's time ends

ASSUME AccountsParameters ==
    /\ EmailOf \in [Signups -> Emails]
    /\ Purpose \in [Visits -> {"route", "optional", "logout"}]
    /\ Life \in Nat
    /\ LastMoment \in Nat

VARIABLES
    users,          \* the rows of USERS, each with its USER_SETTINGS row
    signupPc,
    told,           \* the status code that a signup was answered with
    blacklist,      \* the rows of JWT_BLACKLIST
    issued,         \* the tokens that logins have handed out
    visit,          \* where each visit is, and what it has seen
    moment

accountsVars == <<users, signupPc, told, blacklist, issued, visit, moment>>

User == [email : Emails, by : Signups]

Token == [user : User, exp : Nat]

\* `late': its token had been logged out before it came; `blind': the query
\* of the blacklist failed; `over': it was made when the token's time was over.
Visit ==
    [pc : {"unsent", "valid", "passed", "in", "out"}, token : SUBSET Token,
     late : BOOLEAN, blind : BOOLEAN, over : BOOLEAN]

\* A visit that has seen nothing, or whose sight no longer matters.
At(pc) == [pc |-> pc, token |-> {}, late |-> FALSE, blind |-> FALSE, over |-> FALSE]

AccountsTypeOK ==
    /\ users \in SUBSET User
    /\ signupPc \in [Signups -> {"unsent", "free", "done"}]
    /\ told \in [Signups -> {0, 201, 409, 500}]
    /\ blacklist \in SUBSET Token
    /\ issued \in SUBSET Token
    /\ visit \in [Visits -> Visit]
    /\ moment \in Nat

AccountsInit ==
    /\ users = {}
    /\ signupPc = [s \in Signups |-> "unsent"]
    /\ told = [s \in Signups |-> 0]
    /\ blacklist = {}
    /\ issued = {}
    /\ visit = [v \in Visits |-> At("unsent")]
    /\ moment = 0

Taken(email) == \E u \in users : u.email = email

AnswerSignup(s, code) ==
    /\ signupPc' = [signupPc EXCEPT ![s] = "done"]
    /\ told' = [told EXCEPT ![s] = code]

CheckEmail(s) ==
    /\ signupPc[s] = "unsent"
    /\ IF Taken(EmailOf[s])
       THEN AnswerSignup(s, 409)
       ELSE signupPc' = [signupPc EXCEPT ![s] = "free"] /\ UNCHANGED told
    /\ UNCHANGED <<users, blacklist, issued, visit, moment>>

\* Mutant: the unique key of USERS.EMAIL is missing.
CreateUnchecked(s) ==
    /\ signupPc[s] = "free"
    /\ users' = users \cup {[email |-> EmailOf[s], by |-> s]}
    /\ AnswerSignup(s, 201)
    /\ UNCHANGED <<blacklist, issued, visit, moment>>

\* The user and its settings are committed together, unless the unique key of
\* the address, or anything else, forbids it; the answer may be lost.
CreateUser(s) ==
    /\ signupPc[s] = "free"
    /\ \/ /\ ~ Taken(EmailOf[s])
          /\ users' = users \cup {[email |-> EmailOf[s], by |-> s]}
          /\ \E code \in {201, 500} : AnswerSignup(s, code)
       \/ UNCHANGED users /\ AnswerSignup(s, 500)
    /\ UNCHANGED <<blacklist, issued, visit, moment>>

\* POST /login with the right password
Login(u) ==
    /\ u \in users
    /\ issued' = issued \cup {[user |-> u, exp |-> moment + Life]}
    /\ UNCHANGED <<users, signupPc, told, blacklist, visit, moment>>
-----------------------------------------------------------------------------
Expired(token) == token.exp < moment

\* Mutant: the blacklist is asked for the rows that are no longer of use.
BlacklistedOnce(token) == token \in blacklist /\ token.exp < moment

\* is_token_blacklisted, when its query succeeds
Blacklisted(token) == token \in blacklist /\ token.exp > moment

Set(v, changes) == visit' = [visit EXCEPT ![v] = changes]

\* A token is shown: is_token_expired and verify_token.
Show(v) ==
    /\ visit[v].pc = "unsent"
    /\ \E token \in issued :
        IF Expired(token)
        THEN Set(v, At("out"))
        ELSE Set(v, [At("valid") EXCEPT !.token = {token},
                                        !.late = \E w \in Visits :
                                                    /\ visit[w].pc = "in"
                                                    /\ Purpose[w] = "logout"
                                                    /\ visit[w].token = {token}])
    /\ UNCHANGED <<users, signupPc, told, blacklist, issued, moment>>

\* A query that fails counts as `not blacklisted'.
AskBlacklist(v) ==
    /\ visit[v].pc = "valid"
    /\ Purpose[v] # "optional"
    /\ \E token \in visit[v].token :
        \/ IF Blacklisted(token)
           THEN Set(v, At("out"))
           ELSE Set(v, [visit[v] EXCEPT !.pc = "passed", !.over = moment >= token.exp])
        \/ Set(v, [visit[v] EXCEPT !.pc = "passed", !.blind = TRUE])
    /\ UNCHANGED <<users, signupPc, told, blacklist, issued, moment>>

\* get_current_user has found the user; a logout has still to be committed.
Enter(v) ==
    /\ visit[v].pc = "passed"
    /\ Purpose[v] = "route"
    /\ Set(v, [visit[v] EXCEPT !.pc = "in"])
    /\ UNCHANGED <<users, signupPc, told, blacklist, issued, moment>>

\* get_current_user_optional does not ask the blacklist.
EnterOptional(v) ==
    /\ visit[v].pc = "valid"
    /\ Purpose[v] = "optional"
    /\ Set(v, [visit[v] EXCEPT !.pc = "in"])
    /\ UNCHANGED <<users, signupPc, told, blacklist, issued, moment>>

\* The token's hash is the primary key: a second row of it is an error.
AddToBlacklist(token) ==
    /\ token \notin blacklist
    /\ blacklist' = blacklist \cup {token}

\* The token is decoded again, and must not have expired since.  The answer
\* may be lost after the commit.
Logout(v) ==
    /\ visit[v].pc = "passed"
    /\ Purpose[v] = "logout"
    /\ \E token \in visit[v].token : ~ Expired(token) /\ AddToBlacklist(token)
    /\ Set(v, [visit[v] EXCEPT !.pc = "in"]) \/ Set(v, At("out"))
    /\ UNCHANGED <<users, signupPc, told, issued, moment>>

TurnAway(v) ==
    /\ visit[v].pc \in {"valid", "passed"}
    /\ Set(v, At("out"))
    /\ UNCHANGED <<users, signupPc, told, blacklist, issued, moment>>

\* cleanup_expired_tokens, which nothing in the repository calls
Cleanup ==
    /\ blacklist' = {token \in blacklist : token.exp >= moment}
    /\ UNCHANGED <<users, signupPc, told, issued, visit, moment>>

Elapse ==
    /\ moment < LastMoment
    /\ moment' = moment + 1
    /\ UNCHANGED <<users, signupPc, told, blacklist, issued, visit>>

AccountsNext ==
    \/ \E s \in Signups : CheckEmail(s) \/ CreateUser(s)
    \/ \E u \in users : Login(u)
    \/ \E v \in Visits :
        \/ Show(v) \/ AskBlacklist(v) \/ Enter(v) \/ EnterOptional(v)
        \/ Logout(v) \/ TurnAway(v)
    \/ Cleanup
    \/ Elapse

AccountsSpec == AccountsInit /\ [][AccountsNext]_accountsVars
-----------------------------------------------------------------------------
(***************************************************************************)
(* auth_router.py:29: a signup that was answered with 201 has made the     *)
(* only account of its address, and one that was refused as a duplicate    *)
(* (409) met an account that another signup has made, however many race.   *)
(***************************************************************************)
SignupsAreTrue ==
    \A s \in Signups :
        /\ told[s] = 201 => {u \in users : u.email = EmailOf[s]} = {[email |-> EmailOf[s], by |-> s]}
        /\ told[s] = 409 => \E u \in users : u.email = EmailOf[s] /\ u.by # s

(***************************************************************************)
(* auth_router.py:177, "prevents reuse": a token that is shown after its   *)
(* logout was answered does not get in, while expiry, cleanup and the check*)
(* of the token run side by side.  The exceptions are those of the code:   *)
(* the optional user, a failed query of the blacklist, and a query made    *)
(* when the token's time is just over.                                     *)
(***************************************************************************)
LoggedOutStayOut ==
    \A v \in Visits :
        visit[v].late /\ visit[v].pc = "in" =>
            Purpose[v] = "optional" \/ visit[v].blind \/ visit[v].over
=============================================================================
