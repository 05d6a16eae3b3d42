-------------------------------- MODULE Identity --------------------------------
(***************************************************************************)
(* Accounts and sessions: local registration and login                     *)
(* (internal/auth/auth.go, internal/portal/portal.go) and the OIDC login   *)
(* (internal/auth/oidc.go) against an identity provider that behaves like  *)
(* deploy/dex/mock-oidc.  A callback is four separate exchanges with the   *)
(* provider and the database; callbacks of the same subject overlap and    *)
(* the process may die between any two of them.                            *)
(***************************************************************************)
EXTENDS Integers, Sequences

CONSTANTS
    Subjects,         \* the provider's users
    EmailOf,          \* [Subjects -> user names], the email claim
    LocalNames,       \* names people register with directly
    Attempts,         \* OIDC logins: a browser tab each
    BrowserOf,        \* [Attempts -> browsers]: tabs share the state cookie
    AutoRegister,     \* OIDCConfig.AutoRegister
    IdFaults          \* which of "exchange", "db", "crash" may happen

ASSUME IdentityAssumption ==
    /\ EmailOf \in [Subjects -> STRING]
    /\ LocalNames \subseteq STRING
    /\ AutoRegister \in BOOLEAN

VARIABLES
    users,            \* the users table: name and kind of password; an id is a place in it
    identities,       \* external_identities: user id of a subject, 0 if none
    cookie,           \* the oidc_state cookie of a browser: whose state it holds
    attempt,          \* where an OIDC login is
    sessions          \* history: who asked for a session, and the uid it was signed for

idVars == <<users, identities, cookie, attempt, sessions>>

Browsers == {BrowserOf[a] : a \in Attempts}
NoAttempt == "none"
Fresh == [pc |-> "idle", subject |-> CHOOSE s \in Subjects : TRUE, uid |-> 0]

\* userIDByUsername; 0 when there is no such user.
UserIDByUsername(name) ==
    IF \E id \in DOMAIN users : users[id].name = name
    THEN CHOOSE id \in DOMAIN users : users[id].name = name
    ELSE 0

\* JWTManager.Sign: the session's claims name the user id.
Sign(who, uid) == sessions' = sessions \cup {[who |-> who, uid |-> uid]}

-----------------------------------------------------------------------------
(* Local accounts *)

\* INSERT ... ON CONFLICT (username) DO NOTHING
Register(name, password) ==
    /\ UserIDByUsername(name) = 0
    /\ users' = Append(users, [name |-> name, password |-> password])

RegisterLocal(name) ==
    /\ Register(name, "own")
    /\ UNCHANGED <<identities, cookie, attempt, sessions>>

\* With the password the name was registered with; nobody knows the random one.
Login(name) ==
    LET uid == UserIDByUsername(name) IN
    /\ uid # 0 /\ users[uid].password = "own"
    /\ Sign(<<"local", name>>, uid)
    /\ UNCHANGED <<users, identities, cookie, attempt>>

-----------------------------------------------------------------------------
(* OIDC login *)

Goto(a, pc) == attempt' = [attempt EXCEPT ![a].pc = pc]

\* GET /api/oidc/login: a fresh state in the browser's cookie, then to the IdP.
StartOIDC(a) ==
    /\ attempt[a].pc \in {"idle", "done", "failed", "panicked"}
    /\ cookie' = [cookie EXCEPT ![BrowserOf[a]] = a]
    /\ attempt' = [attempt EXCEPT ![a] = [Fresh EXCEPT !.pc = "idp"]]
    /\ UNCHANGED <<users, identities, sessions>>

\* The provider issues a code for the user it picked and redirects back.
Authorize(a, s) ==
    /\ attempt[a].pc = "idp"
    /\ attempt' = [attempt EXCEPT ![a].pc = "callback", ![a].subject = s]
    /\ UNCHANGED <<users, identities, cookie, sessions>>

\* handleCallback: the state must be the cookie's.  Then Exchange and Verify.
HandleCallback(a) ==
    /\ attempt[a].pc = "callback"
    /\ Goto(a, IF cookie[BrowserOf[a]] = a THEN "lookup" ELSE "failed")
    /\ UNCHANGED <<users, identities, cookie, sessions>>

\* INSERT ... ON CONFLICT (provider, subject) DO NOTHING
Linked(a) ==
    LET s == attempt[a].subject IN
    IF identities[s] = 0 THEN [identities EXCEPT ![s] = attempt[a].uid] ELSE identities

\* An exchange with the provider or the database fails; the link may have
\* been stored all the same.
CallbackFails(a) ==
    /\ \/ attempt[a].pc = "callback" /\ "exchange" \in IdFaults /\ UNCHANGED identities
       \/ attempt[a].pc \in {"register", "link"} /\ "db" \in IdFaults /\ UNCHANGED identities
       \/ attempt[a].pc = "link" /\ "db" \in IdFaults /\ identities' = Linked(a)
    /\ Goto(a, "failed")
    /\ UNCHANGED <<users, cookie, sessions>>

\* resolveUser looks the subject up; an error counts as not found.
SubjectUserID(a) ==
    LET s == attempt[a].subject IN
    /\ attempt[a].pc = "lookup"
    /\ \/ /\ identities[s] # 0
          /\ Sign(<<"oidc", s>>, identities[s])
          /\ Goto(a, "done")
       \/ /\ identities[s] = 0 \/ "db" \in IdFaults
          /\ Goto(a, IF AutoRegister THEN "register" ELSE "failed")
          /\ UNCHANGED sessions
    /\ UNCHANGED <<users, identities, cookie>>

\* Mutant of RegisterOIDC: an account is made whether or not the name is free.
RegisterAgain(a) ==
    /\ attempt[a].pc = "register"
    /\ users' = Append(users, [name |-> EmailOf[attempt[a].subject], password |-> "random"])
    /\ attempt' = [attempt EXCEPT ![a].pc = "link", ![a].uid = Len(users) + 1]
    /\ UNCHANGED <<identities, cookie, sessions>>

\* Register returns a nil user with ErrUserExists, and "uid := u.ID" reads it
\* before the error is looked at: the handler panics.
RegisterOIDC(a) ==
    LET name == EmailOf[attempt[a].subject] IN
    /\ attempt[a].pc = "register"
    /\ \/ /\ Register(name, "random")
          /\ attempt' = [attempt EXCEPT ![a].pc = "link", ![a].uid = Len(users) + 1]
       \/ /\ UserIDByUsername(name) # 0
          /\ Goto(a, "panicked")
          /\ UNCHANGED users
    /\ UNCHANGED <<identities, cookie, sessions>>

\* The session is signed for the caller's uid, not for the linked one.
LinkSubject(a) ==
    /\ attempt[a].pc = "link"
    /\ identities' = Linked(a)
    /\ Sign(<<"oidc", attempt[a].subject>>, attempt[a].uid)
    /\ Goto(a, "done")
    /\ UNCHANGED <<users, cookie>>

\* The process dies; the browsers and the database stay.
PortalCrash ==
    /\ "crash" \in IdFaults
    /\ attempt' = [a \in Attempts |->
                     IF attempt[a].pc \in {"lookup", "register", "link"}
                     THEN [attempt[a] EXCEPT !.pc = "failed"] ELSE attempt[a]]
    /\ UNCHANGED <<users, identities, cookie, sessions>>

-----------------------------------------------------------------------------
IdInit ==
    /\ users = <<>>
    /\ identities = [s \in Subjects |-> 0]
    /\ cookie = [b \in Browsers |-> NoAttempt]
    /\ attempt = [a \in Attempts |-> Fresh]
    /\ sessions = {}

IdNext ==
    \/ \E name \in LocalNames : RegisterLocal(name) \/ Login(name)
    \/ \E a \in Attempts :
          \/ StartOIDC(a)
          \/ \E s \in Subjects : Authorize(a, s)
          \/ HandleCallback(a) \/ CallbackFails(a)
          \/ SubjectUserID(a) \/ RegisterOIDC(a) \/ LinkSubject(a)
    \/ PortalCrash

IdSpec == IdInit /\ [][IdNext]_idVars

-----------------------------------------------------------------------------
(* Properties *)

NameOf(who) == IF who[1] = "oidc" THEN EmailOf[who[2]] ELSE who[2]

\* However callbacks overlap, fail or die half way, a subject's sessions are
\* all for one account, and two sessions for one account are of people with
\* the same name.
OneAccountPerSubject ==
    \A m, n \in sessions :
        /\ m.who = n.who => m.uid = n.uid
        /\ m.uid = n.uid => NameOf(m.who) = NameOf(n.who)
=============================================================================
