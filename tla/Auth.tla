-------------------------------- MODULE Auth --------------------------------
(***************************************************************************)
(* The single account, its browser sessions and its API tokens.  They are  *)
(* documents of project.db: db is the memory of the process, disk the      *)
(* file, which an autosave writes.  The handlers await only a database     *)
(* that is loaded, so each runs without another in between.                *)
(*                                                                         *)
(* Passwords are abstracted to a generation that every change of them      *)
(* increases.  Times that are only shown (creation, last login, last use   *)
(* of a token) and the names of tokens are left out.  A request that is    *)
(* refused after its session was found is a UseSession.                    *)
(*                                                                         *)
(* A definition marked Variant is a faulty form of the definition after    *)
(* it.  It is used only to confirm that a property can fail.               *)
(***************************************************************************)
EXTENDS LoginThrottle

CONSTANTS
    SessionKey, TokenKey,   \* the random keys ever drawn; bounds of the model
    Name,
    NoAccount,
    SessionDuration,        \* SESSION_DURATION_MS
    RenewThrottle,          \* SESSION_RENEW_THROTTLE_MS
    TokenDays,              \* the expiries a token can be given
    Never,                  \* the expiry of a token without one
    MaxGeneration,          \* bound of the model: passwords
    MaxRestarts             \* bound of the model: restarts

ASSUME AuthAssumption ==
    /\ SessionDuration \in Nat /\ RenewThrottle \in Nat \ {0}
    /\ RenewThrottle <= SessionDuration
    /\ TokenDays \subseteq Nat /\ Never \notin Nat
    /\ MaxGeneration \in Nat /\ MaxRestarts \in Nat
    /\ NoAccount \notin [name : Name, generation : 1 .. MaxGeneration]

VARIABLES
    db,         \* account, sessions and tokens in memory
    disk,       \* the same in project.db
    issued,     \* the keys drawn so far
    restarts

vars == <<now, throttle, db, disk, issued, restarts>>

Account == [name : Name, generation : 1 .. MaxGeneration]

\* used and opened are history: the last authenticated request, and the
\* generation of the password that opened the session.
Session ==
    [key : SessionKey, username : Name, updateTime : Nat, expiresAt : Nat,
     used : Nat, opened : Nat]

Token == [key : TokenKey, expiresAt : Nat \cup {Never}, opened : Nat]

Database ==
    [account : Account \cup {NoAccount}, sessions : SUBSET Session, tokens : SUBSET Token]

TypeOk ==
    /\ ThrottleTypeOk
    /\ db \in Database /\ disk \in Database
    /\ issued \in SUBSET (SessionKey \cup TokenKey)
    /\ restarts \in 0 .. MaxRestarts

Empty == [account |-> NoAccount, sessions |-> {}, tokens |-> {}]

Init ==
    /\ ThrottleInit
    /\ db = Empty /\ disk = Empty
    /\ issued = {}
    /\ restarts = 0

-----------------------------------------------------------------------------
(* The account.                                                             *)

Draw(k) == k \notin issued /\ issued' = issued \cup {k}

NewSession(k, account) ==
    [key |-> k, username |-> account.name, updateTime |-> now,
     expiresAt |-> now + SessionDuration, used |-> now, opened |-> account.generation]

\* createAccountIfAbsent, then createSession.
Register(n, k) ==
    /\ db.account = NoAccount /\ MaxGeneration > 0
    /\ Draw(k)
    /\ LET account == [name |-> n, generation |-> 1]
       IN  db' = [db EXCEPT !.account = account,
                            !.sessions = @ \cup {NewSession(k, account)}]
    /\ UNCHANGED <<now, throttle, disk, restarts>>

\* No account, another name or another password.
LoginFails(ip) ==
    /\ AttemptFails(ip)
    /\ UNCHANGED <<now, db, disk, issued, restarts>>

LoginSucceeds(ip, k) ==
    /\ db.account # NoAccount
    /\ AttemptSucceeds(ip)
    /\ Draw(k)
    /\ db' = [db EXCEPT !.sessions = @ \cup {NewSession(k, db.account)}]
    /\ UNCHANGED <<now, disk, restarts>>

-----------------------------------------------------------------------------
(* Sessions.  x ranges over the documents in db.                            *)

\* Variant: the session is still valid when it expires.
ValidOnTheDot(x) == x.expiresAt >= now

Valid(x) == x.expiresAt > now

\* The same for a token.
Expired(t) == t.expiresAt # Never /\ t.expiresAt <= now

\* Variant: a renewal does not move the expiry.
RenewedWithoutExpiry(x) ==
    IF now - x.updateTime < RenewThrottle THEN [x EXCEPT !.used = now]
    ELSE [x EXCEPT !.used = now, !.updateTime = now]

\* requireAuth renews the session it found, at most once per throttle.
Renewed(x) ==
    IF now - x.updateTime < RenewThrottle THEN [x EXCEPT !.used = now]
    ELSE [x EXCEPT !.used = now, !.updateTime = now, !.expiresAt = now + SessionDuration]

AfterRenewal(x) == (db.sessions \ {x}) \cup {Renewed(x)}

UseSession(x) ==
    /\ Valid(x)
    /\ db' = [db EXCEPT !.sessions = AfterRenewal(x)]
    /\ UNCHANGED <<now, throttle, disk, issued, restarts>>

\* A request or a socket handshake with an expired session drops it.
DropSession(x) ==
    /\ ~Valid(x)
    /\ db' = [db EXCEPT !.sessions = @ \ {x}]
    /\ UNCHANGED <<now, throttle, disk, issued, restarts>>

\* The request authenticates by the session itself or by a token.
Logout(x) ==
    /\ Valid(x) \/ \E t \in db.tokens : ~Expired(t)
    /\ db' = [db EXCEPT !.sessions = @ \ {x}]
    /\ UNCHANGED <<now, throttle, disk, issued, restarts>>

\* The calling session stays, with the new password.
ChangePassword(x) ==
    /\ Valid(x) /\ db.account # NoAccount
    /\ db.account.generation < MaxGeneration
    /\ LET generation == db.account.generation + 1
       IN  db' = [account |-> [db.account EXCEPT !.generation = generation],
                  sessions |-> {y \in db.sessions \ {x} : y.username # db.account.name}
                                 \cup {[Renewed(x) EXCEPT !.opened = generation]},
                  tokens |-> {}]
    /\ UNCHANGED <<now, throttle, disk, issued, restarts>>

-----------------------------------------------------------------------------
(* API tokens.  t ranges over the documents in db.                          *)

CreateToken(x, k, days) ==
    /\ Valid(x) /\ db.account # NoAccount
    /\ Draw(k)
    /\ LET expiry == IF days = Never THEN Never ELSE now + days
       IN  db' = [db EXCEPT
              !.sessions = AfterRenewal(x),
              !.tokens = @ \cup {[key |-> k, expiresAt |-> expiry,
                                  opened |-> db.account.generation]}]
    /\ UNCHANGED <<now, throttle, disk, restarts>>

RevokeToken(x, t) ==
    /\ Valid(x)
    /\ db' = [db EXCEPT !.sessions = AfterRenewal(x), !.tokens = @ \ {t}]
    /\ UNCHANGED <<now, throttle, disk, issued, restarts>>

\* A request with an expired token drops it.
DropToken(t) ==
    /\ Expired(t)
    /\ db' = [db EXCEPT !.tokens = @ \ {t}]
    /\ UNCHANGED <<now, throttle, disk, issued, restarts>>

-----------------------------------------------------------------------------
(* The process.                                                             *)

\* The hourly timer.
Sweep ==
    /\ db' = [db EXCEPT !.sessions = {x \in @ : Valid(x)},
                        !.tokens = {t \in @ : ~Expired(t)}]
    /\ UNCHANGED <<now, throttle, disk, issued, restarts>>

\* Saves after the last restart of the model would not be read.
Save ==
    /\ restarts < MaxRestarts
    /\ disk' = db
    /\ UNCHANGED <<now, throttle, db, issued, restarts>>

ProcessEnds ==
    /\ restarts < MaxRestarts
    /\ restarts' = restarts + 1
    /\ Forget
    /\ UNCHANGED <<now, issued>>

\* What was not saved is lost.
Restart ==
    /\ ProcessEnds
    /\ db' = disk
    /\ UNCHANGED disk

\* Variant: only the sessions of the new name are dropped.
ResetAdminNewName(n) ==
    /\ ProcessEnds
    /\ disk.account # NoAccount => disk.account.generation < MaxGeneration
    /\ LET generation == IF disk.account = NoAccount THEN 1 ELSE disk.account.generation + 1
       IN  disk' = [account |-> [name |-> n, generation |-> generation],
                    sessions |-> {x \in disk.sessions : x.username # n}, tokens |-> {}]
    /\ db' = disk'

\* The script runs while the back end is stopped, and saves.
ResetAdmin(n) ==
    /\ ProcessEnds /\ MaxGeneration > 0
    /\ disk.account # NoAccount => disk.account.generation < MaxGeneration
    /\ LET generation == IF disk.account = NoAccount THEN 1 ELSE disk.account.generation + 1
       IN  disk' = [account |-> [name |-> n, generation |-> generation],
                    sessions |-> {}, tokens |-> {}]
    /\ db' = disk'

Tick ==
    /\ TimePasses
    /\ UNCHANGED <<throttle, db, disk, issued, restarts>>

Sessions ==
    \/ \E n \in Name, k \in SessionKey : Register(n, k)
    \/ \E ip \in Ip : LoginFails(ip) \/ \E k \in SessionKey : LoginSucceeds(ip, k)
    \/ \E x \in db.sessions : UseSession(x) \/ DropSession(x) \/ Logout(x) \/ ChangePassword(x)

Tokens ==
    \/ \E x \in db.sessions, k \in TokenKey, days \in TokenDays \cup {Never} :
          CreateToken(x, k, days)
    \/ \E x \in db.sessions, t \in db.tokens : RevokeToken(x, t)
    \/ \E t \in db.tokens : DropToken(t)

Process == Sweep \/ Save \/ Restart \/ \E n \in Name : ResetAdmin(n)

Next == Sessions \/ Tokens \/ Process \/ Tick

Spec == Init /\ [][Next]_vars

-----------------------------------------------------------------------------
(* Properties.                                                              *)

\* README, "Password changes ... end all other sessions", "Changing the
\* password or running reset-admin revokes every token": whatever was opened
\* under an earlier password is gone, across restarts that lose changes, and
\* the sessions belong to the account as it is named now.
CredentialsFitAccount ==
    \A x \in db.sessions \cup db.tokens :
        /\ db.account # NoAccount
        /\ x.opened = db.account.generation
        /\ x \in db.sessions => x.username = db.account.name

\* "the login is kept for 7 days of activity": a session that nobody ends
\* goes only when it was not used for its duration, less one renewal throttle.
ActiveSessionsLast ==
    [][\A x \in db.sessions :
          (\A y \in db'.sessions : y.key # x.key) =>
              \/ now - x.used > SessionDuration - RenewThrottle
              \/ Logout(x)
              \/ db'.account # db.account
              \/ restarts' # restarts]_vars

\* A session that was not used for its duration authenticates nobody.
IdleSessionsEnd ==
    \A x \in db.sessions : Valid(x) => now < x.used + SessionDuration
=============================================================================
