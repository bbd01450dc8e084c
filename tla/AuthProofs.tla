----------------------------- MODULE AuthProofs -----------------------------
(***************************************************************************)
(* Proofs about Auth for any number of keys, names and restarts, any       *)
(* durations, and whatever is lost when the process ends.  The inductive   *)
(* invariant holds of the database in memory and of the saved one, so a    *)
(* restart preserves it whenever the last save was.  The throttle has an   *)
(* invariant of its own, for any number of addresses and free failures.    *)
(* What it needs of PowerOfTwo, DocumentedLock and TotalLock is that they  *)
(* exist and go on as their definitions say.                               *)
(***************************************************************************)
EXTENDS Auth, TLAPS, WellFoundedInduction

\* What was opened was opened by the account as it is.
Fits(d) ==
    /\ \A x \in d.sessions : /\ d.account # NoAccount
                             /\ x.opened = d.account.generation
                             /\ x.username = d.account.name
    /\ \A t \in d.tokens : d.account # NoAccount /\ t.opened = d.account.generation

\* The expiry counts from the last renewal, and no use is a whole throttle
\* after it.
Timed(x) ==
    /\ x.used <= now
    /\ x.updateTime <= x.used /\ x.used < x.updateTime + RenewThrottle
    /\ x.expiresAt = x.updateTime + SessionDuration

Sound(d) ==
    /\ d \in Database
    /\ Fits(d)
    /\ \A x \in d.sessions : Timed(x)

IInv == now \in Nat /\ restarts \in Nat /\ Sound(db) /\ Sound(disk)

-----------------------------------------------------------------------------
(* Single sessions.                                                         *)

LEMMA RenewedIsSound ==
  ASSUME now \in Nat, NEW x \in Session, Timed(x)
  PROVE  /\ Renewed(x) \in Session /\ Timed(Renewed(x))
         /\ Renewed(x).key = x.key /\ Renewed(x).opened = x.opened
         /\ Renewed(x).username = x.username
<1> USE AuthAssumption DEF Session, Timed
<1>1. CASE now - x.updateTime < RenewThrottle
  <2>1. Renewed(x) = [x EXCEPT !.used = now]
    BY <1>1 DEF Renewed
  <2>2. /\ Renewed(x) \in Session /\ Renewed(x).used = now
        /\ Renewed(x).updateTime = x.updateTime /\ Renewed(x).expiresAt = x.expiresAt
        /\ Renewed(x).key = x.key /\ Renewed(x).opened = x.opened
        /\ Renewed(x).username = x.username
    BY <2>1
  <2> QED BY <1>1, <2>2
<1>2. CASE ~(now - x.updateTime < RenewThrottle)
  <2> DEFINE e == now + SessionDuration
  <2>1. e \in Nat
    OBVIOUS
  <2>2. Renewed(x) = [x EXCEPT !.used = now, !.updateTime = now, !.expiresAt = e]
    BY <1>2 DEF Renewed
  <2>3. e = now + SessionDuration
    OBVIOUS
  <2> HIDE DEF e
  <2>4. Renewed(x) \in Session
    BY <2>1, <2>2
  <2>5. /\ Renewed(x).used = now /\ Renewed(x).updateTime = now
        /\ Renewed(x).expiresAt = e
    BY <2>2
  <2>6. /\ Renewed(x).key = x.key /\ Renewed(x).opened = x.opened
        /\ Renewed(x).username = x.username
    BY <2>2
  <2> QED BY <2>3, <2>4, <2>5, <2>6
<1> QED BY <1>1, <1>2

LEMMA NewIsSound ==
  ASSUME now \in Nat, NEW k \in SessionKey, NEW a \in Account
  PROVE  /\ NewSession(k, a) \in Session /\ Timed(NewSession(k, a))
         /\ NewSession(k, a).opened = a.generation /\ NewSession(k, a).username = a.name
BY AuthAssumption DEF Session, Account, Timed, NewSession

\* Renewing one session leaves a sound database.
LEMMA RenewalIsSound ==
  ASSUME now \in Nat, Sound(db), NEW x \in db.sessions, NEW T \in SUBSET Token,
         \A t \in T : db.account # NoAccount /\ t.opened = db.account.generation
  PROVE  Sound([db EXCEPT !.sessions = AfterRenewal(x), !.tokens = T])
<1> DEFINE d == [db EXCEPT !.sessions = AfterRenewal(x), !.tokens = T]
<1>1. x \in Session /\ Timed(x)
  BY DEF Sound, Database
<1>2. d.account = db.account /\ d.sessions = AfterRenewal(x) /\ d.tokens = T
  BY DEF Sound, Database
<1>3. \A y \in AfterRenewal(x) : y \in db.sessions \/ y = Renewed(x)
  BY DEF AfterRenewal
<1>4. d \in Database
  BY <1>1, <1>3, RenewedIsSound DEF Sound, Database
<1>5. Fits(d)
  <2>1. \A y \in AfterRenewal(x) : /\ db.account # NoAccount
                                   /\ y.opened = db.account.generation
                                   /\ y.username = db.account.name
    BY <1>1, <1>3, RenewedIsSound DEF Sound, Fits
  <2> HIDE DEF d
  <2> QED BY <1>2, <2>1 DEF Fits
<1>6. \A y \in AfterRenewal(x) : Timed(y)
  BY <1>1, <1>3, RenewedIsSound DEF Sound
<1> HIDE DEF d
<1>7. Sound(d)
  BY <1>2, <1>4, <1>5, <1>6 DEF Sound
<1> QED BY <1>7 DEF d

\* So does dropping documents.
LEMMA RemovalIsSound ==
  ASSUME Sound(db), NEW S \in SUBSET db.sessions, NEW T \in SUBSET db.tokens
  PROVE  Sound([db EXCEPT !.sessions = S, !.tokens = T])
<1> DEFINE d == [db EXCEPT !.sessions = S, !.tokens = T]
<1>1. d.account = db.account /\ d.sessions = S /\ d.tokens = T /\ d \in Database
  BY DEF Sound, Database
<1> HIDE DEF d
<1>2. Sound(d)
  BY <1>1 DEF Sound, Fits
<1> QED BY <1>2 DEF d

-----------------------------------------------------------------------------
LEMMA InitInv == Init => IInv
BY DEF Init, ThrottleInit, Empty, IInv, Sound, Database, Fits

\* Soundness of a database does not depend on the time, once it holds.
LEMMA Later ==
  ASSUME now \in Nat, now' \in Nat, now' >= now, NEW d, Sound(d)
  PROVE  /\ d \in Database /\ Fits(d)
         /\ \A x \in d.sessions : /\ x.used <= now'
                                  /\ x.updateTime <= x.used
                                  /\ x.used < x.updateTime + RenewThrottle
                                  /\ x.expiresAt = x.updateTime + SessionDuration
BY DEF Sound, Timed, Database, Session

LEMMA RegisterInv == ASSUME IInv, NEW n \in Name, NEW k \in SessionKey, Register(n, k) PROVE Sound(db)'
<1> DEFINE a == [name |-> n, generation |-> 1]
<1>1. a \in Account /\ a # NoAccount
  BY AuthAssumption DEF Register, Account
<1>2. db.sessions = {} /\ db.tokens = {}
  BY DEF IInv, Sound, Fits, Register
<1>3. /\ db'.account = a /\ db'.sessions = {NewSession(k, a)} /\ db'.tokens = {}
      /\ now' = now
  BY <1>2 DEF IInv, Sound, Database, Register
<1>4. db' = [account |-> a, sessions |-> {NewSession(k, a)}, tokens |-> {}]
  BY <1>2 DEF IInv, Sound, Database, Register
<1>5. /\ NewSession(k, a) \in Session /\ Timed(NewSession(k, a))
      /\ NewSession(k, a).opened = a.generation /\ NewSession(k, a).username = a.name
  BY <1>1, NewIsSound DEF IInv
<1> HIDE DEF a
<1>6. db' \in Database
  BY <1>1, <1>4, <1>5 DEF Database
<1>7. Fits(db')
  BY <1>1, <1>3, <1>5 DEF Fits
<1> QED BY <1>3, <1>5, <1>6, <1>7 DEF Sound, Timed

LEMMA LoginInv ==
  ASSUME IInv, NEW ip \in Ip, NEW k \in SessionKey, LoginSucceeds(ip, k)
  PROVE  Sound(db)'
<1> DEFINE s == NewSession(k, db.account)
<1>1. db.account \in Account /\ db.account # NoAccount
  BY DEF IInv, Sound, Database, LoginSucceeds
<1>2. /\ db'.account = db.account /\ db'.sessions = db.sessions \cup {s}
      /\ db'.tokens = db.tokens /\ now' = now
  BY DEF IInv, Sound, Database, LoginSucceeds
<1>3. /\ s \in Session /\ Timed(s)
      /\ s.opened = db.account.generation /\ s.username = db.account.name
  BY <1>1, NewIsSound DEF IInv
<1>4. db' = [db EXCEPT !.sessions = @ \cup {s}]
  BY DEF LoginSucceeds
<1> HIDE DEF s
<1>5. db' \in Database
  BY <1>3, <1>4 DEF IInv, Sound, Database
<1>6. Fits(db')
  BY <1>1, <1>2, <1>3 DEF IInv, Sound, Fits
<1>7. \A x \in db'.sessions : Timed(x)
  BY <1>2, <1>3 DEF IInv, Sound
<1> QED BY <1>2, <1>5, <1>6, <1>7 DEF Sound, Timed

LEMMA ChangeInv == ASSUME IInv, NEW x \in db.sessions, ChangePassword(x) PROVE Sound(db)'
<1> DEFINE g == db.account.generation + 1
           s == [Renewed(x) EXCEPT !.opened = g]
           a == [db.account EXCEPT !.generation = g]
<1>1. /\ db.account \in Account /\ g \in 1 .. MaxGeneration /\ now \in Nat
      /\ x \in Session /\ Timed(x) /\ x.username = db.account.name
  BY AuthAssumption DEF IInv, Sound, Database, Account, Fits, ChangePassword
<1>2. a \in Account /\ a.generation = g /\ a.name = db.account.name /\ a # NoAccount
  BY <1>1, AuthAssumption DEF Account
<1>3. /\ Renewed(x) \in Session /\ Timed(Renewed(x)) /\ Renewed(x).username = db.account.name
  BY <1>1, RenewedIsSound
<1>4. /\ s \in Session /\ Timed(s) /\ s.opened = g /\ s.username = db.account.name
  BY <1>1, <1>3 DEF Session, Timed
<1>5. \A y \in db.sessions : y.username = db.account.name
  BY DEF IInv, Sound, Fits
<1>6. db' = [account |-> a, sessions |-> {s}, tokens |-> {}] /\ now' = now
  <2>1. {y \in db.sessions \ {x} : y.username # db.account.name} = {}
    BY <1>5
  <2> QED BY <2>1 DEF ChangePassword
<1> HIDE DEF g, s, a
<1>7. db' \in Database
  BY <1>2, <1>4, <1>6 DEF Database
<1>8. Fits(db')
  BY <1>2, <1>4, <1>6 DEF Fits
<1> QED BY <1>4, <1>6, <1>7, <1>8 DEF Sound, Timed

LEMMA CreateTokenInv ==
  ASSUME IInv, NEW x \in db.sessions, NEW k \in TokenKey, NEW days \in TokenDays \cup {Never},
         CreateToken(x, k, days)
  PROVE  Sound(db)'
<1> DEFINE expiry == IF days = Never THEN Never ELSE now + days
           t == [key |-> k, expiresAt |-> expiry, opened |-> db.account.generation]
           T == db.tokens \cup {t}
<1>1. t \in Token
  BY AuthAssumption DEF IInv, Sound, Database, Account, CreateToken, Token
<1>2. T \in SUBSET Token
  BY <1>1 DEF IInv, Sound, Database
<1>3. \A u \in T : db.account # NoAccount /\ u.opened = db.account.generation
  BY DEF IInv, Sound, Fits, CreateToken
<1>4. db' = [db EXCEPT !.sessions = AfterRenewal(x), !.tokens = T] /\ now' = now
  BY DEF CreateToken
<1> HIDE DEF T
<1>5. Sound([db EXCEPT !.sessions = AfterRenewal(x), !.tokens = T])
  BY <1>2, <1>3, RenewalIsSound DEF IInv
<1> QED BY <1>4, <1>5 DEF Sound, Timed

LEMMA ResetInv == ASSUME IInv, NEW n \in Name, ResetAdmin(n) PROVE Sound(db)' /\ Sound(disk)'
<1> DEFINE g == IF disk.account = NoAccount THEN 1 ELSE disk.account.generation + 1
           d == [account |-> [name |-> n, generation |-> g], sessions |-> {}, tokens |-> {}]
<1>1. g \in 1 .. MaxGeneration
  BY AuthAssumption DEF IInv, Sound, Database, Account, ResetAdmin
<1>2. db' = d /\ disk' = d
  BY DEF ResetAdmin
<1>3. d \in Database
  BY <1>1 DEF Database, Account
<1> QED BY <1>2, <1>3 DEF Sound, Fits

LEMMA NextInv == IInv /\ [Next]_vars => IInv'
<1> SUFFICES ASSUME IInv, [Next]_vars PROVE IInv'
  OBVIOUS
<1>1. /\ Sound(db) /\ Sound(disk) /\ now \in Nat
  BY DEF IInv
<1>2. ASSUME UNCHANGED now, restarts' \in Nat, Sound(disk)', Sound(db)' PROVE IInv'
  BY <1>1, <1>2 DEF IInv
<1>3. ASSUME UNCHANGED <<now, disk, restarts>>, Sound(db)' PROVE IInv'
  BY <1>1, <1>3 DEF IInv, Sound, Timed
<1>4. ASSUME UNCHANGED now, NEW d, Sound(d), db' = d PROVE Sound(db)'
  BY <1>4 DEF Sound, Timed
<1>5. ASSUME NEW n \in Name, NEW k \in SessionKey, Register(n, k) PROVE IInv'
  BY <1>3, <1>5, RegisterInv DEF Register
<1>6. ASSUME NEW ip \in Ip, LoginFails(ip) PROVE IInv'
  BY <1>1, <1>3, <1>4, <1>6 DEF LoginFails
<1>7. ASSUME NEW ip \in Ip, NEW k \in SessionKey, LoginSucceeds(ip, k) PROVE IInv'
  BY <1>3, <1>7, LoginInv DEF LoginSucceeds
<1>8. ASSUME NEW x \in db.sessions, UseSession(x) PROVE IInv'
  <2>1. db' = [db EXCEPT !.sessions = AfterRenewal(x), !.tokens = db.tokens]
    BY <1>1, <1>8 DEF UseSession, Sound, Database
  <2>2. Sound([db EXCEPT !.sessions = AfterRenewal(x), !.tokens = db.tokens])
    BY <1>1, RenewalIsSound DEF Sound, Database, Fits
  <2> QED BY <1>3, <1>4, <1>8, <2>1, <2>2 DEF UseSession
<1>9. ASSUME NEW x \in db.sessions, DropSession(x) \/ Logout(x) PROVE IInv'
  <2>1. db' = [db EXCEPT !.sessions = db.sessions \ {x}, !.tokens = db.tokens]
    BY <1>1, <1>9 DEF DropSession, Logout, Sound, Database
  <2>2. Sound([db EXCEPT !.sessions = db.sessions \ {x}, !.tokens = db.tokens])
    BY <1>1, RemovalIsSound
  <2> QED BY <1>3, <1>4, <1>9, <2>1, <2>2 DEF DropSession, Logout
<1>10. ASSUME NEW x \in db.sessions, ChangePassword(x) PROVE IInv'
  BY <1>3, <1>10, ChangeInv DEF ChangePassword
<1>11. ASSUME NEW x \in db.sessions, NEW k \in TokenKey, NEW days \in TokenDays \cup {Never},
              CreateToken(x, k, days)
       PROVE  IInv'
  BY <1>3, <1>11, CreateTokenInv DEF CreateToken
<1>12. ASSUME NEW x \in db.sessions, NEW t \in db.tokens, RevokeToken(x, t) PROVE IInv'
  <2>1. db' = [db EXCEPT !.sessions = AfterRenewal(x), !.tokens = db.tokens \ {t}]
    BY <1>1, <1>12 DEF RevokeToken, Sound, Database
  <2>2. Sound([db EXCEPT !.sessions = AfterRenewal(x), !.tokens = db.tokens \ {t}])
    <3> DEFINE T == db.tokens \ {t}
    <3>1. T \in SUBSET Token
      BY <1>1 DEF Sound, Database
    <3>2. \A u \in T : db.account # NoAccount /\ u.opened = db.account.generation
      BY <1>1 DEF Sound, Fits
    <3> HIDE DEF T
    <3>3. Sound([db EXCEPT !.sessions = AfterRenewal(x), !.tokens = T])
      BY <1>1, <3>1, <3>2, RenewalIsSound
    <3> QED BY <3>3 DEF T
  <2> QED BY <1>3, <1>4, <1>12, <2>1, <2>2 DEF RevokeToken
<1>13. ASSUME NEW t \in db.tokens, DropToken(t) PROVE IInv'
  <2>1. db' = [db EXCEPT !.sessions = db.sessions, !.tokens = db.tokens \ {t}]
    BY <1>1, <1>13 DEF DropToken, Sound, Database
  <2>2. Sound([db EXCEPT !.sessions = db.sessions, !.tokens = db.tokens \ {t}])
    BY <1>1, RemovalIsSound
  <2> QED BY <1>3, <1>4, <1>13, <2>1, <2>2 DEF DropToken
<1>14. CASE Sweep
  <2> DEFINE S == {x \in db.sessions : Valid(x)}
             T == {t \in db.tokens : ~Expired(t)}
  <2>1. db' = [db EXCEPT !.sessions = S, !.tokens = T]
    BY <1>1, <1>14 DEF Sweep, Sound, Database
  <2>2. Sound([db EXCEPT !.sessions = S, !.tokens = T])
    BY <1>1, RemovalIsSound
  <2> HIDE DEF S, T
  <2> QED BY <1>3, <1>4, <1>14, <2>1, <2>2 DEF Sweep
<1>15. CASE Save
  BY <1>1, <1>15 DEF Save, IInv, Sound, Timed
<1>16. CASE Restart
  BY <1>1, <1>16 DEF Restart, ProcessEnds, IInv, Sound, Timed
<1>17. ASSUME NEW n \in Name, ResetAdmin(n) PROVE IInv'
  BY <1>2, <1>17, ResetInv DEF IInv, ResetAdmin, ProcessEnds
<1>18. CASE Tick
  <2>1. now' \in Nat /\ now' >= now /\ db' = db /\ disk' = disk /\ restarts' \in Nat
    BY <1>1, <1>18 DEF IInv, Tick, TimePasses
  <2>2. Sound(db)' /\ Sound(disk)'
    BY <1>1, <2>1, Later DEF Sound, Timed
  <2> QED BY <2>1, <2>2 DEF IInv
<1>19. CASE UNCHANGED vars
  BY <1>1, <1>3, <1>4, <1>19 DEF vars
<1> QED
  BY <1>5, <1>6, <1>7, <1>8, <1>9, <1>10, <1>11, <1>12, <1>13, <1>14, <1>15, <1>16, <1>17,
     <1>18, <1>19 DEF Next, Sessions, Tokens, Process

\* The inductive invariant holds in every state, in memory and on disk.
THEOREM Invariant == Spec => []IInv
BY InitInv, NextInv, PTL DEF Spec

-----------------------------------------------------------------------------
\* Whatever an earlier password opened is gone, and the sessions are those of
\* the account as it is named now, also after restarts that lose changes.
THEOREM OldCredentialsAreGone == Spec => []CredentialsFitAccount
<1>1. IInv => CredentialsFitAccount
  BY DEF IInv, Sound, Fits, CredentialsFitAccount
<1> QED BY <1>1, Invariant, PTL

\* A session authenticates nobody once it was unused for its duration.
THEOREM UnusedSessionsExpire == Spec => []IdleSessionsEnd
<1>1. IInv => IdleSessionsEnd
  BY AuthAssumption DEF IInv, Sound, Timed, Database, Session, IdleSessionsEnd, Valid
<1> QED BY <1>1, Invariant, PTL

-----------------------------------------------------------------------------
\* A session whose expiry has come was idle for almost its whole duration.
LEMMA ExpiredIsIdle ==
  ASSUME IInv, NEW x \in db.sessions, ~Valid(x)
  PROVE  now - x.used > SessionDuration - RenewThrottle
BY AuthAssumption DEF IInv, Sound, Timed, Database, Session, Valid

Stays(x) == \E y \in db'.sessions : y.key = x.key

Ends(x) ==
    \/ now - x.used > SessionDuration - RenewThrottle
    \/ Logout(x)
    \/ db'.account # db.account
    \/ restarts' # restarts

LEMMA RenewalKeeps ==
  ASSUME IInv, NEW x \in db.sessions, NEW y \in db.sessions, db'.sessions = AfterRenewal(y)
  PROVE  Stays(x)
BY RenewedIsSound DEF IInv, Sound, Database, Stays, AfterRenewal

LEMMA StepKeepsOrEnds == ASSUME IInv, Next, NEW x \in db.sessions PROVE Stays(x) \/ Ends(x)
<1>1. db \in Database
  BY DEF IInv, Sound
<1>2. ASSUME db.sessions \subseteq db'.sessions PROVE Stays(x)
  BY <1>2 DEF Stays
<1>3. ASSUME NEW n \in Name, NEW k \in SessionKey, Register(n, k) PROVE Stays(x)
  BY <1>1, <1>2, <1>3 DEF Register, Database
<1>4. ASSUME NEW ip \in Ip, LoginFails(ip) PROVE Stays(x)
  BY <1>2, <1>4 DEF LoginFails
<1>5. ASSUME NEW ip \in Ip, NEW k \in SessionKey, LoginSucceeds(ip, k) PROVE Stays(x)
  BY <1>1, <1>2, <1>5 DEF LoginSucceeds, Database
<1>6. ASSUME NEW y \in db.sessions, UseSession(y) PROVE Stays(x)
  BY <1>1, <1>6, RenewalKeeps DEF UseSession, Database
<1>7. ASSUME NEW y \in db.sessions, DropSession(y) PROVE Stays(x) \/ Ends(x)
  <2>1. CASE y = x
    BY <1>7, <2>1, ExpiredIsIdle DEF DropSession, Ends
  <2>2. CASE y # x
    BY <1>1, <1>7, <2>2 DEF DropSession, Database, Stays
  <2> QED BY <2>1, <2>2
<1>8. ASSUME NEW y \in db.sessions, Logout(y) PROVE Stays(x) \/ Ends(x)
  <2>1. CASE y = x
    BY <1>8, <2>1 DEF Ends
  <2>2. CASE y # x
    BY <1>1, <1>8, <2>2 DEF Logout, Database, Stays
  <2> QED BY <2>1, <2>2
<1>9. ASSUME NEW y \in db.sessions, ChangePassword(y) PROVE Ends(x)
  <2>1. db.account \in Account /\ db.account.generation \in Nat
    BY <1>1, <1>9, AuthAssumption DEF ChangePassword, Database, Account
  <2>2. db'.account.generation = db.account.generation + 1
    BY <1>9, <2>1 DEF ChangePassword, Account
  <2> QED BY <2>1, <2>2 DEF Ends
<1>10. ASSUME NEW y \in db.sessions, NEW k \in TokenKey, NEW days \in TokenDays \cup {Never},
              CreateToken(y, k, days)
       PROVE  Stays(x)
  <2>1. db'.sessions = AfterRenewal(y)
    BY <1>1, <1>10 DEF CreateToken, Database
  <2> QED BY <2>1, RenewalKeeps
<1>11. ASSUME NEW y \in db.sessions, NEW t \in db.tokens, RevokeToken(y, t) PROVE Stays(x)
  <2>1. db'.sessions = AfterRenewal(y)
    BY <1>1, <1>11 DEF RevokeToken, Database
  <2> QED BY <2>1, RenewalKeeps
<1>12. ASSUME NEW t \in db.tokens, DropToken(t) PROVE Stays(x)
  BY <1>1, <1>2, <1>12 DEF DropToken, Database
<1>13. CASE Sweep
  <2>1. db'.sessions = {y \in db.sessions : Valid(y)}
    BY <1>1, <1>13 DEF Sweep, Database
  <2> QED BY <2>1, ExpiredIsIdle DEF Stays, Ends
<1>14. CASE Save \/ Tick
  BY <1>2, <1>14 DEF Save, Tick
<1>15. CASE ProcessEnds
  BY <1>15 DEF IInv, ProcessEnds, Ends
<1> QED
  BY <1>3, <1>4, <1>5, <1>6, <1>7, <1>8, <1>9, <1>10, <1>11, <1>12, <1>13, <1>14, <1>15
     DEF Next, Sessions, Tokens, Process, Restart, ResetAdmin

\* A session that nobody ends goes only after it was idle for its duration,
\* less one renewal throttle.
THEOREM UsedSessionsStay == Spec => ActiveSessionsLast
<1>1. ASSUME IInv, [Next]_vars
      PROVE  [\A x \in db.sessions :
                (\A y \in db'.sessions : y.key # x.key) => Ends(x)]_vars
  BY <1>1, StepKeepsOrEnds DEF Stays
<1> QED BY <1>1, Invariant, PTL DEF Spec, ActiveSessionsLast, Ends

-----------------------------------------------------------------------------
(* Recursion on natural numbers: the functions of the throttle are defined  *)
(* by it.                                                                   *)

LEMMA NaturalInduction ==
  ASSUME NEW T, 0 \in T, \A n \in Nat : n \in T => n + 1 \in T
  PROVE  Nat \subseteq T
<1> SUFFICES ASSUME Nat \ T # {} PROVE FALSE
  OBVIOUS
<1>1. Nat \ T \subseteq Nat
  OBVIOUS
<1>2. PICK m \in Nat \ T : \A n \in Nat \ T : <<n, m>> \notin OpToRel(<, Nat)
  BY <1>1, NatLessThanWellFounded, WFMin
<1>3. \A n \in Nat \ T : ~(n < m)
  BY <1>2 DEF OpToRel
<1>4. m \in Nat /\ m \notin T
  BY <1>2
<1>5. m # 0
  BY <1>4
<1>6. m - 1 \in Nat /\ m - 1 < m /\ (m - 1) + 1 = m
  BY <1>4, <1>5
<1>7. m - 1 \in T
  BY <1>3, <1>6
<1>8. (m - 1) + 1 \in T
  BY <1>6, <1>7
<1> QED BY <1>4, <1>6, <1>8

\* f starts with zero and goes on with step, up to k.
Recurs(f, zero, step, k) ==
    /\ f[0] = zero
    /\ \A n \in 0 .. k - 1 : f[n + 1] = step[n + 1][f[n]]

\* f starts with zero and goes on with step.
Follows(f, zero, step) == f[0] = zero /\ \A n \in Nat : f[n + 1] = step[n + 1][f[n]]

\* A start and a step determine a function.
LEMMA NatRecursion ==
  ASSUME NEW V, NEW zero \in V, NEW step \in [Nat -> [V -> V]]
  PROVE  \E f \in [Nat -> V] : Follows(f, zero, step)
<1> DEFINE Defined == {k \in Nat : \E f \in [Nat -> V] : Recurs(f, zero, step, k)}
<1>1. Nat \subseteq Defined
  <2>1. 0 \in Defined
    <3> DEFINE f == [n \in Nat |-> zero]
    <3>1. f \in [Nat -> V] /\ Recurs(f, zero, step, 0)
      BY DEF Recurs
    <3> QED BY <3>1
  <2>2. ASSUME NEW k \in Nat, k \in Defined PROVE k + 1 \in Defined
    <3>1. PICK f \in [Nat -> V] : Recurs(f, zero, step, k)
      BY <2>2
    <3> DEFINE next == step[k + 1][f[k]]
               g == [n \in Nat |-> IF n = k + 1 THEN next ELSE f[n]]
    <3>2. next \in V
      OBVIOUS
    <3>3. g \in [Nat -> V]
      BY <3>2
    <3>4. g[0] = zero
      BY <3>1 DEF Recurs
    <3>5. ASSUME NEW n \in 0 .. k PROVE g[n + 1] = step[n + 1][g[n]]
      <4>1. CASE n = k
        BY <4>1
      <4>2. CASE n # k
        BY <3>1, <4>2 DEF Recurs
      <4> QED BY <4>1, <4>2
    <3>6. Recurs(g, zero, step, k + 1)
      BY <3>4, <3>5 DEF Recurs
    <3> QED BY <3>3, <3>6
  <2> HIDE DEF Defined
  <2> QED BY <2>1, <2>2, NaturalInduction
<1> DEFINE upTo == [k \in Nat |-> CHOOSE f \in [Nat -> V] : Recurs(f, zero, step, k)]
<1>2. ASSUME NEW k \in Nat PROVE upTo[k] \in [Nat -> V] /\ Recurs(upTo[k], zero, step, k)
  BY <1>1
<1> HIDE DEF upTo
<1>3. ASSUME NEW k \in Nat PROVE \A n \in Nat : n <= k => upTo[k][n] = upTo[n][n]
  <2> DEFINE T == {n \in Nat : \A l \in Nat : n <= l => upTo[l][n] = upTo[n][n]}
  <2>1. 0 \in T
    BY <1>2 DEF Recurs
  <2>2. ASSUME NEW n \in Nat, n \in T PROVE n + 1 \in T
    <3>1. ASSUME NEW l \in Nat, n + 1 <= l PROVE upTo[l][n + 1] = step[n + 1][upTo[n][n]]
      <4>1. n \in 0 .. l - 1
        BY <3>1
      <4>2. upTo[l][n + 1] = step[n + 1][upTo[l][n]]
        BY <1>2, <4>1 DEF Recurs
      <4>3. upTo[l][n] = upTo[n][n]
        BY <2>2, <3>1
      <4> QED BY <4>2, <4>3
    <3> QED BY <3>1
  <2> HIDE DEF T
  <2>3. Nat \subseteq T
    BY <2>1, <2>2, NaturalInduction
  <2> QED BY <2>3 DEF T
<1> DEFINE f == [n \in Nat |-> upTo[n][n]]
<1>4. f \in [Nat -> V] /\ f[0] = zero
  BY <1>2 DEF Recurs
<1>5. ASSUME NEW n \in Nat PROVE f[n + 1] = step[n + 1][f[n]]
  <2>1. upTo[n + 1][n + 1] = step[n + 1][upTo[n + 1][n]]
    BY <1>2 DEF Recurs
  <2>2. upTo[n + 1][n] = upTo[n][n]
    BY <1>3
  <2> QED BY <2>1, <2>2
<1> QED BY <1>4, <1>5 DEF Follows

LEMMA PowerOfTwoIs ==
  /\ \A n \in Nat : PowerOfTwo[n] \in Nat \ {0}
  /\ PowerOfTwo[0] = 1
  /\ \A n \in Nat : PowerOfTwo[n + 1] = 2 * PowerOfTwo[n]
<1> DEFINE V == Nat \ {0}
           step == [n \in Nat |-> [v \in V |-> 2 * v]]
           Is(f) == f = [n \in Nat |-> IF n = 0 THEN 1 ELSE 2 * f[n - 1]]
<1>1. step \in [Nat -> [V -> V]] /\ 1 \in V /\ \A n \in Nat, v \in V : step[n][v] = 2 * v
  OBVIOUS
<1>2. PICK f \in [Nat -> V] : Follows(f, 1, step)
  <2> HIDE DEF V, step, Is
  <2> QED BY <1>1, NatRecursion
<1>3. f[0] = 1 /\ \A n \in Nat : f[n] \in V /\ f[n + 1] = 2 * f[n]
  <2> HIDE DEF V, step
  <2> QED BY <1>1, <1>2 DEF Follows
<1>4. \A n \in Nat : n # 0 => n - 1 \in Nat /\ (n - 1) + 1 = n
  OBVIOUS
<1>5. \A n \in Nat : f[n] = IF n = 0 THEN 1 ELSE 2 * f[n - 1]
  BY <1>3, <1>4
<1>6. Is(f)
  BY <1>5
<1>7. Is(PowerOfTwo)
  <2>1. PowerOfTwo = CHOOSE g : Is(g)
    BY DEF PowerOfTwo
  <2> HIDE DEF Is
  <2> QED BY <1>6, <2>1
<1>8. PowerOfTwo[0] = 1 /\ \A n \in Nat : PowerOfTwo[n + 1] = 2 * PowerOfTwo[n]
  BY <1>7
<1>9. \A n \in Nat : PowerOfTwo[n] = f[n]
  <2> DEFINE T == {n \in Nat : PowerOfTwo[n] = f[n]}
  <2>1. 0 \in T
    BY <1>3, <1>8
  <2>2. ASSUME NEW n \in Nat, n \in T PROVE n + 1 \in T
    BY <1>3, <1>8, <2>2
  <2> HIDE DEF T
  <2>3. Nat \subseteq T
    BY <2>1, <2>2, NaturalInduction
  <2> QED BY <2>3 DEF T
<1> QED BY <1>3, <1>8, <1>9

\* The lock after another failure, given the one before.
NextLock(n, lock) ==
    IF n < FreeFailures THEN 0
    ELSE IF n = FreeFailures THEN 1
    ELSE IF 2 * lock < MaxLock THEN 2 * lock ELSE MaxLock

LEMMA DocumentedLockIs ==
  /\ \A n \in Nat : DocumentedLock[n] \in Nat
  /\ DocumentedLock[0] = 0
  /\ \A n \in Nat : DocumentedLock[n + 1] = NextLock(n + 1, DocumentedLock[n])
<1> USE ThrottleAssumption
<1> DEFINE V == Nat
           step == [n \in Nat |-> [v \in Nat |-> NextLock(n, v)]]
           Is(f) == f = [n \in Nat |-> NextLock(n, f[n - 1])]
<1>1. /\ step \in [Nat -> [V -> V]] /\ 0 \in V
      /\ \A n \in Nat, v \in V : step[n][v] = NextLock(n, v)
  BY DEF NextLock
<1>2. PICK f \in [Nat -> V] : Follows(f, 0, step)
  <2> HIDE DEF V, step, Is
  <2> QED BY <1>1, NatRecursion
<1>3. f[0] = 0 /\ \A n \in Nat : f[n] \in Nat /\ f[n + 1] = NextLock(n + 1, f[n])
  <2> HIDE DEF step, Is
  <2>1. f[0] = 0
    BY <1>2 DEF Follows
  <2>2. ASSUME NEW n \in Nat PROVE f[n] \in Nat /\ f[n + 1] = NextLock(n + 1, f[n])
    <3>1. n + 1 \in Nat /\ f[n] \in Nat
      BY <1>2
    <3>2. f[n + 1] = step[n + 1][f[n]]
      BY <1>2 DEF Follows
    <3> QED BY <1>1, <3>1, <3>2
  <2> QED BY <2>1, <2>2
<1>4. \A n \in Nat : n # 0 => n - 1 \in Nat /\ (n - 1) + 1 = n
  OBVIOUS
<1>5. \A v : NextLock(0, v) = 0
  BY DEF NextLock
<1>6. \A n \in Nat : f[n] = NextLock(n, f[n - 1])
  BY <1>3, <1>4, <1>5
<1>7. Is(f)
  BY <1>6
<1>8. Is(DocumentedLock)
  <2>1. DocumentedLock = CHOOSE g : Is(g)
    BY DEF DocumentedLock, NextLock
  <2> HIDE DEF Is
  <2> QED BY <1>7, <2>1
<1>9. /\ DocumentedLock[0] = 0
      /\ \A n \in Nat : DocumentedLock[n + 1] = NextLock(n + 1, DocumentedLock[n])
  BY <1>5, <1>8
<1>10. \A n \in Nat : DocumentedLock[n] = f[n]
  <2> DEFINE T == {n \in Nat : DocumentedLock[n] = f[n]}
  <2>1. 0 \in T
    BY <1>3, <1>9
  <2>2. ASSUME NEW n \in Nat, n \in T PROVE n + 1 \in T
    BY <1>3, <1>9, <2>2
  <2> HIDE DEF T
  <2>3. Nat \subseteq T
    BY <2>1, <2>2, NaturalInduction
  <2> QED BY <2>3 DEF T
<1> QED BY <1>3, <1>9, <1>10

LEMMA TotalLockIs ==
  /\ \A n \in Nat : TotalLock[n] \in Nat
  /\ TotalLock[0] = 0
  /\ \A n \in Nat : TotalLock[n + 1] = DocumentedLock[n + 1] + TotalLock[n]
<1> DEFINE V == Nat
           step == [n \in Nat |-> [v \in Nat |-> DocumentedLock[n] + v]]
           Is(f) == f = [n \in Nat |-> IF n = 0 THEN 0 ELSE DocumentedLock[n] + f[n - 1]]
<1>1. /\ step \in [Nat -> [V -> V]] /\ 0 \in V
      /\ \A n \in Nat, v \in V : step[n][v] = DocumentedLock[n] + v
  BY DocumentedLockIs
<1>2. PICK f \in [Nat -> V] : Follows(f, 0, step)
  <2> HIDE DEF V, step, Is
  <2> QED BY <1>1, NatRecursion
<1>3. f[0] = 0 /\ \A n \in Nat : f[n] \in Nat /\ f[n + 1] = DocumentedLock[n + 1] + f[n]
  <2> HIDE DEF step, Is
  <2>1. f[0] = 0
    BY <1>2 DEF Follows
  <2>2. ASSUME NEW n \in Nat PROVE f[n] \in Nat /\ f[n + 1] = DocumentedLock[n + 1] + f[n]
    <3>1. n + 1 \in Nat /\ f[n] \in Nat
      BY <1>2
    <3>2. f[n + 1] = step[n + 1][f[n]]
      BY <1>2 DEF Follows
    <3> QED BY <1>1, <3>1, <3>2
  <2> QED BY <2>1, <2>2
<1>4. \A n \in Nat : n # 0 => n - 1 \in Nat /\ (n - 1) + 1 = n
  OBVIOUS
<1>5. \A n \in Nat : f[n] = IF n = 0 THEN 0 ELSE DocumentedLock[n] + f[n - 1]
  BY <1>3, <1>4
<1>6. Is(f)
  BY <1>5
<1>7. Is(TotalLock)
  <2>1. TotalLock = CHOOSE g : Is(g)
    BY DEF TotalLock
  <2> HIDE DEF Is
  <2> QED BY <1>6, <2>1
<1>8. TotalLock[0] = 0 /\ \A n \in Nat : TotalLock[n + 1] = DocumentedLock[n + 1] + TotalLock[n]
  BY <1>7
<1>9. \A n \in Nat : TotalLock[n] = f[n]
  <2> DEFINE T == {n \in Nat : TotalLock[n] = f[n]}
  <2>1. 0 \in T
    BY <1>3, <1>8
  <2>2. ASSUME NEW n \in Nat, n \in T PROVE n + 1 \in T
    BY <1>3, <1>8, <2>2
  <2> HIDE DEF T
  <2>3. Nat \subseteq T
    BY <2>1, <2>2, NaturalInduction
  <2> QED BY <2>3 DEF T
<1> QED BY <1>3, <1>8, <1>9

\* The lock that the code computes is the documented one.
LEMMA LocksAreDocumented ==
  ASSUME NEW n \in Nat, n >= FreeFailures
  PROVE  LockMinutes(n) = DocumentedLock[n] /\ LockMinutes(n) \in Nat \ {0}
<1> USE ThrottleAssumption
<1> DEFINE T == {k \in Nat : LockMinutes(FreeFailures + k) = DocumentedLock[FreeFailures + k]}
<1>1. \A k \in Nat : /\ PowerOfTwo[k] \in Nat \ {0}
                     /\ (FreeFailures + k) - FreeFailures = k
                     /\ FreeFailures + k \in Nat
  BY PowerOfTwoIs
<1>2. \A k \in Nat : LockMinutes(FreeFailures + k) =
                       IF PowerOfTwo[k] < MaxLock THEN PowerOfTwo[k] ELSE MaxLock
  BY <1>1 DEF LockMinutes
<1>3. 0 \in T
  <2>1. FreeFailures - 1 \in Nat /\ (FreeFailures - 1) + 1 = FreeFailures
        /\ FreeFailures + 0 = FreeFailures
    OBVIOUS
  <2>2. DocumentedLock[FreeFailures] = 1
    <3>1. DocumentedLock[(FreeFailures - 1) + 1] =
            NextLock((FreeFailures - 1) + 1, DocumentedLock[FreeFailures - 1])
      BY <2>1, DocumentedLockIs
    <3> QED BY <2>1, <3>1 DEF NextLock
  <2>3. LockMinutes(FreeFailures + 0) = 1
    BY <1>2, PowerOfTwoIs
  <2> QED BY <2>1, <2>2, <2>3
<1>4. ASSUME NEW k \in Nat, k \in T PROVE k + 1 \in T
  <2> DEFINE p == PowerOfTwo[k]
             m == FreeFailures + k
  <2>1. p \in Nat \ {0} /\ PowerOfTwo[k + 1] = 2 * p
    BY PowerOfTwoIs
  <2>2. m \in Nat /\ FreeFailures + (k + 1) = m + 1 /\ m + 1 > FreeFailures
    OBVIOUS
  <2>3. DocumentedLock[m] = IF p < MaxLock THEN p ELSE MaxLock
    BY <1>2, <1>4
  <2>4. DocumentedLock[m + 1] = NextLock(m + 1, DocumentedLock[m])
    BY <2>2, DocumentedLockIs
  <2>5. LockMinutes(m + 1) = IF 2 * p < MaxLock THEN 2 * p ELSE MaxLock
    BY <1>2, <2>1, <2>2
  <2> HIDE DEF m, p
  <2>6. LockMinutes(m + 1) = DocumentedLock[m + 1]
    BY <2>1, <2>2, <2>3, <2>4, <2>5 DEF NextLock
  <2> QED BY <2>2, <2>6
<1> HIDE DEF T
<1>5. n - FreeFailures \in T
  <2>1. n - FreeFailures \in Nat
    OBVIOUS
  <2> QED BY <1>3, <1>4, <2>1, NaturalInduction
<1>6. FreeFailures + (n - FreeFailures) = n /\ n - FreeFailures \in Nat
  OBVIOUS
<1>7. LockMinutes(n) \in Nat \ {0}
  BY <1>1, <1>2, <1>6
<1> QED BY <1>5, <1>6, <1>7 DEF T

-----------------------------------------------------------------------------
(* The throttle.  Its invariant is the back-off itself, with the types.     *)

ProcessInv ==
    /\ ThrottleTypeOk /\ BackoffHolds
    /\ issued \in SUBSET (SessionKey \cup TokenKey)
    /\ restarts \in 0 .. MaxRestarts

\* What BackoffHolds says of one entry.
KeepsBackoff(entry, first, t) ==
    entry.failures > 0 =>
        /\ t >= first + TotalLock[entry.failures - 1]
        /\ entry.failures >= FreeFailures =>
              entry.lockedUntil >= first + TotalLock[entry.failures]

LEMMA BackoffPerAddress ==
  BackoffHolds <=> \A ip \in Ip : KeepsBackoff(entries[ip], firstFailure[ip], now)
BY DEF BackoffHolds, KeepsBackoff

LEMMA AfterAFailure ==
  ASSUME NEW t \in Nat, NEW e \in Entry, NEW first \in Nat,
         KeepsBackoff(e, first, t), e.lockedUntil <= t,
         NEW e2 \in Entry, e2.failures = e.failures + 1,
         e2.failures >= FreeFailures => e2.lockedUntil = t + LockMinutes(e2.failures),
         NEW first2, first2 = IF e2.failures = 1 THEN t ELSE first
  PROVE  KeepsBackoff(e2, first2, t)
<1> USE ThrottleAssumption
<1> DEFINE n == e.failures
<1>1. /\ n \in Nat /\ n + 1 \in Nat /\ (n + 1) - 1 = n /\ e.lockedUntil \in Nat
      /\ e2.failures = n + 1 /\ e2.lockedUntil \in Nat
  BY DEF Entry
<1>2. TotalLock[n] \in Nat /\ TotalLock[n + 1] = DocumentedLock[n + 1] + TotalLock[n]
  BY <1>1, TotalLockIs
<1>3. t >= first2 + TotalLock[n] /\ first2 \in Nat
  <2>1. CASE n = 0
    BY <1>1, <2>1, TotalLockIs
  <2>2. CASE n # 0 /\ n < FreeFailures
    <3>1. n - 1 \in Nat /\ (n - 1) + 1 = n
      BY <1>1, <2>2
    <3>2. TotalLock[(n - 1) + 1] = DocumentedLock[(n - 1) + 1] + TotalLock[n - 1]
      BY <3>1, TotalLockIs
    <3>3. DocumentedLock[(n - 1) + 1] = NextLock((n - 1) + 1, DocumentedLock[n - 1])
      BY <3>1, DocumentedLockIs
    <3>4. TotalLock[n] = TotalLock[n - 1]
      BY <1>1, <2>2, <3>1, <3>2, <3>3, TotalLockIs DEF NextLock
    <3> QED BY <1>1, <2>2, <3>4 DEF KeepsBackoff
  <2>3. CASE n # 0 /\ n >= FreeFailures
    BY <1>1, <1>2, <2>3 DEF KeepsBackoff
  <2> QED BY <1>1, <2>1, <2>2, <2>3
<1>4. n + 1 >= FreeFailures => e2.lockedUntil >= first2 + TotalLock[n + 1]
  <2> SUFFICES ASSUME n + 1 >= FreeFailures
               PROVE  e2.lockedUntil >= first2 + TotalLock[n + 1]
    OBVIOUS
  <2>1. LockMinutes(n + 1) = DocumentedLock[n + 1] /\ DocumentedLock[n + 1] \in Nat
    BY <1>1, LocksAreDocumented, DocumentedLockIs
  <2>2. e2.lockedUntil = t + DocumentedLock[n + 1]
    BY <1>1, <2>1
  <2> QED BY <1>2, <1>3, <2>1, <2>2
<1> QED BY <1>1, <1>3, <1>4 DEF KeepsBackoff

LEMMA FailureKeeps ==
  ASSUME ThrottleTypeOk, BackoffHolds, NEW ip \in Ip, AttemptFails(ip), UNCHANGED now
  PROVE  (ThrottleTypeOk /\ BackoffHolds)'
<1> DEFINE n == entries[ip].failures + 1
           until == IF n >= FreeFailures THEN now + LockMinutes(n) ELSE entries[ip].lockedUntil
           e2 == [failures |-> n, lockedUntil |-> until]
           first2 == IF n = 1 THEN now ELSE firstFailure[ip]
<1>1. now \in Nat /\ now \in 0 .. MaxNow /\ entries[ip] \in Entry /\ n \in Nat
      /\ firstFailure[ip] \in 0 .. MaxNow /\ firstFailure[ip] \in Nat
  BY ThrottleAssumption DEF ThrottleTypeOk, Entry
<1>2. until \in Nat
  BY <1>1, LocksAreDocumented DEF Entry
<1>3. entries' = [entries EXCEPT ![ip] = e2] /\ firstFailure' = [firstFailure EXCEPT ![ip] = first2]
  BY DEF AttemptFails, RecordFailure
<1>4. e2 \in Entry /\ e2.failures = n
      /\ e2.lockedUntil = until
  BY <1>1, <1>2 DEF Entry
<1>5. first2 \in 0 .. MaxNow
  BY <1>1
<1>6. n >= FreeFailures => until = now + LockMinutes(n)
  OBVIOUS
<1>7. entries[ip].lockedUntil <= now
  BY DEF AttemptFails, Unlocked
<1>8. KeepsBackoff(entries[ip], firstFailure[ip], now)
  BY BackoffPerAddress
<1>9. first2 = IF n = 1 THEN now ELSE firstFailure[ip]
  OBVIOUS
<1>10. n = entries[ip].failures + 1
  OBVIOUS
<1> HIDE DEF e2, until, first2, n
<1>11. KeepsBackoff(e2, first2, now)
  BY <1>1, <1>4, <1>6, <1>7, <1>8, <1>9, <1>10, AfterAFailure
<1>12. ASSUME NEW other \in Ip PROVE KeepsBackoff(entries[other], firstFailure[other], now)'
  <2>1. CASE other = ip
    BY <1>3, <1>11, <2>1 DEF ThrottleTypeOk
  <2>2. CASE other # ip
    <3>1. entries'[other] = entries[other] /\ firstFailure'[other] = firstFailure[other]
      BY <1>3, <2>2 DEF ThrottleTypeOk
    <3> QED BY <3>1, BackoffPerAddress
  <2> QED BY <2>1, <2>2
<1>13. BackoffHolds'
  BY <1>12 DEF BackoffHolds, KeepsBackoff
<1> QED BY <1>3, <1>4, <1>5, <1>13 DEF ThrottleTypeOk

LEMMA ClearedKeeps ==
  ASSUME ThrottleTypeOk, BackoffHolds, UNCHANGED now,
         \/ Forget
         \/ \E ip \in Ip : AttemptSucceeds(ip)
  PROVE  (ThrottleTypeOk /\ BackoffHolds)'
<1>1. NoEntry \in Entry /\ NoEntry.failures = 0 /\ 0 \in 0 .. MaxNow
  BY ThrottleAssumption DEF NoEntry, Entry
<1>2. \A first, t : KeepsBackoff(NoEntry, first, t)
  BY <1>1 DEF KeepsBackoff
<1>3. \A ip \in Ip : \/ entries'[ip] = NoEntry
                      \/ /\ entries'[ip] = entries[ip]
                         /\ firstFailure'[ip] = firstFailure[ip]
  BY DEF Forget, AttemptSucceeds, RecordSuccess, ThrottleTypeOk
<1>4. entries' \in [Ip -> Entry] /\ firstFailure' \in [Ip -> 0 .. MaxNow]
  BY <1>1 DEF Forget, AttemptSucceeds, RecordSuccess, ThrottleTypeOk
<1>5. \A ip \in Ip : KeepsBackoff(entries[ip], firstFailure[ip], now)'
  BY <1>2, <1>3, BackoffPerAddress
<1>6. BackoffHolds'
  BY <1>5 DEF BackoffHolds, KeepsBackoff
<1> QED BY <1>4, <1>6 DEF ThrottleTypeOk

LEMMA TimeKeeps ==
  ASSUME ThrottleTypeOk, BackoffHolds, TimePasses, UNCHANGED throttle
  PROVE  (ThrottleTypeOk /\ BackoffHolds)'
<1>1. now \in Nat /\ now' \in 0 .. MaxNow /\ now' = now + 1
  BY ThrottleAssumption DEF ThrottleTypeOk, TimePasses
<1>2. ASSUME NEW ip \in Ip PROVE KeepsBackoff(entries[ip], firstFailure[ip], now)'
  <2> DEFINE n == entries[ip].failures
  <2>1. n \in Nat /\ firstFailure[ip] \in Nat /\ UNCHANGED <<entries, firstFailure>>
    BY ThrottleAssumption DEF ThrottleTypeOk, Entry, throttle
  <2>2. n > 0 => n - 1 \in Nat /\ TotalLock[n - 1] \in Nat
    BY <2>1, TotalLockIs
  <2> QED BY <1>1, <2>1, <2>2, BackoffPerAddress DEF KeepsBackoff
<1>3. BackoffHolds'
  BY <1>2 DEF BackoffHolds, KeepsBackoff
<1> QED BY <1>1, <1>3 DEF ThrottleTypeOk, throttle

LEMMA ProcessInit == Init => ProcessInv
<1> SUFFICES ASSUME Init PROVE ProcessInv
  OBVIOUS
<1>1. ThrottleTypeOk
  BY ThrottleAssumption DEF Init, ThrottleInit, ThrottleTypeOk, Entry, NoEntry
<1>2. BackoffHolds
  BY DEF Init, ThrottleInit, NoEntry, BackoffHolds
<1> QED BY <1>1, <1>2, AuthAssumption DEF Init, ProcessInv

LEMMA ProcessNext == ProcessInv /\ [Next]_vars => ProcessInv'
<1> SUFFICES ASSUME ProcessInv, [Next]_vars PROVE ProcessInv'
  OBVIOUS
<1>1. ThrottleTypeOk /\ BackoffHolds /\ MaxRestarts \in Nat
  BY AuthAssumption DEF ProcessInv
<1>2. CASE UNCHANGED <<now, throttle, issued, restarts>>
  BY <1>2 DEF ProcessInv, ThrottleTypeOk, BackoffHolds, throttle
<1>3. ASSUME UNCHANGED <<now, throttle, restarts>>, NEW k \in SessionKey \cup TokenKey, Draw(k)
      PROVE  ProcessInv'
  BY <1>3 DEF ProcessInv, ThrottleTypeOk, BackoffHolds, throttle, Draw
<1>4. ASSUME NEW ip \in Ip, LoginFails(ip) PROVE ProcessInv'
  BY <1>1, <1>4, FailureKeeps DEF ProcessInv, LoginFails
<1>5. ASSUME NEW ip \in Ip, NEW k \in SessionKey, LoginSucceeds(ip, k) PROVE ProcessInv'
  BY <1>1, <1>5, ClearedKeeps DEF ProcessInv, LoginSucceeds, Draw
<1>6. CASE ProcessEnds
  BY <1>1, <1>6, ClearedKeeps DEF ProcessInv, ProcessEnds
<1>7. CASE Tick
  BY <1>1, <1>7, TimeKeeps DEF ProcessInv, Tick
<1>8. CASE Sessions
  BY <1>2, <1>3, <1>4, <1>5, <1>8
     DEF Sessions, Register, UseSession, DropSession, Logout, ChangePassword
<1>9. CASE Tokens
  BY <1>2, <1>3, <1>9 DEF Tokens, CreateToken, RevokeToken, DropToken
<1>10. CASE Process
  BY <1>2, <1>6, <1>10 DEF Process, Sweep, Save, Restart, ResetAdmin
<1>11. CASE UNCHANGED vars
  BY <1>2, <1>11 DEF vars
<1> QED BY <1>7, <1>8, <1>9, <1>10, <1>11 DEF Next

\* Any row of failures from one address has taken at least the time of the
\* documented locks between them, however the attempts are spaced and
\* whatever other addresses do.
THEOREM FailuresAreSlowedDown == Spec => []BackoffHolds
<1>1. ProcessInv => BackoffHolds
  BY DEF ProcessInv
<1> QED BY <1>1, ProcessInit, ProcessNext, PTL DEF Spec

\* Every variable has its type: documents, times, drawn keys and throttle.
THEOREM AuthTypeCorrect == Spec => []TypeOk
<1>1. IInv /\ ProcessInv => TypeOk
  BY DEF IInv, Sound, ProcessInv, TypeOk
<1> QED BY <1>1, Invariant, ProcessInit, ProcessNext, PTL DEF Spec

=============================================================================
