---------------------------- MODULE LoginThrottle ----------------------------
(***************************************************************************)
(* The throttle of the login endpoint, in memory and per address.  Time    *)
(* counts minutes.  The entry of an address without one is zero.  An       *)
(* attempt that finds its address locked changes nothing.                  *)
(*                                                                         *)
(* A definition marked Variant is a faulty form of the definition after    *)
(* it.  It is used only to confirm that a property can fail.               *)
(***************************************************************************)
EXTENDS Integers

CONSTANTS
    Ip,
    FreeFailures,   \* FREE_FAILURES
    MaxLock,        \* MAX_LOCK_MINUTES
    MaxNow          \* bound of the model: the last minute

ASSUME ThrottleAssumption ==
    FreeFailures \in Nat \ {0} /\ MaxLock \in Nat \ {0} /\ MaxNow \in Nat

VARIABLES
    now,            \* Date.now()
    entries,        \* failures and lockedUntil of each address
    firstFailure    \* history: when the current row of failures began

throttle == <<entries, firstFailure>>

Entry == [failures : Nat, lockedUntil : Nat]

ThrottleTypeOk ==
    /\ now \in 0 .. MaxNow
    /\ entries \in [Ip -> Entry]
    /\ firstFailure \in [Ip -> 0 .. MaxNow]

NoEntry == [failures |-> 0, lockedUntil |-> 0]

ThrottleInit ==
    /\ now = 0
    /\ entries = [ip \in Ip |-> NoEntry]
    /\ firstFailure = [ip \in Ip |-> 0]

\* A new process starts without entries.
Forget ==
    /\ entries' = [ip \in Ip |-> NoEntry]
    /\ firstFailure' = [ip \in Ip |-> 0]

TimePasses == now < MaxNow /\ now' = now + 1

Unlocked(ip) == entries[ip].lockedUntil <= now

\* Variant: the lock does not grow.
LockMinutesFlat(n) == 1

\* 2 ** n
PowerOfTwo[n \in Nat] == IF n = 0 THEN 1 ELSE 2 * PowerOfTwo[n - 1]

\* The lock that the n-th failure in a row brings.
LockMinutes(n) ==
    LET doubled == PowerOfTwo[n - FreeFailures]
    IN  IF doubled < MaxLock THEN doubled ELSE MaxLock

RecordFailure(ip) ==
    LET n == entries[ip].failures + 1
    IN  /\ entries' = [entries EXCEPT ![ip] =
                [failures |-> n,
                 lockedUntil |-> IF n >= FreeFailures THEN now + LockMinutes(n) ELSE @.lockedUntil]]
        /\ firstFailure' = [firstFailure EXCEPT ![ip] = IF n = 1 THEN now ELSE @]

RecordSuccess(ip) ==
    /\ entries' = [entries EXCEPT ![ip] = NoEntry]
    /\ firstFailure' = [firstFailure EXCEPT ![ip] = 0]

AttemptFails(ip) == Unlocked(ip) /\ RecordFailure(ip)

AttemptSucceeds(ip) == Unlocked(ip) /\ RecordSuccess(ip)

-----------------------------------------------------------------------------
(* Properties.                                                              *)

\* The first lock is a minute, each further one twice the one before, up to
\* the cap.
DocumentedLock[n \in Nat] ==
    IF n < FreeFailures THEN 0
    ELSE IF n = FreeFailures THEN 1
    ELSE LET doubled == 2 * DocumentedLock[n - 1]
         IN  IF doubled < MaxLock THEN doubled ELSE MaxLock

\* The minutes of all locks that n failures in a row have brought.
TotalLock[n \in Nat] == IF n = 0 THEN 0 ELSE DocumentedLock[n] + TotalLock[n - 1]

\* "every further failure doubles the lock, capped at 30 minutes": n failures
\* in a row cannot happen in less time than the locks between them add up to.
BackoffHolds ==
    \A ip \in Ip :
        LET n == entries[ip].failures
        IN  n > 0 => /\ now >= firstFailure[ip] + TotalLock[n - 1]
                     /\ n >= FreeFailures =>
                          entries[ip].lockedUntil >= firstFailure[ip] + TotalLock[n]
=============================================================================
