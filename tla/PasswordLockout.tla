-------------------------- MODULE PasswordLockout --------------------------
(***************************************************************************)
(* The password check of one account (lib/account/passwordAuthentication   *)
(* .ts): login and re-authentication requests run it side by side, and     *)
(* share the counter failed_login_attempts and the date locked_until.      *)
(***************************************************************************)
EXTENDS Integers, FiniteSets

CONSTANTS Guessers,   \* the requests that may check a password at once
          Threshold,  \* LOGIN_LOCKOUT_THRESHOLD
          Budget,     \* LOCKOUT_VERIFY_BUDGET, attempts checked during one lock
          LockTime,   \* LOGIN_LOCKOUT_DURATION_MS
          LastTime,   \* bound: the last date
          MaxTries    \* bound: requests ever started

ASSUME LockoutAssumption ==
    /\ Threshold \in Nat \ {0} /\ Budget \in Nat /\ Budget >= Threshold
    /\ LockTime \in Nat \ {0} /\ LastTime \in Nat /\ MaxTries \in Nat

VARIABLES clock, attempts,
          lockedUntil,   \* 0 stands for NULL
          try,           \* what each request has seen
          tries,
          openChecks     \* passwords checked outside a lock since the counter was last zeroed

lockoutVars == <<clock, attempts, lockedUntil, try, tries, openChecks>>

NoTry == [pc |-> "idle", right |-> FALSE, sawLock |-> FALSE]
Locked == lockedUntil > clock

LockoutInit ==
    /\ clock = 1 /\ attempts = 0 /\ lockedUntil = 0
    /\ try = [g \in Guessers |-> NoTry]
    /\ tries = 0 /\ openChecks = 0

\* The row is read; a lock that has run out is to be cleared first.
ReadRow(g, right) ==
    /\ try[g].pc = "idle" /\ tries < MaxTries
    /\ try' = [try EXCEPT ![g] = [pc |-> IF lockedUntil # 0 /\ ~Locked THEN "clear" ELSE "reserve",
                                  right |-> right, sawLock |-> Locked]]
    /\ tries' = tries + 1
    /\ UNCHANGED <<clock, attempts, lockedUntil, openChecks>>

ZeroCounter(until) == attempts' = 0 /\ lockedUntil' = until /\ openChecks' = 0

ClearExpiredLock(g) ==
    /\ try[g].pc = "clear"
    /\ ZeroCounter(0)
    /\ try' = [try EXCEPT ![g].pc = "reserve"]
    /\ UNCHANGED <<clock, tries>>

\* Mutant: the counter is compared before it is raised.
ReserveAfterCheck(g) ==
    LET t == try[g]
        checked == attempts <= (IF t.sawLock THEN Budget ELSE Threshold)
    IN /\ t.pc = "reserve"
       /\ attempts' = attempts + 1
       /\ openChecks' = IF checked /\ ~t.sawLock THEN openChecks + 1 ELSE openChecks
       /\ try' = [try EXCEPT ![g] =
             IF checked /\ t.right THEN [t EXCEPT !.pc = "reset"]
             ELSE IF ~t.sawLock /\ attempts >= Threshold THEN [t EXCEPT !.pc = "lock"] ELSE NoTry]
       /\ UNCHANGED <<clock, lockedUntil, tries>>

\* The attempt is counted before the password is checked; outside a lock an attempt
\* beyond the threshold is refused unchecked, during a lock one beyond the budget.
ReserveAndCheck(g) ==
    LET t == try[g]
        n == attempts + 1
        checked == n <= (IF t.sawLock THEN Budget ELSE Threshold)
    IN /\ t.pc = "reserve"
       /\ attempts' = n
       /\ openChecks' = IF checked /\ ~t.sawLock THEN openChecks + 1 ELSE openChecks
       /\ try' = [try EXCEPT ![g] =
             CASE checked /\ t.right -> [t EXCEPT !.pc = "reset"]
               [] ~(checked /\ t.right) /\ ~t.sawLock /\ n >= Threshold -> [t EXCEPT !.pc = "lock"]
               [] OTHER -> NoTry]
       /\ UNCHANGED <<clock, lockedUntil, tries>>

\* lockAccount: only an account whose lock is not in force is locked.
LockAccount(g) ==
    /\ try[g].pc = "lock"
    /\ IF Locked THEN UNCHANGED <<attempts, lockedUntil, openChecks>>
       ELSE ZeroCounter(clock + LockTime)
    /\ try' = [try EXCEPT ![g] = NoTry]
    /\ UNCHANGED <<clock, tries>>

\* The right password opens the account, during a lock too: the check zeroes the
\* counter, and grantAccountSession of a login does so once more.
ResetOnSuccess(g) ==
    /\ try[g].pc \in {"reset", "grant"}
    /\ ZeroCounter(0)
    /\ \/ try[g].pc = "reset" /\ try' = [try EXCEPT ![g].pc = "grant"]
       \/ try' = [try EXCEPT ![g] = NoTry]
    /\ UNCHANGED <<clock, tries>>

LockoutTick ==
    /\ clock < LastTime /\ clock' = clock + 1
    /\ UNCHANGED <<attempts, lockedUntil, try, tries, openChecks>>

LockoutNext ==
    \/ \E g \in Guessers :
          \/ \E right \in BOOLEAN : ReadRow(g, right)
          \/ ClearExpiredLock(g) \/ ReserveAndCheck(g) \/ LockAccount(g) \/ ResetOnSuccess(g)
    \/ LockoutTick

LockoutSpec == LockoutInit /\ [][LockoutNext]_lockoutVars

(***************************************************************************)
(* Properties                                                              *)
(***************************************************************************)
LockoutTypeOK ==
    /\ clock \in 1..LastTime /\ attempts \in 0..MaxTries /\ tries \in 0..MaxTries
    /\ lockedUntil \in 0..(LastTime + LockTime) /\ openChecks \in Nat
    /\ try \in [Guessers -> [pc : {"idle", "clear", "reserve", "lock", "reset", "grant"},
                             right : BOOLEAN, sawLock : BOOLEAN]]

\* Requests that arrive together cannot check more passwords than the threshold
\* before the counter is zeroed, however their reads and counts interleave.
GuessesBounded == openChecks <= Threshold

=============================================================================
