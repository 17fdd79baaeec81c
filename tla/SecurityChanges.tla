-------------------------- MODULE SecurityChanges --------------------------
(***************************************************************************)
(* The second factors and the sessions of one account: lib/account/        *)
(* securityStore.ts, securityHandlers.ts, passkeys.ts, grantSession.ts,    *)
(* session.ts and server/routes/account/*.  Login, re-authentication, a    *)
(* change of the factors and the recovery run side by side; each first     *)
(* reads, then writes under a condition, and the account's session_version *)
(* tells a stale reader from a current one.  How a password is counted and *)
(* locked is PasswordLockout's; here a password given is the right one.    *)
(***************************************************************************)
EXTENDS Integers, FiniteSets

CONSTANTS Callers,     \* the requests in flight at once
          KeyIds,      \* passkeys a customer may register
          OtpLimit,    \* codes an account may try in one window (5)
          LastStep,    \* bound: the last TOTP step (30 s each)
          MaxIds,      \* bound: challenges ever created
          MaxVersion,  \* bound: session_version
          MaxSecrets   \* bound: TOTP secrets ever generated

ASSUME SecurityAssumption ==
    /\ OtpLimit \in Nat \ {0} /\ LastStep \in Nat \ {0}
    /\ MaxIds \in Nat /\ MaxVersion \in Nat \ {0} /\ MaxSecrets \in Nat \ {0}

VARIABLES step,        \* the current TOTP step
          row,         \* accounts and account_totp: version, code, secret, lastUsed, otpTries
          keys,        \* account_passkeys
          challenges,  \* account_auth_challenges
          sessions,    \* the session cookies handed out
          ids, secrets,
          call,        \* the request each caller runs
          used, reused \* proofs accepted once, and more than once

securityVars == <<step, row, keys, challenges, sessions, ids, secrets, call, used, reused>>

Actions == {"passkey-add", "passkey-delete", "totp-enable", "totp-disable"}
NoKey == "no key"

NoChallenge == [id |-> 0, ver |-> 0, purpose |-> "none", action |-> "none", key |-> NoKey,
                secret |-> 0]
NoCall == [pc |-> "idle", job |-> "none", ver |-> 0, secret |-> 0, key |-> NoKey,
           c |-> NoChallenge]

\* The account as the first request finds it: with or without codes and passkeys.
SecurityStart(secret, registered) ==
    /\ step = 1
    /\ row = [version |-> 1, code |-> 1, secret |-> secret, lastUsed |-> 0, otpTries |-> 0]
    /\ keys = registered /\ challenges = {} /\ sessions = {} /\ ids = 0 /\ secrets = secret
    /\ call = [r \in Callers |-> NoCall]
    /\ used = {} /\ reused = {}

SecurityInit ==
    \E secret \in 0..1, registered \in SUBSET KeyIds : SecurityStart(secret, registered)

(***************************************************************************)
(* Building blocks                                                         *)
(***************************************************************************)
To(r, pc) == call' = [call EXCEPT ![r].pc = pc]
Done(r) == call' = [call EXCEPT ![r] = NoCall]
Reads == UNCHANGED <<step, row, keys, challenges, sessions, ids, secrets, used, reused>>
NoneUsed == UNCHANGED <<used, reused>>
Accept(proof) ==
    /\ used' = used \cup {proof}
    /\ reused' = IF proof \in used THEN reused \cup {proof} ELSE reused

\* verifySession: a cookie of the current version opens the account page.
LoggedIn == \E s \in sessions : s.ver = row.version

\* A request begins: it remembers the version and the secret it reads, and its challenge.
BeginCall(r, job, pc, c, k) ==
    /\ call[r].pc = "idle"
    /\ call' = [call EXCEPT ![r] = [pc |-> pc, job |-> job, ver |-> row.version,
                                    secret |-> row.secret, key |-> k, c |-> c]]
    /\ Reads

\* requireSecurityChallenge: the session and the challenge are both of this version.
WithChallenge(c, purpose, action) ==
    LoggedIn /\ c.purpose = purpose /\ c.action = action /\ c.ver = row.version

(***************************************************************************)
(* What a request begins with                                              *)
(***************************************************************************)
Opens(r) ==
    \/ BeginCall(r, "login", "password", NoChallenge, NoKey)
    \/ BeginCall(r, "passkey-options", "issue",
             [NoChallenge EXCEPT !.purpose = "passkey-login"], NoKey)
    \/ BeginCall(r, "recover", "recover", [NoChallenge EXCEPT !.id = row.code], NoKey)
    \/ \E a \in Actions, k \in KeyIds \cup {NoKey} :
          /\ LoggedIn /\ (a = "passkey-delete" <=> k # NoKey)
          /\ LET wanted == [NoChallenge EXCEPT !.ver = row.version, !.action = a, !.key = k] IN
             \/ BeginCall(r, "reauth", "password", [wanted EXCEPT !.purpose = "reauth-proof"], NoKey)
             \/ keys # {}
                /\ BeginCall(r, "reauth-options", "issue", [wanted EXCEPT !.purpose = "reauth-passkey"],
                         NoKey)

Continues(r, c) ==
    \/ /\ c.purpose = "otp-login" /\ c.ver = row.version /\ row.secret # 0
       /\ BeginCall(r, "otp-login", "otp", c, NoKey)
    \/ /\ c.purpose = "passkey-login"
       /\ \E k \in keys : BeginCall(r, "passkey-login", "key", c, k)
    \/ \E a \in Actions :
          /\ WithChallenge(c, "reauth-passkey", a)
          /\ \E k \in keys : BeginCall(r, "reauth-verify", "key", c, k)
    \/ /\ WithChallenge(c, "reauth-proof", "passkey-add")
       /\ BeginCall(r, "passkey-register", "move", c, NoKey)
    \/ /\ WithChallenge(c, "passkey-register", "passkey-add")
       /\ \E k \in KeyIds : BeginCall(r, "passkey-add", "commit", c, k)
    \/ /\ WithChallenge(c, "reauth-proof", "passkey-delete")
       /\ BeginCall(r, "passkey-delete", "commit", c, c.key)
    \/ /\ WithChallenge(c, "reauth-proof", "totp-enable") /\ row.secret = 0
       /\ BeginCall(r, "totp-setup", "move", c, NoKey)
    \/ /\ WithChallenge(c, "totp-setup", "totp-enable") /\ row.secret = 0
       /\ BeginCall(r, "totp-enable", "otp", c, NoKey)
    \/ /\ WithChallenge(c, "reauth-proof", "totp-disable")
       /\ BeginCall(r, "totp-disable", "commit", c, NoKey)
    \/ /\ LoggedIn /\ c.ver = row.version
       /\ BeginCall(r, "cancel", "consume", c, NoKey)

(***************************************************************************)
(* The conditional writes                                                  *)
(***************************************************************************)
\* authenticateAccountPassword ends with a write that wants the version it read.
PasswordAccepted(r) ==
    /\ call[r].pc = "password"
    /\ LET q == call[r] IN
       CASE row.version # q.ver -> Done(r)
         [] row.version = q.ver /\ q.job = "login" ->
              call' = [call EXCEPT ![r].pc = IF q.secret = 0 THEN "grant" ELSE "issue",
                                   ![r].c = [NoChallenge EXCEPT !.ver = q.ver, !.purpose = "otp-login"]]
         [] OTHER -> To(r, IF q.secret = 0 THEN "issue" ELSE "otp")
    /\ Reads

\* createAuthChallenge replaces the challenge of the cookie the browser sent, if any.
IssueChallenge(r) ==
    /\ call[r].pc = "issue" /\ ids < MaxIds
    /\ ids' = ids + 1
    /\ \E old \in SUBSET challenges :
          /\ Cardinality(old) <= 1
          /\ challenges' = (challenges \ old) \cup {[call[r].c EXCEPT !.id = ids + 1]}
    /\ Done(r)
    /\ UNCHANGED <<step, row, keys, sessions, secrets, used, reused>>

\* reserveOtpAttempt counts the code before it is compared.
ReserveOtp(r) ==
    /\ call[r].pc = "otp"
    /\ IF row.otpTries < OtpLimit
       THEN row' = [row EXCEPT !.otpTries = @ + 1] /\ To(r, "code")
       ELSE UNCHANGED row /\ Done(r)
    /\ UNCHANGED <<step, keys, challenges, sessions, ids, secrets, used, reused>>

\* verifyAccountOtp: a matching code counts if its step is newer than the last one used
\* and neither the secret nor the version has changed since they were read.
OtpMatches(r, s) ==
    LET q == call[r]
        fresh == row.secret = q.secret /\ row.lastUsed < s /\ row.version = q.ver
    IN /\ q.pc = "code" /\ q.job \in {"otp-login", "reauth"}
       /\ s \in {step - 1, step, step + 1} \cap (1..LastStep)
       /\ IF fresh
          THEN /\ row' = [row EXCEPT !.lastUsed = s] /\ Accept(<<"otp", q.secret, s>>)
               /\ To(r, IF q.job = "otp-login" THEN "consume" ELSE "issue")
          ELSE UNCHANGED row /\ NoneUsed /\ Done(r)
       /\ UNCHANGED <<step, keys, challenges, sessions, ids, secrets>>

OtpWrong(r) == call[r].pc = "code" /\ Done(r) /\ Reads

\* verifyPasskey: the key is still the account's, and the version the one that was read.
KeyMatches(r) ==
    /\ call[r].pc = "key"
    /\ IF call[r].key \in keys /\ row.version = call[r].ver
       THEN To(r, IF call[r].job = "passkey-login" THEN "consume" ELSE "move") ELSE Done(r)
    /\ Reads

\* transitionAuthChallenge
NextPurpose(job) ==
    CASE job = "reauth-verify" -> "reauth-proof"
      [] job = "passkey-register" -> "passkey-register"
      [] job = "totp-setup" -> "totp-setup"

MoveChallenge(r) ==
    LET c == call[r].c
        new == IF call[r].job = "totp-setup" THEN secrets + 1 ELSE 0
    IN /\ call[r].pc = "move" /\ new <= MaxSecrets
       /\ secrets' = secrets + (IF new = 0 THEN 0 ELSE 1)
       /\ challenges' = IF c \in challenges /\ c.ver = row.version
             THEN (challenges \ {c})
                  \cup {[c EXCEPT !.purpose = NextPurpose(call[r].job), !.secret = new]}
             ELSE challenges
       /\ Done(r)
       /\ UNCHANGED <<step, row, keys, sessions, ids, used, reused>>

\* Mutant: the DELETE runs, but nobody looks whether it found a row.
SpendableByAnyone(c) == c.ver \in {0, row.version}

\* consumeAuthChallenge: the request whose DELETE finds the challenge goes on.
Spendable(c) == c \in challenges /\ c.ver \in {0, row.version}

Consume(r) ==
    LET c == call[r].c IN
    /\ call[r].pc = "consume"
    /\ challenges' = IF Spendable(c) THEN challenges \ {c} ELSE challenges
    /\ IF Spendable(c) /\ call[r].job # "cancel"
       THEN To(r, "grant") /\ Accept(<<"challenge", c.id>>) ELSE Done(r) /\ NoneUsed
    /\ UNCHANGED <<step, row, keys, sessions, ids, secrets>>

\* Mutant: the cookie is made for the version the account has now.
GrantCurrentVersion(r) ==
    /\ call[r].pc = "grant"
    /\ sessions' = sessions \cup {[ver |-> row.version, by |-> call[r].job, key |-> call[r].key]}
    /\ Done(r)
    /\ UNCHANGED <<step, row, keys, challenges, ids, secrets, used, reused>>

\* grantAccountSession: no cookie for a version that has gone, nor for a password alone
\* where a second factor is on.
Grant(r) ==
    LET q == call[r]
        ok == row.version = q.ver /\ (q.job = "login" => row.secret = 0)
    IN /\ q.pc = "grant"
       /\ sessions' = IF ok THEN sessions \cup {[ver |-> q.ver, by |-> q.job, key |-> q.key]}
                      ELSE sessions
       /\ Done(r)
       /\ UNCHANGED <<step, row, keys, challenges, ids, secrets, used, reused>>

\* Mutant: the change is made whether or not the claim found its challenge.
ClaimUnchecked(c) == c.ver # 0

\* commitSecurityChange: one batch claims the challenge, makes the change, moves the
\* version on and deletes every challenge of the account.
Claimable(c) == c \in challenges /\ c.ver = row.version

Commit(r, newRow, newKeys) ==
    /\ row.version < MaxVersion
    /\ row' = [newRow EXCEPT !.version = @ + 1] /\ keys' = newKeys
    /\ challenges' = {c \in challenges : c.ver = 0}
    /\ Accept(<<"challenge", call[r].c.id>>)
    /\ Done(r)
    /\ UNCHANGED <<step, sessions, ids, secrets>>

Eligible(q) ==
    CASE q.job = "passkey-add" -> q.key \notin keys
      [] q.job = "passkey-delete" -> q.key \in keys
      [] q.job = "totp-disable" -> row.secret # 0

CommitChange(r) ==
    LET q == call[r] IN
    /\ q.pc = "commit"
    /\ IF Claimable(q.c) /\ Eligible(q)
       THEN \/ q.job = "passkey-add" /\ Commit(r, row, keys \cup {q.key})
            \/ q.job = "passkey-delete" /\ Commit(r, row, keys \ {q.key})
            \/ q.job = "totp-disable"
               /\ Commit(r, [row EXCEPT !.secret = 0, !.lastUsed = 0, !.otpTries = 0], keys)
       ELSE Done(r) /\ Reads

\* totpConfirm: the code of the new secret is compared, and its step is spent with it.
ConfirmTotp(r, s) ==
    LET c == call[r].c IN
    /\ call[r].pc = "code" /\ call[r].job = "totp-enable"
    /\ s \in {step - 1, step, step + 1} \cap (1..LastStep)
    /\ IF Claimable(c) /\ row.secret = 0
       THEN Commit(r, [row EXCEPT !.secret = c.secret, !.lastUsed = s], keys)
       ELSE Done(r) /\ Reads

\* POST /api/account/recover: a new password and code, and no factor is left.
Recover(r) ==
    /\ call[r].pc = "recover"
    /\ IF row.code = call[r].c.id /\ row.version = call[r].ver
       THEN /\ row.version < MaxVersion
            /\ row' = [version |-> row.version + 1, code |-> row.code + 1, secret |-> 0,
                       lastUsed |-> 0, otpTries |-> 0]
            /\ keys' = {} /\ challenges' = {c \in challenges : c.ver = 0}
            /\ Accept(<<"code", call[r].c.id>>)
       ELSE UNCHANGED <<row, keys, challenges, used, reused>>
    /\ Done(r)
    /\ UNCHANGED <<step, sessions, ids, secrets>>

(***************************************************************************)
(* Time                                                                    *)
(***************************************************************************)
StepPasses ==
    /\ step < LastStep /\ step' = step + 1
    /\ row' = [row EXCEPT !.otpTries = 0]
    /\ UNCHANGED <<keys, challenges, sessions, ids, secrets, call, used, reused>>

Expire(c) ==
    /\ challenges' = challenges \ {c}
    /\ UNCHANGED <<step, row, keys, sessions, ids, secrets, call, used, reused>>

SecurityNext ==
    \/ \E r \in Callers :
          \/ Opens(r) \/ \E c \in challenges : Continues(r, c)
          \/ PasswordAccepted(r) \/ IssueChallenge(r) \/ ReserveOtp(r) \/ OtpWrong(r)
          \/ \E s \in 1..LastStep : OtpMatches(r, s) \/ ConfirmTotp(r, s)
          \/ KeyMatches(r) \/ MoveChallenge(r) \/ Consume(r) \/ Grant(r)
          \/ CommitChange(r) \/ Recover(r)
    \/ StepPasses
    \/ \E c \in challenges : Expire(c)

SecuritySpec == SecurityInit /\ [][SecurityNext]_securityVars

(***************************************************************************)
(* Properties                                                              *)
(***************************************************************************)
SecurityTypeOK ==
    /\ step \in 1..LastStep /\ keys \subseteq KeyIds /\ reused \subseteq used
    /\ row.version \in 1..MaxVersion /\ row.code \in 1..MaxVersion
    /\ row.secret \in 0..MaxSecrets /\ row.lastUsed \in 0..LastStep /\ row.otpTries \in 0..OtpLimit
    /\ ids \in 0..MaxIds /\ secrets \in 0..MaxSecrets
    /\ \A c \in challenges : c.id \in 1..ids /\ c.secret \in 0..secrets
    /\ \A s \in sessions : s.ver \in 1..row.version

\* A cookie that still opens the account was earned with the factors the account has
\* now: no password alone where codes are on, no code of a secret that is gone, no
\* passkey that was removed -- whatever changed while the login was under way.
SessionsJustified ==
    \A s \in sessions : s.ver = row.version =>
        /\ s.by = "login" => row.secret = 0
        /\ s.by = "otp-login" => row.secret # 0
        /\ s.by = "passkey-login" => s.key \in keys

\* A code, a challenge and a recovery code each prove something once, although two
\* requests may present the same one at the same moment.
NothingUsedTwice == reused = {}

\* The factors change only together with the version, and on a challenge that still is
\* in the table, was never spent, and was issued for the version that ends, or by a
\* recovery: a proof given before another change is worth nothing.
ChangesNeedFreshProof ==
    [][(keys' # keys \/ row'.secret # row.secret) =>
         /\ row'.version = row.version + 1
         /\ \/ row'.code # row.code
            \/ \E c \in challenges : c.ver = row.version /\ <<"challenge", c.id>> \in used' \ used
        ]_securityVars
=============================================================================
