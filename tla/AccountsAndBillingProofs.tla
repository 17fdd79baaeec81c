---------------------- MODULE AccountsAndBillingProofs ----------------------
(***************************************************************************)
(* Proofs about one account: the count of wrong passwords, the second      *)
(* factors and the sessions, then the plan it pays for. They hold for any  *)
(* number of requests, subscriptions, charges and dates, for any limits,   *)
(* and for any interleaving of the requests with each other, with Stripe   *)
(* and OpenNode, the clock and the administrator.                          *)
(***************************************************************************)
EXTENDS PasswordLockout, SecurityChanges, Billing, FiniteSetTheorems, WellFoundedInduction, TLAPS

(***************************************************************************)
(* The bound on guesses is inductive only together with the order of the   *)
(* code: a password is checked after it was counted, and both counts are   *)
(* zeroed together.                                                        *)
(***************************************************************************)
LockoutInv ==
    /\ attempts \in Nat /\ openChecks \in Nat
    /\ try \in [Guessers -> [pc : {"idle", "clear", "reserve", "lock", "reset", "grant"},
                             right : BOOLEAN, sawLock : BOOLEAN]]
    /\ openChecks <= attempts
    /\ openChecks <= Threshold

\* LockoutInv is inductive: a check raises openChecks only after attempts, and only below
\* the threshold (passwordAuthentication.ts, the reservation before the comparison).
LEMMA LockoutStep ==
    ASSUME LockoutInv, [LockoutNext]_lockoutVars
    PROVE  LockoutInv'
<1> USE LockoutAssumption DEF LockoutInv
<1>1. ASSUME NEW g \in Guessers, NEW right \in BOOLEAN, ReadRow(g, right)
      PROVE  LockoutInv'
  <2>1. (IF lockedUntil # 0 /\ ~Locked THEN "clear" ELSE "reserve") \in {"clear", "reserve"}
        /\ Locked \in BOOLEAN
    BY DEF Locked
  <2> QED  BY <1>1, <2>1 DEF ReadRow
<1>2. ASSUME NEW g \in Guessers, ClearExpiredLock(g)
      PROVE  LockoutInv'
  BY <1>2 DEF ClearExpiredLock, ZeroCounter
<1>3. ASSUME NEW g \in Guessers, ReserveAndCheck(g)
      PROVE  LockoutInv'
  <2> DEFINE n == attempts + 1
             checked == n <= (IF try[g].sawLock THEN Budget ELSE Threshold)
  <2>1. attempts' = n /\ openChecks' = (IF checked /\ ~try[g].sawLock THEN openChecks + 1 ELSE openChecks)
    BY <1>3 DEF ReserveAndCheck
  <2>2. openChecks' <= attempts' /\ openChecks' <= Threshold /\ openChecks' \in Nat /\ attempts' \in Nat
    BY <2>1
  <2>3. \E t \in [pc : {"idle", "lock", "reset"}, right : BOOLEAN, sawLock : BOOLEAN] :
           try' = [try EXCEPT ![g] = t]
    <3> DEFINE t == try[g]
               next == CASE checked /\ t.right -> [t EXCEPT !.pc = "reset"]
                         [] ~(checked /\ t.right) /\ ~t.sawLock /\ n >= Threshold ->
                              [t EXCEPT !.pc = "lock"]
                         [] OTHER -> NoTry
    <3>1. try' = [try EXCEPT ![g] = next]
      BY <1>3 DEF ReserveAndCheck
    <3>2. t \in [pc : {"idle", "clear", "reserve", "lock", "reset", "grant"},
                 right : BOOLEAN, sawLock : BOOLEAN]
      OBVIOUS
    <3>3. next \in {[t EXCEPT !.pc = "reset"], [t EXCEPT !.pc = "lock"], NoTry}
      OBVIOUS
    <3>4. next \in [pc : {"idle", "lock", "reset"}, right : BOOLEAN, sawLock : BOOLEAN]
      <4> HIDE DEF next, t
      <4>1. [t EXCEPT !.pc = "reset"] \in [pc : {"idle", "lock", "reset"}, right : BOOLEAN, sawLock : BOOLEAN]
        BY <3>2
      <4>2. [t EXCEPT !.pc = "lock"] \in [pc : {"idle", "lock", "reset"}, right : BOOLEAN, sawLock : BOOLEAN]
        BY <3>2
      <4>3. NoTry \in [pc : {"idle", "lock", "reset"}, right : BOOLEAN, sawLock : BOOLEAN]
        BY DEF NoTry
      <4> QED  BY <3>3, <4>1, <4>2, <4>3
    <3> HIDE DEF next
    <3> QED  BY <3>1, <3>4
  <2> QED  BY <2>2, <2>3
<1>4. ASSUME NEW g \in Guessers, LockAccount(g)
      PROVE  LockoutInv'
  BY <1>4 DEF LockAccount, ZeroCounter, NoTry
<1>5. ASSUME NEW g \in Guessers, ResetOnSuccess(g)
      PROVE  LockoutInv'
  <2>1. attempts' = 0 /\ openChecks' = 0
    BY <1>5 DEF ResetOnSuccess, ZeroCounter
  <2>2. CASE try' = [try EXCEPT ![g].pc = "grant"]
    BY <2>1, <2>2
  <2>3. CASE try' = [try EXCEPT ![g] = NoTry]
    BY <2>1, <2>3 DEF NoTry
  <2> QED  BY <1>5, <2>2, <2>3 DEF ResetOnSuccess
<1>6. CASE LockoutTick
  BY <1>6 DEF LockoutTick
<1>7. CASE UNCHANGED lockoutVars
  BY <1>7 DEF lockoutVars
<1> QED  BY <1>1, <1>2, <1>3, <1>4, <1>5, <1>6, <1>7 DEF LockoutNext

\* Requests that arrive together never check more passwords outside a lock than the
\* threshold before the counter is zeroed (passwordAuthentication.ts), however many they are.
THEOREM GuessesStayBounded == LockoutSpec => []GuessesBounded
<1>1. LockoutInit => LockoutInv
  BY LockoutAssumption DEF LockoutInit, LockoutInv, NoTry
<1>2. LockoutInv /\ [LockoutNext]_lockoutVars => LockoutInv'
  BY LockoutStep
<1>3. LockoutInv => GuessesBounded
  BY DEF LockoutInv, GuessesBounded
<1> QED  BY <1>1, <1>2, <1>3, PTL DEF LockoutSpec
-----------------------------------------------------------------------------
(***************************************************************************)
(* The second factors.  A request may read the row, wait, and write under  *)
(* its conditions much later; the invariant says what is still known then. *)
(* Every request in flight is either of an old version, and every write of *)
(* it is refused, or what it remembers of the row is what the row says.    *)
(* What was spent once cannot come back: challenges are told apart by an   *)
(* id that only grows, a used code is at most row.lastUsed of its secret,  *)
(* and a secret still on offer has proved nothing yet.                     *)
(***************************************************************************)
Keys == KeyIds \cup {NoKey}
AccountJobs == {"none", "login", "passkey-options", "recover", "reauth", "reauth-options", "otp-login",
         "passkey-login", "reauth-verify", "passkey-register", "passkey-add", "passkey-delete",
         "totp-setup", "totp-enable", "totp-disable", "cancel"}
AccountPlaces == {"idle", "password", "issue", "recover", "otp", "code", "key", "move", "commit",
           "consume", "grant"}
Purposes == {"none", "otp-login", "passkey-login", "reauth-passkey", "reauth-proof",
             "passkey-register", "totp-setup"}
Challenge == [id : Nat, ver : Nat, purpose : Purposes, action : Actions \cup {"none"},
              key : Keys, secret : Nat]
Call == [pc : AccountPlaces, job : AccountJobs, ver : Nat, secret : Nat, key : Keys, c : Challenge]

SecurityTypes ==
    /\ step \in 1..LastStep
    /\ row \in [version : 1..MaxVersion, code : 1..MaxVersion, secret : 0..MaxSecrets,
                lastUsed : 0..LastStep, otpTries : 0..OtpLimit]
    /\ row.code <= row.version /\ row.secret <= secrets
    /\ keys \subseteq KeyIds
    /\ challenges \subseteq Challenge
    /\ ids \in 0..MaxIds /\ secrets \in 0..MaxSecrets
    /\ sessions \subseteq [ver : Nat, by : AccountJobs, key : Keys]
    /\ call \in [Callers -> Call]
    /\ reused \subseteq used

(* Where a request stands, what it holds and what job it does. *)
Issuers == {"login", "passkey-options", "reauth", "reauth-options"}

CallsCurrent ==
    \A r \in Callers : LET q == call[r] IN
        /\ q.ver <= row.version
        /\ q.pc # "idle" /\ q.ver = row.version => q.secret = row.secret
        /\ q.job = "otp-login" => q.secret # 0
        /\ q.pc \in {"otp", "code"} /\ q.job = "reauth" => q.secret # 0
        /\ q.pc \in {"consume", "grant"} /\ q.job = "passkey-login" /\ q.ver = row.version => q.key \in keys
        /\ q.pc = "password" => q.job \in {"login", "reauth"}
        /\ q.pc = "issue" => q.job \in Issuers
        /\ q.job \in Issuers => q.c.secret = 0
        /\ q.pc = "move" => q.job \in {"reauth-verify", "passkey-register", "totp-setup"}
        /\ q.pc = "key" => q.job \in {"passkey-login", "reauth-verify"}
        /\ q.job = "passkey-add" => q.key \in KeyIds

(* Challenges are told apart by their ids; a secret offered in one has not been used. *)
ChallengesDistinct ==
    /\ \A c \in challenges : c.id \in 1..ids /\ c.secret \in 0..secrets
    /\ \A c \in challenges : c.ver = 0 => c.secret = 0
    /\ \A c, d \in challenges : c.id = d.id => c = d
    /\ \A c \in challenges : c.secret # 0 => c.secret # row.secret

(* What was used is over: *)
UsedIsOver ==
    /\ \A secret \in Int, s \in Int : <<"otp", secret, s>> \in used =>
          /\ secret \in 1..secrets
          /\ secret = row.secret => s <= row.lastUsed
          /\ \A c \in challenges : c.secret # secret
    /\ \A i \in Int : <<"challenge", i>> \in used => i <= ids /\ \A c \in challenges : c.id # i
    /\ \A i \in Int : <<"code", i>> \in used => i < row.code
    /\ reused = {}

SessionsOld == \A s \in sessions : s.ver \in 1..row.version

SecurityInv ==
    SecurityTypes /\ CallsCurrent /\ ChallengesDistinct /\ UsedIsOver /\ SessionsOld /\ SessionsJustified
-----------------------------------------------------------------------------
(* Codes, challenges and recovery codes are never taken for one another. *)
LEMMA ProofsDistinct ==
    /\ \A a, b, i : <<"otp", a, b>> # <<"challenge", i>>
    /\ \A a, b, i : <<"otp", a, b>> # <<"code", i>>
    /\ \A i, j : <<"challenge", i>> # <<"code", j>>
    /\ \A i, j : <<"challenge", i>> = <<"challenge", j>> => i = j
    /\ \A i, j : <<"code", i>> = <<"code", j>> => i = j
    /\ \A a, b, i, j : <<"otp", a, b>> = <<"otp", i, j>> => a = i /\ b = j
OBVIOUS

(* An idle request holds values of the right kind. *)
LEMMA NothingTyped == NoChallenge \in Challenge /\ NoCall \in Call
<1>1. NoChallenge \in Challenge
  BY DEF NoChallenge, Challenge, Keys, Purposes
<1> HIDE DEF Challenge, NoChallenge
<1>2. NoCall \in Call
  BY <1>1 DEF NoCall, Call, Keys, AccountPlaces, AccountJobs
<1> QED  BY <1>1, <1>2

(* The invariant holds of an account as its first request finds it. *)
LEMMA SecurityInitially == SecurityInit => SecurityInv
<1> SUFFICES ASSUME NEW secret \in 0..1, NEW registered \in SUBSET KeyIds, SecurityStart(secret, registered)
             PROVE  SecurityInv
  BY DEF SecurityInit
<1>1. NoChallenge \in Challenge /\ NoCall \in Call
  BY NothingTyped
<1>2. SecurityTypes
  BY <1>1, SecurityAssumption DEF SecurityStart, SecurityTypes
<1>3. CallsCurrent
  BY <1>1, SecurityAssumption DEF SecurityStart, CallsCurrent, NoCall, NoChallenge, Issuers
<1>4. ChallengesDistinct /\ UsedIsOver /\ SessionsOld /\ SessionsJustified
  BY DEF SecurityStart, ChallengesDistinct, UsedIsOver, SessionsOld, SessionsJustified
<1> QED  BY <1>2, <1>3, <1>4 DEF SecurityInv

(* Beginning a request reads the row, so what it remembers is current. *)
LEMMA BeginKeepsInv ==
    ASSUME SecurityInv, NEW r \in Callers, NEW job \in AccountJobs, NEW pc \in AccountPlaces,
           NEW c \in Challenge, NEW k \in Keys, BeginCall(r, job, pc, c, k),
           job = "otp-login" => row.secret # 0,
           pc \in {"otp", "code", "grant"} => job \in {"otp-login", "totp-enable"},
           pc = "consume" => job # "passkey-login",
           pc = "password" => job \in {"login", "reauth"},
           pc = "issue" => job \in Issuers,
           job \in Issuers => c.secret = 0,
           pc = "move" => job \in {"reauth-verify", "passkey-register", "totp-setup"},
           pc = "key" => job \in {"passkey-login", "reauth-verify"},
           job = "passkey-add" => k \in KeyIds
    PROVE  SecurityInv'
<1> USE DEF SecurityInv, BeginCall, Reads
<1>1. SecurityTypes'
  BY DEF SecurityTypes, Call
<1>2. CallsCurrent'
  BY DEF SecurityTypes, Call, CallsCurrent
<1>3. (ChallengesDistinct /\ UsedIsOver /\ SessionsOld /\ SessionsJustified)'
  BY DEF ChallengesDistinct, UsedIsOver, SessionsOld, SessionsJustified
<1> QED  BY <1>1, <1>2, <1>3

(* A request that needs no challenge remembers the row it reads (routes/account). *)
LEMMA OpensKeepsInv == ASSUME SecurityInv, NEW r \in Callers, Opens(r) PROVE SecurityInv'
<1> DEFINE wanted(a, k) == [NoChallenge EXCEPT !.ver = row.version, !.action = a, !.key = k]
           ofPurpose(p) == [NoChallenge EXCEPT !.purpose = p]
           wantedFor(a, k, p) == [wanted(a, k) EXCEPT !.purpose = p]
           code == [NoChallenge EXCEPT !.id = row.code]
<1>1. row.version \in Nat /\ row.code \in Nat
  BY SecurityAssumption DEF SecurityInv, SecurityTypes
<1>2. NoChallenge.secret = 0 /\ NoChallenge \in Challenge /\ NoKey \in Keys
  BY NothingTyped DEF NoChallenge, Keys
<1>3. code \in Challenge
  BY <1>1, <1>2 DEF Challenge
<1>4. ASSUME NEW p \in Purposes PROVE ofPurpose(p) \in Challenge /\ ofPurpose(p).secret = 0
  BY <1>2 DEF Challenge
<1>5. ASSUME NEW a \in Actions, NEW k \in KeyIds \cup {NoKey}
      PROVE  wanted(a, k) \in Challenge /\ wanted(a, k).secret = 0
  BY <1>1, <1>2 DEF Challenge, Keys
<1>6. ASSUME NEW a \in Actions, NEW k \in KeyIds \cup {NoKey}, NEW p \in Purposes
      PROVE  wantedFor(a, k, p) \in Challenge /\ wantedFor(a, k, p).secret = 0
  <2> HIDE DEF wanted
  <2> QED  BY <1>5 DEF Challenge
<1> HIDE DEF wanted, ofPurpose, wantedFor, code
<1> USE <1>2, BeginKeepsInv DEF AccountJobs, AccountPlaces, Issuers
<1>7. CASE BeginCall(r, "login", "password", NoChallenge, NoKey)
  BY <1>7
<1>8. CASE BeginCall(r, "passkey-options", "issue", ofPurpose("passkey-login"), NoKey)
  BY <1>4, <1>8 DEF Purposes
<1>9. CASE BeginCall(r, "recover", "recover", code, NoKey)
  BY <1>3, <1>9
<1>10. ASSUME NEW a \in Actions, NEW k \in KeyIds \cup {NoKey},
              \/ BeginCall(r, "reauth", "password", wantedFor(a, k, "reauth-proof"), NoKey)
              \/ BeginCall(r, "reauth-options", "issue", wantedFor(a, k, "reauth-passkey"), NoKey)
       PROVE  SecurityInv'
  BY <1>6, <1>10 DEF Purposes
<1> QED  BY <1>7, <1>8, <1>9, <1>10 DEF Opens, wanted, ofPurpose, wantedFor, code

(* A request that brings a challenge found it in the table (requireSecurityChallenge). *)
LEMMA ContinuesKeepsInv ==
    ASSUME SecurityInv, NEW r \in Callers, NEW c \in challenges, Continues(r, c) PROVE SecurityInv'
<1>1. c \in Challenge /\ NoKey \in Keys /\ keys \subseteq Keys /\ KeyIds \subseteq Keys
  BY DEF SecurityInv, SecurityTypes, Keys
<1> USE BeginKeepsInv DEF AccountJobs, AccountPlaces, Issuers
<1>2. CASE row.secret # 0 /\ BeginCall(r, "otp-login", "otp", c, NoKey)
  BY <1>1, <1>2
<1>3. ASSUME NEW k \in keys, BeginCall(r, "passkey-login", "key", c, k) PROVE SecurityInv'
  BY <1>1, <1>3
<1>4. ASSUME NEW k \in keys, BeginCall(r, "reauth-verify", "key", c, k) PROVE SecurityInv'
  BY <1>1, <1>4
<1>5. CASE BeginCall(r, "passkey-register", "move", c, NoKey)
  BY <1>1, <1>5
<1>6. ASSUME NEW k \in KeyIds, BeginCall(r, "passkey-add", "commit", c, k) PROVE SecurityInv'
  BY <1>1, <1>6
<1>7. CASE BeginCall(r, "passkey-delete", "commit", c, c.key)
  <2>1. c.key \in Keys
    BY <1>1 DEF Challenge
  <2> QED  BY <1>1, <1>7, <2>1
<1>8. CASE BeginCall(r, "totp-setup", "move", c, NoKey)
  BY <1>1, <1>8
<1>9. CASE BeginCall(r, "totp-enable", "otp", c, NoKey)
  BY <1>1, <1>9
<1>10. CASE BeginCall(r, "totp-disable", "commit", c, NoKey)
  BY <1>1, <1>10
<1>11. CASE BeginCall(r, "cancel", "consume", c, NoKey)
  BY <1>1, <1>11
<1> QED  BY <1>2, <1>3, <1>4, <1>5, <1>6, <1>7, <1>8, <1>9, <1>10, <1>11 DEF Continues

(* A step that changes nothing but what a request remembers. *)
LEMMA ReadsKeepsInv ==
    ASSUME SecurityInv, Reads, SecurityTypes', CallsCurrent' PROVE SecurityInv'
BY DEF SecurityInv, Reads, ChallengesDistinct, UsedIsOver, SessionsOld, SessionsJustified

(* An accepted password leads on for the version the request read, or to nothing. *)
LEMMA PasswordKeepsInv == ASSUME SecurityInv, NEW r \in Callers, PasswordAccepted(r) PROVE SecurityInv'
<1> DEFINE fresh == [NoChallenge EXCEPT !.ver = call[r].ver, !.purpose = "otp-login"]
           pc == IF call[r].secret = 0 THEN "grant" ELSE "issue"
           pc2 == IF call[r].secret = 0 THEN "issue" ELSE "otp"
<1> USE NothingTyped DEF SecurityInv
<1>1. Reads /\ call[r].pc = "password"
  BY DEF PasswordAccepted
<1>2. fresh \in Challenge /\ fresh.secret = 0
  BY DEF NoChallenge, SecurityTypes, Call, Challenge, Purposes
<1>3. \/ call' = [call EXCEPT ![r] = NoCall]
      \/ call[r].job = "login" /\ call' = [call EXCEPT ![r].pc = pc, ![r].c = fresh]
      \/ call[r].job = "reauth" /\ call' = [call EXCEPT ![r].pc = pc2]
  BY DEF PasswordAccepted, Done, To, CallsCurrent
<1> HIDE DEF fresh
<1>4. SecurityTypes'
  BY <1>1, <1>2, <1>3 DEF Reads, SecurityTypes, Call, AccountPlaces
<1>5. CallsCurrent'
  BY <1>1, <1>2, <1>3 DEF Reads, SecurityTypes, Call, CallsCurrent, NoCall, NoChallenge, Issuers
<1> QED  BY <1>1, <1>4, <1>5, ReadsKeepsInv

(* A new challenge gets an id no challenge has had (createAuthChallenge). *)
LEMMA IssueKeepsInv == ASSUME SecurityInv, NEW r \in Callers, IssueChallenge(r) PROVE SecurityInv'
<1> USE NothingTyped DEF SecurityInv, IssueChallenge, Done
<1> DEFINE new == [call[r].c EXCEPT !.id = ids + 1]
<1>1. PICK old \in SUBSET challenges : challenges' = (challenges \ old) \cup {new}
  OBVIOUS
<1>2. new \in Challenge /\ new.id = ids + 1 /\ new.secret = 0 /\ new.ver = call[r].c.ver
  BY DEF SecurityTypes, Call, Challenge, CallsCurrent
<1> HIDE DEF new
<1>3. SecurityTypes'
  BY <1>1, <1>2, SecurityAssumption DEF SecurityTypes
<1>4. CallsCurrent'
  BY DEF SecurityTypes, Call, CallsCurrent, NoCall, NoChallenge, Issuers
<1>5. ChallengesDistinct'
  BY <1>1, <1>2 DEF SecurityTypes, ChallengesDistinct
<1>6. UsedIsOver'
  BY <1>1, <1>2 DEF SecurityTypes, UsedIsOver
<1>7. SessionsOld' /\ SessionsJustified'
  BY DEF SessionsOld, SessionsJustified
<1> QED  BY <1>3, <1>4, <1>5, <1>6, <1>7

(* Counting a code, refusing one, and asking for a passkey change no proof. *)
LEMMA OtpKeepsInv ==
    ASSUME SecurityInv, NEW r \in Callers,
           ReserveOtp(r) \/ OtpWrong(r) \/ KeyMatches(r)
    PROVE  SecurityInv'
<1> USE NothingTyped DEF SecurityInv, Done, To
<1>1. CASE ReserveOtp(r)
  <2> USE <1>1 DEF ReserveOtp
  <2>1. SecurityTypes'
    BY SecurityAssumption DEF SecurityTypes, Call, AccountPlaces
  <2>2. CallsCurrent'
    BY DEF SecurityTypes, Call, CallsCurrent, NoCall, NoChallenge, Issuers
  <2>3. (ChallengesDistinct /\ UsedIsOver /\ SessionsOld /\ SessionsJustified)'
    BY DEF SecurityTypes, ChallengesDistinct, UsedIsOver, SessionsOld, SessionsJustified
  <2> QED  BY <2>1, <2>2, <2>3
<1>2. CASE OtpWrong(r)
  BY <1>2, ReadsKeepsInv
     DEF OtpWrong, Reads, SecurityTypes, Call, CallsCurrent, NoCall, NoChallenge, Issuers
<1>3. CASE KeyMatches(r)
  <2>1. SecurityTypes'
    BY <1>3 DEF KeyMatches, Reads, SecurityTypes, Call, AccountPlaces
  <2>2. CallsCurrent'
    BY <1>3 DEF KeyMatches, Reads, SecurityTypes, Call, CallsCurrent, NoCall, NoChallenge, Issuers
  <2> QED  BY <1>3, <2>1, <2>2, ReadsKeepsInv DEF KeyMatches
<1> QED  BY <1>1, <1>2, <1>3

(* A matching code is newer than every one used of the same secret. *)
LEMMA OtpMatchKeepsInv ==
    ASSUME SecurityInv, NEW r \in Callers, NEW s \in 1..LastStep, OtpMatches(r, s)
    PROVE  SecurityInv'
<1> USE NothingTyped, SecurityAssumption DEF SecurityInv, Done, To
<1> DEFINE q == call[r]
<1>1. CASE row.secret = q.secret /\ row.lastUsed < s /\ row.version = q.ver
  <2>1. /\ row' = [row EXCEPT !.lastUsed = s]
        /\ used' = used \cup {<<"otp", q.secret, s>>}
        /\ reused' = IF <<"otp", q.secret, s>> \in used THEN reused \cup {<<"otp", q.secret, s>>} ELSE reused
        /\ call' = [call EXCEPT ![r].pc = IF q.job = "otp-login" THEN "consume" ELSE "issue"]
        /\ q.job \in {"otp-login", "reauth"} /\ q.pc = "code"
        /\ UNCHANGED <<step, keys, challenges, sessions, ids, secrets>>
    BY <1>1 DEF OtpMatches, Accept
  <2>2. q.secret \in 1..secrets /\ q.secret \in Int /\ s \in Int
    BY <1>1, <2>1 DEF CallsCurrent, SecurityTypes, Call
  <2>3. <<"otp", q.secret, s>> \notin used
    BY <1>1, <2>2 DEF UsedIsOver, SecurityTypes
  <2>4. \A c \in challenges : c.secret # q.secret
    BY <1>1, <2>2 DEF ChallengesDistinct
  <2>5. SecurityTypes'
    BY <2>1, <2>3 DEF SecurityTypes, Call, AccountPlaces
  <2>6. CallsCurrent'
    BY <2>1 DEF SecurityTypes, Call, CallsCurrent, Issuers
  <2>7. row'.secret = row.secret /\ row'.lastUsed = s /\ row'.version = row.version /\ row'.code = row.code
    BY <2>1 DEF SecurityTypes
  <2>8. UsedIsOver'
    <3>1. ASSUME NEW a \in Int, NEW b \in Int, <<"otp", a, b>> \in used'
          PROVE  a \in 1..secrets /\ (a = row.secret => b <= s) /\ \A c \in challenges : c.secret # a
      <4>1. CASE <<"otp", a, b>> \in used
        BY <1>1, <4>1 DEF UsedIsOver, SecurityTypes
      <4>2. CASE a = q.secret /\ b = s
        BY <1>1, <2>2, <2>4, <4>2
      <4> QED  BY <2>1, <3>1, <4>1, <4>2, ProofsDistinct
    <3>2. \A i : <<"challenge", i>> \in used' => <<"challenge", i>> \in used
      BY <2>1, ProofsDistinct
    <3>3. \A i : <<"code", i>> \in used' => <<"code", i>> \in used
      BY <2>1, ProofsDistinct
    <3> QED  BY <2>1, <2>3, <2>7, <3>1, <3>2, <3>3 DEF UsedIsOver
  <2>9. (ChallengesDistinct /\ SessionsOld /\ SessionsJustified)'
    BY <2>1, <2>7 DEF ChallengesDistinct, SessionsOld, SessionsJustified
  <2> QED  BY <2>5, <2>6, <2>8, <2>9
<1>2. CASE ~(row.secret = q.secret /\ row.lastUsed < s /\ row.version = q.ver)
  <2>1. Reads /\ call' = [call EXCEPT ![r] = NoCall]
    BY <1>2 DEF OtpMatches, Reads, NoneUsed
  <2> QED
    BY <2>1, ReadsKeepsInv DEF Reads, SecurityTypes, Call, CallsCurrent, NoCall, NoChallenge, Issuers
<1> QED  BY <1>1, <1>2

(* A challenge changes its purpose under its own id; a secret offered in it is a new one
   (transitionAuthChallenge). *)
LEMMA MoveKeepsInv == ASSUME SecurityInv, NEW r \in Callers, MoveChallenge(r) PROVE SecurityInv'
<1> USE NothingTyped DEF SecurityInv
<1> DEFINE c == call[r].c
           new == IF call[r].job = "totp-setup" THEN secrets + 1 ELSE 0
           moved == [c EXCEPT !.purpose = NextPurpose(call[r].job), !.secret = new]
<1>1. /\ call[r].pc = "move" /\ new <= MaxSecrets
      /\ secrets' = secrets + (IF new = 0 THEN 0 ELSE 1)
      /\ challenges' = IF c \in challenges /\ c.ver = row.version
                       THEN (challenges \ {c}) \cup {moved} ELSE challenges
      /\ call' = [call EXCEPT ![r] = NoCall]
      /\ UNCHANGED <<step, row, keys, sessions, ids, used, reused>>
  BY DEF MoveChallenge, Done
<1>2. secrets \in Nat /\ secrets' \in 0..MaxSecrets /\ secrets <= secrets' /\ (new = 0 \/ new = secrets + 1)
      /\ (new # 0 => secrets' = new) /\ new \in Nat
  BY <1>1, SecurityAssumption DEF SecurityTypes
<1>3. call[r].job \in {"reauth-verify", "passkey-register", "totp-setup"}
  BY <1>1 DEF CallsCurrent
<1>4. moved \in Challenge /\ moved.id = c.id /\ moved.ver = c.ver /\ moved.secret = new
  BY <1>2, <1>3 DEF SecurityTypes, Call, Challenge, Purposes, NextPurpose
<1> HIDE DEF moved, new
<1>5. SecurityTypes'
  BY <1>1, <1>2, <1>4 DEF SecurityTypes
<1>6. CallsCurrent'
  BY <1>1 DEF SecurityTypes, Call, CallsCurrent, NoCall, NoChallenge, Issuers
<1>7. ChallengesDistinct'
  <2>1. row.version # 0 /\ row.secret <= secrets /\ row.secret \in Nat
    BY DEF SecurityTypes
  <2> QED  BY <1>1, <1>2, <1>4, <2>1 DEF ChallengesDistinct
<1>8. UsedIsOver'
  BY <1>1, <1>2, <1>4 DEF UsedIsOver
<1> QED  BY <1>1, <1>5, <1>6, <1>7, <1>8 DEF SessionsOld, SessionsJustified

(* A challenge in the table has not been spent, and no other one has its id. *)
LEMMA SpendKeepsUsed ==
    ASSUME SecurityInv, NEW c \in challenges, Accept(<<"challenge", c.id>>),
           challenges' \subseteq challenges \ {c}, UNCHANGED ids,
           row'.code = row.code,
           \A secret \in Int, s \in Int : <<"otp", secret, s>> \in used =>
               secret \in 1..secrets' /\ (secret = row'.secret => s <= row'.lastUsed)
    PROVE  UsedIsOver' /\ reused' = {} /\ used' = used \cup {<<"challenge", c.id>>}
           /\ <<"challenge", c.id>> \notin used
<1> USE DEF SecurityInv, Accept
<1>1. c.id \in Int /\ c.id <= ids
  BY DEF ChallengesDistinct, SecurityTypes
<1>2. <<"challenge", c.id>> \notin used
  BY <1>1 DEF UsedIsOver
<1>3. used' = used \cup {<<"challenge", c.id>>} /\ reused' = {}
  BY <1>2 DEF UsedIsOver
<1>4. ASSUME NEW secret \in Int, NEW s \in Int, <<"otp", secret, s>> \in used'
      PROVE  /\ secret \in 1..secrets' /\ (secret = row'.secret => s <= row'.lastUsed)
             /\ \A d \in challenges' : d.secret # secret
  <2>1. <<"otp", secret, s>> \in used
    BY <1>3, <1>4, ProofsDistinct
  <2> QED  BY <2>1 DEF UsedIsOver
<1>5. ASSUME NEW i \in Int, <<"challenge", i>> \in used'
      PROVE  i <= ids' /\ \A d \in challenges' : d.id # i
  <2>1. CASE <<"challenge", i>> \in used
    BY <2>1 DEF UsedIsOver
  <2>2. CASE i = c.id
    BY <1>1, <2>2 DEF ChallengesDistinct
  <2> QED  BY <1>3, <1>5, <2>1, <2>2, ProofsDistinct
<1>6. ASSUME NEW i \in Int, <<"code", i>> \in used' PROVE i < row'.code
  <2>1. <<"code", i>> \in used
    BY <1>3, <1>6, ProofsDistinct
  <2> QED  BY <2>1 DEF UsedIsOver
<1> QED  BY <1>2, <1>3, <1>4, <1>5, <1>6 DEF UsedIsOver

(* The request whose DELETE found the challenge is the only one it proves for
   (consumeAuthChallenge). *)
LEMMA ConsumeKeepsInv == ASSUME SecurityInv, NEW r \in Callers, Consume(r) PROVE SecurityInv'
<1> USE NothingTyped DEF SecurityInv, Consume, To, Done
<1> DEFINE c == call[r].c
<1>1. CASE Spendable(c) /\ call[r].job # "cancel"
  <2>1. /\ Accept(<<"challenge", c.id>>) /\ challenges' = challenges \ {c} /\ c \in challenges
        /\ call' = [call EXCEPT ![r].pc = "grant"] /\ call[r].pc = "consume"
        /\ UNCHANGED <<step, row, keys, sessions, ids, secrets>>
    BY <1>1 DEF Spendable
  <2>2. UsedIsOver' /\ reused' = {}
    BY <2>1, SpendKeepsUsed DEF UsedIsOver
  <2>3. SecurityTypes'
    BY <2>1, <2>2 DEF SecurityTypes, Call, AccountPlaces
  <2>4. CallsCurrent'
    BY <2>1 DEF SecurityTypes, Call, CallsCurrent, Issuers
  <2>5. (ChallengesDistinct /\ SessionsOld /\ SessionsJustified)'
    BY <2>1 DEF ChallengesDistinct, SessionsOld, SessionsJustified
  <2> QED  BY <2>2, <2>3, <2>4, <2>5
<1>2. CASE ~(Spendable(c) /\ call[r].job # "cancel")
  <2>1. /\ challenges' \subseteq challenges /\ call' = [call EXCEPT ![r] = NoCall]
        /\ UNCHANGED <<step, row, keys, sessions, ids, secrets, used, reused>>
    BY <1>2 DEF NoneUsed
  <2>2. SecurityTypes' /\ CallsCurrent'
    BY <2>1 DEF SecurityTypes, Call, CallsCurrent, NoCall, NoChallenge, Issuers
  <2>3. (ChallengesDistinct /\ UsedIsOver)'
    BY <2>1 DEF ChallengesDistinct, UsedIsOver
  <2> QED  BY <2>1, <2>2, <2>3 DEF SessionsOld, SessionsJustified
<1> QED  BY <1>1, <1>2

(* A cookie is handed out for the version the login began with, and only while it lasts. *)
LEMMA GrantKeepsInv == ASSUME SecurityInv, NEW r \in Callers, Grant(r) PROVE SecurityInv'
<1> USE NothingTyped DEF SecurityInv, Grant, Done
<1> DEFINE q == call[r]
           new == [ver |-> q.ver, by |-> q.job, key |-> q.key]
           ok == row.version = q.ver /\ (q.job = "login" => row.secret = 0)
<1>1. /\ q.pc = "grant" /\ call' = [call EXCEPT ![r] = NoCall]
      /\ sessions' = IF ok THEN sessions \cup {new} ELSE sessions
      /\ UNCHANGED <<step, row, keys, challenges, ids, secrets, used, reused>>
  OBVIOUS
<1>2. new \in [ver : Nat, by : AccountJobs, key : Keys] /\ row.version \in 1..MaxVersion
  BY DEF SecurityTypes, Call
<1>3. SecurityTypes' /\ CallsCurrent'
  BY <1>1, <1>2 DEF SecurityTypes, Call, CallsCurrent, NoCall, NoChallenge, Issuers
<1>4. SessionsOld'
  BY <1>1, <1>2, SecurityAssumption DEF SessionsOld
<1>5. SessionsJustified'
  BY <1>1 DEF SessionsJustified, CallsCurrent
<1> QED  BY <1>1, <1>3, <1>4, <1>5 DEF ChallengesDistinct, UsedIsOver

(* When the version moves on, whatever was begun or granted before it is old. *)
LEMMA NextVersion ==
    ASSUME SecurityInv, NEW r \in Callers, call' = [call EXCEPT ![r] = NoCall],
           row'.version = row.version + 1, UNCHANGED sessions
    PROVE  CallsCurrent' /\ SessionsOld' /\ SessionsJustified'
<1> USE NothingTyped DEF SecurityInv
<1>1. row.version \in Nat
  BY SecurityAssumption DEF SecurityTypes
<1>2. CallsCurrent'
  BY <1>1 DEF SecurityTypes, Call, CallsCurrent, NoCall, NoChallenge, Issuers
<1> QED  BY <1>1, <1>2 DEF SessionsOld, SessionsJustified

RowType == [version : 1..MaxVersion, code : 1..MaxVersion, secret : 0..MaxSecrets,
            lastUsed : 0..LastStep, otpTries : 0..OtpLimit]

(* The batch of commitSecurityChange spends its challenge, deletes the others of the account,
   and makes every session and request of the old version stale. *)
LEMMA CommitKeepsInv ==
    ASSUME SecurityInv, NEW r \in Callers, NEW newRow \in RowType, NEW newKeys \in SUBSET KeyIds,
           Claimable(call[r].c), Commit(r, newRow, newKeys),
           newRow.version = row.version, newRow.code = row.code, newRow.secret <= secrets,
           \A s \in Int : <<"otp", newRow.secret, s>> \in used => s <= newRow.lastUsed
    PROVE  SecurityInv' /\ <<"challenge", call[r].c.id>> \in used' \ used /\ row'.version = row.version + 1
<1> USE SecurityAssumption DEF SecurityInv, Commit, Done
<1> DEFINE c == call[r].c
<1>1. row.version \in 1..MaxVersion /\ row.version < MaxVersion /\ row.code \in 1..MaxVersion
  BY DEF SecurityTypes
<1>2. /\ row' \in RowType /\ row'.version = row.version + 1 /\ row'.code = row.code
      /\ row'.secret = newRow.secret /\ row'.lastUsed = newRow.lastUsed
  BY <1>1 DEF RowType
<1>3. c \in challenges /\ challenges' \subseteq challenges \ {c} /\ \A d \in challenges' : d.secret = 0
  BY <1>1 DEF Claimable, ChallengesDistinct
<1>4. /\ UsedIsOver' /\ reused' = {} /\ used' = used \cup {<<"challenge", c.id>>}
      /\ <<"challenge", c.id>> \notin used
  BY <1>2, <1>3, SpendKeepsUsed DEF UsedIsOver
<1>5. SecurityTypes'
  BY <1>1, <1>2, <1>3, <1>4, NothingTyped DEF SecurityTypes, RowType
<1>6. CallsCurrent' /\ SessionsOld' /\ SessionsJustified'
  BY <1>2, NextVersion
<1>7. ChallengesDistinct'
  BY <1>3 DEF ChallengesDistinct
<1> QED  BY <1>2, <1>4, <1>5, <1>6, <1>7

(* What the property ChangesNeedFreshProof asks of a step. *)
FreshlyProved ==
    \/ keys' = keys /\ row'.secret = row.secret
    \/ /\ row'.version = row.version + 1
       /\ \/ row'.code # row.code
          \/ \E c \in challenges : c.ver = row.version /\ <<"challenge", c.id>> \in used' \ used

(* Adding or deleting a passkey and switching codes off are such batches, or do nothing. *)
LEMMA ChangeKeepsInv ==
    ASSUME SecurityInv, NEW r \in Callers, CommitChange(r) PROVE SecurityInv' /\ FreshlyProved
<1> USE DEF FreshlyProved
<1> DEFINE q == call[r]
           off == [row EXCEPT !.secret = 0, !.lastUsed = 0, !.otpTries = 0]
<1>1. row \in RowType /\ row.secret <= secrets /\ keys \in SUBSET KeyIds
      /\ (q.job = "passkey-add" => q.key \in KeyIds)
      /\ \A s \in Int : <<"otp", row.secret, s>> \in used => s <= row.lastUsed
  BY DEF SecurityInv, SecurityTypes, RowType, CallsCurrent, UsedIsOver
<1>2. row \in RowType /\ 0 \in 0..MaxSecrets /\ 0 \in 0..LastStep /\ 0 \in 0..OtpLimit
  BY <1>1, SecurityAssumption
<1>3. off \in RowType
  BY <1>2 DEF RowType
<1>4. off.version = row.version /\ off.code = row.code /\ off.secret = 0
  BY <1>1 DEF RowType
<1> HIDE DEF off
<1>5. 0 <= secrets /\ \A s \in Int : <<"otp", 0, s>> \notin used
  BY SecurityAssumption DEF SecurityInv, SecurityTypes, UsedIsOver
<1>6. off \in RowType /\ off.version = row.version /\ off.code = row.code
      /\ off.secret <= secrets /\ \A s \in Int : <<"otp", off.secret, s>> \notin used
  BY <1>3, <1>4, <1>5
<1>7. ASSUME NEW newRow \in {row, off}, NEW newKeys \in SUBSET KeyIds, Claimable(q.c),
             Commit(r, newRow, newKeys)
      PROVE  SecurityInv' /\ FreshlyProved
  <2>1. /\ SecurityInv' /\ row'.version = row.version + 1
        /\ <<"challenge", q.c.id>> \in used' \ used
    BY <1>1, <1>6, <1>7, CommitKeepsInv
  <2> QED  BY <1>7, <2>1 DEF Claimable
<1>8. CASE ~(Claimable(q.c) /\ Eligible(q))
  <2>1. Reads /\ call' = [call EXCEPT ![r] = NoCall]
    BY <1>8 DEF CommitChange, Done
  <2>2. SecurityInv'
    BY <2>1, ReadsKeepsInv, NothingTyped
       DEF SecurityInv, Reads, SecurityTypes, Call, CallsCurrent, NoCall, NoChallenge, Issuers
  <2> QED  BY <2>1, <2>2 DEF Reads
<1>9. CASE Claimable(q.c) /\ q.job = "passkey-add" /\ Commit(r, row, keys \cup {q.key})
  BY <1>1, <1>7, <1>9
<1>10. CASE Claimable(q.c) /\ q.job = "passkey-delete" /\ Commit(r, row, keys \ {q.key})
  BY <1>1, <1>7, <1>10
<1>11. CASE Claimable(q.c) /\ q.job = "totp-disable" /\ Commit(r, off, keys)
  BY <1>1, <1>7, <1>11
<1> QED  BY <1>8, <1>9, <1>10, <1>11 DEF CommitChange, off

(* totpConfirm is such a batch too, and its secret has proved nothing before. *)
LEMMA ConfirmKeepsInv ==
    ASSUME SecurityInv, NEW r \in Callers, NEW s \in 1..LastStep, ConfirmTotp(r, s)
    PROVE  SecurityInv' /\ FreshlyProved
<1> DEFINE c == call[r].c
           on == [row EXCEPT !.secret = c.secret, !.lastUsed = s]
<1>1. CASE Claimable(c) /\ row.secret = 0
  <2>1. Commit(r, on, keys)
    BY <1>1 DEF ConfirmTotp
  <2>2. row \in RowType /\ c.secret \in 0..secrets /\ secrets \in 0..MaxSecrets /\ c.secret \in Int
        /\ \A t \in Int : <<"otp", c.secret, t>> \notin used
    BY <1>1, SecurityAssumption
       DEF SecurityInv, SecurityTypes, RowType, ChallengesDistinct, UsedIsOver, Claimable
  <2>3. c.secret \in 0..MaxSecrets /\ s \in 0..LastStep
    BY <2>2, SecurityAssumption
  <2>4. on \in RowType
    BY <2>2, <2>3 DEF RowType
  <2>5. on.version = row.version /\ on.code = row.code /\ on.secret = c.secret
    BY <2>2 DEF RowType
  <2> HIDE DEF on
  <2>6. on \in RowType /\ on.version = row.version /\ on.code = row.code /\ on.secret = c.secret
        /\ on.secret <= secrets
    BY <2>2, <2>4, <2>5
  <2>7. keys \in SUBSET KeyIds
    BY DEF SecurityInv, SecurityTypes
  <2>8. SecurityInv' /\ row'.version = row.version + 1 /\ <<"challenge", c.id>> \in used' \ used
    BY <1>1, <2>1, <2>2, <2>6, <2>7, CommitKeepsInv
  <2> QED  BY <1>1, <2>8 DEF Claimable, FreshlyProved
<1>2. CASE ~(Claimable(c) /\ row.secret = 0)
  <2>1. Reads /\ call' = [call EXCEPT ![r] = NoCall]
    BY <1>2 DEF ConfirmTotp, Done
  <2>2. SecurityInv'
    BY <2>1, ReadsKeepsInv, NothingTyped
       DEF SecurityInv, Reads, SecurityTypes, Call, CallsCurrent, NoCall, NoChallenge, Issuers
  <2> QED  BY <2>1, <2>2 DEF Reads, FreshlyProved
<1> QED  BY <1>1, <1>2

(* A recovery code is replaced by the batch that accepts it, with every factor. *)
LEMMA RecoverKeepsInv ==
    ASSUME SecurityInv, NEW r \in Callers, Recover(r) PROVE SecurityInv' /\ FreshlyProved
<1> USE NothingTyped, SecurityAssumption DEF SecurityInv, Done
<1> DEFINE id == call[r].c.id
<1>1. CASE row.code = id /\ row.version = call[r].ver
  <2>1. /\ row.version < MaxVersion /\ call' = [call EXCEPT ![r] = NoCall]
        /\ row' = [version |-> row.version + 1, code |-> row.code + 1, secret |-> 0,
                   lastUsed |-> 0, otpTries |-> 0]
        /\ keys' = {} /\ challenges' = {c \in challenges : c.ver = 0}
        /\ Accept(<<"code", id>>) /\ UNCHANGED <<step, sessions, ids, secrets>>
    BY <1>1 DEF Recover
  <2>2. row.version \in 1..MaxVersion /\ row.code \in 1..MaxVersion /\ row.code <= row.version
        /\ id = row.code /\ id \in Int /\ secrets \in Nat
    BY <1>1 DEF SecurityTypes
  <2>3. <<"code", id>> \notin used
    BY <2>2 DEF UsedIsOver
  <2>4. used' = used \cup {<<"code", id>>} /\ reused' = {}
    BY <2>1, <2>3 DEF Accept, UsedIsOver
  <2>5. CallsCurrent' /\ SessionsOld' /\ SessionsJustified'
    BY <2>1, NextVersion
  <2>6. SecurityTypes'
    BY <2>1, <2>2, <2>4 DEF SecurityTypes
  <2>7. ChallengesDistinct'
    BY <2>1 DEF ChallengesDistinct
  <2>8. UsedIsOver'
    <3>1. ASSUME NEW secret \in Int, NEW s \in Int, <<"otp", secret, s>> \in used'
          PROVE  /\ secret \in 1..secrets /\ secret # 0 /\ \A c \in challenges : c.secret # secret
      BY <2>2, <2>4, <3>1, ProofsDistinct DEF UsedIsOver
    <3>2. ASSUME NEW i \in Int, <<"challenge", i>> \in used'
          PROVE  i <= ids /\ \A c \in challenges : c.id # i
      BY <2>4, <3>2, ProofsDistinct DEF UsedIsOver
    <3>3. ASSUME NEW i \in Int, <<"code", i>> \in used' PROVE i < row.code + 1
      BY <2>2, <2>4, <3>3, ProofsDistinct DEF UsedIsOver
    <3> QED  BY <2>1, <2>4, <3>1, <3>2, <3>3 DEF UsedIsOver
  <2>9. FreshlyProved
    BY <2>1, <2>2 DEF FreshlyProved
  <2> QED  BY <2>5, <2>6, <2>7, <2>8, <2>9
<1>2. CASE ~(row.code = id /\ row.version = call[r].ver)
  <2>1. Reads /\ call' = [call EXCEPT ![r] = NoCall]
    BY <1>2 DEF Recover, Reads
  <2>2. SecurityInv'
    BY <2>1, ReadsKeepsInv DEF Reads, SecurityTypes, Call, CallsCurrent, NoCall, NoChallenge, Issuers
  <2> QED  BY <2>1, <2>2 DEF Reads, FreshlyProved
<1> QED  BY <1>1, <1>2

(* Time passing and challenges expiring take proofs away and add none. *)
LEMMA TimeKeepsInv ==
    ASSUME SecurityInv, StepPasses \/ \E c \in challenges : Expire(c) PROVE SecurityInv' /\ FreshlyProved
<1> USE SecurityAssumption DEF SecurityInv
<1>1. CASE StepPasses
  <2> USE <1>1 DEF StepPasses
  <2>1. SecurityTypes' /\ row'.version = row.version /\ row'.code = row.code
        /\ row'.secret = row.secret /\ row'.lastUsed = row.lastUsed
    BY DEF SecurityTypes
  <2>2. (CallsCurrent /\ ChallengesDistinct /\ UsedIsOver /\ SessionsOld /\ SessionsJustified)'
    BY <2>1 DEF CallsCurrent, ChallengesDistinct, UsedIsOver, SessionsOld, SessionsJustified
  <2> QED  BY <2>1, <2>2 DEF FreshlyProved
<1>2. ASSUME NEW c \in challenges, Expire(c) PROVE SecurityInv' /\ FreshlyProved
  <2> USE <1>2 DEF Expire
  <2>1. SecurityTypes' /\ CallsCurrent'
    BY DEF SecurityTypes, CallsCurrent
  <2>2. (ChallengesDistinct /\ UsedIsOver /\ SessionsOld /\ SessionsJustified)'
    BY DEF ChallengesDistinct, UsedIsOver, SessionsOld, SessionsJustified
  <2> QED  BY <2>1, <2>2 DEF FreshlyProved
<1> QED  BY <1>1, <1>2

(* SecurityInv is inductive, and every step is FreshlyProved. *)
LEMMA SecurityStep ==
    ASSUME SecurityInv, [SecurityNext]_securityVars PROVE SecurityInv' /\ FreshlyProved
<1>1. ASSUME NEW r \in Callers, Opens(r) PROVE SecurityInv' /\ FreshlyProved
  <2>1. Reads
    BY <1>1 DEF Opens, BeginCall
  <2> QED  BY <1>1, <2>1, OpensKeepsInv DEF Reads, FreshlyProved
<1>2. ASSUME NEW r \in Callers, NEW c \in challenges, Continues(r, c) PROVE SecurityInv' /\ FreshlyProved
  <2>1. Reads
    BY <1>2 DEF Continues, BeginCall
  <2> QED  BY <1>2, <2>1, ContinuesKeepsInv DEF Reads, FreshlyProved
<1>3. ASSUME NEW r \in Callers,
             \/ PasswordAccepted(r) \/ IssueChallenge(r) \/ ReserveOtp(r) \/ OtpWrong(r)
             \/ KeyMatches(r) \/ MoveChallenge(r) \/ Consume(r) \/ Grant(r)
      PROVE  SecurityInv' /\ FreshlyProved
  <2>1. SecurityInv'
    BY <1>3, PasswordKeepsInv, IssueKeepsInv, OtpKeepsInv, MoveKeepsInv, ConsumeKeepsInv, GrantKeepsInv
  <2>2. keys' = keys /\ row'.secret = row.secret
    BY <1>3 DEF PasswordAccepted, IssueChallenge, ReserveOtp, OtpWrong, KeyMatches, MoveChallenge,
                Consume, Grant, Reads, SecurityInv, SecurityTypes
  <2> QED  BY <2>1, <2>2 DEF FreshlyProved
<1>4. ASSUME NEW r \in Callers, NEW s \in 1..LastStep, OtpMatches(r, s) PROVE SecurityInv' /\ FreshlyProved
  <2>1. keys' = keys /\ row'.secret = row.secret
    BY <1>4 DEF OtpMatches, SecurityInv, SecurityTypes
  <2> QED  BY <1>4, <2>1, OtpMatchKeepsInv DEF FreshlyProved
<1>5. CASE UNCHANGED securityVars
  BY <1>5 DEF securityVars, SecurityInv, SecurityTypes, CallsCurrent, ChallengesDistinct, UsedIsOver,
              SessionsOld, SessionsJustified, FreshlyProved
<1> QED
  BY <1>1, <1>2, <1>3, <1>4, <1>5, ChangeKeepsInv, ConfirmKeepsInv, RecoverKeepsInv, TimeKeepsInv
     DEF SecurityNext

(* SecurityInv holds in every reachable state, for any number of callers, keys, versions, secrets
   and challenges: the changes of securityHandlers.ts and the logins may interleave as they like. *)
THEOREM SecurityInvariant == SecuritySpec => []SecurityInv
<1>1. SecurityInv /\ [SecurityNext]_securityVars => SecurityInv'
  BY SecurityStep
<1> QED  BY SecurityInitially, <1>1, PTL DEF SecuritySpec

(* The rows of accounts, account_totp and account_auth_challenges stay within their ranges, and
   no cookie is of a version the account has not reached. *)
THEOREM SecurityTypesKept == SecuritySpec => []SecurityTypeOK
<1>1. SecurityInv => SecurityTypeOK
  BY DEF SecurityInv, SecurityTypes, SecurityTypeOK, ChallengesDistinct, SessionsOld
<1> QED  BY SecurityInvariant, <1>1, PTL

(* A cookie that still opens the account was earned with the factors the account has now
   (grantSession.ts compares the version the login began with). *)
THEOREM SessionsStayJustified == SecuritySpec => []SessionsJustified
<1>1. SecurityInv => SessionsJustified
  BY DEF SecurityInv
<1> QED  BY SecurityInvariant, <1>1, PTL

(* No code, challenge or recovery code is accepted twice, whichever requests present it at
   the same moment (consumeAuthChallenge, verifyAccountOtp, commitSecurityChange). *)
THEOREM ProofsUsedOnce == SecuritySpec => []NothingUsedTwice
<1>1. SecurityInv => NothingUsedTwice
  BY DEF SecurityInv, UsedIsOver, NothingUsedTwice
<1> QED  BY SecurityInvariant, <1>1, PTL

(* The factors change only with the version, and on a challenge of that version which nobody
   spent before, or on a recovery (commitSecurityChange, account/recover). *)
THEOREM ChangesAreProved == SecuritySpec => ChangesNeedFreshProof
<1>1. SecurityInv /\ [SecurityNext]_securityVars =>
        [(keys' # keys \/ row'.secret # row.secret) =>
           /\ row'.version = row.version + 1
           /\ \/ row'.code # row.code
              \/ \E c \in challenges : c.ver = row.version /\ <<"challenge", c.id>> \in used' \ used
        ]_securityVars
  BY SecurityStep DEF FreshlyProved
<1> QED  BY SecurityInvariant, <1>1, PTL DEF SecuritySpec, ChangesNeedFreshProof


(***************************************************************************)
(* Dates and plans                                                         *)
(***************************************************************************)
\* A finite set of dates has a last one, and Max is it.
LEMMA MaxOfDates ==
    ASSUME NEW S \in SUBSET Int, IsFiniteSet(S), S # {}
    PROVE  Max(S) \in S /\ \A d \in S : d <= Max(S)
<1> DEFINE HasMax(T) == \E m \in T : \A d \in T : d <= m
           Bad == {T \in FiniteSubsetsOf(S) : T # {} /\ ~HasMax(T)}
<1>1. ASSUME Bad # {} PROVE FALSE
  <2>1. PICK T \in Bad : \A U \in Bad : <<U, T>> \notin StrictSubsetOrdering(S)
    <3> HIDE DEF HasMax
    <3> QED  BY <1>1, FS_StrictSubsetOrderingWellFounded, WFMin
  <2>2. T \in SUBSET Int /\ IsFiniteSet(T) /\ T \in SUBSET S
    BY <2>1 DEF FiniteSubsetsOf
  <2>3. PICK x \in T : TRUE
    BY <2>1
  <2> DEFINE U == T \ {x}
  <2>4. U \in FiniteSubsetsOf(S) /\ <<U, T>> \in StrictSubsetOrdering(S)
    BY <2>2, <2>3, FS_RemoveElement DEF FiniteSubsetsOf, StrictSubsetOrdering
  <2>5. U = {} \/ HasMax(U)
    BY <2>1, <2>4
  <2>6. HasMax(T)
    <3>1. CASE U = {}
      BY <2>2, <2>3, <3>1
    <3>2. ASSUME NEW m \in U, \A d \in U : d <= m PROVE HasMax(T)
      BY <2>2, <2>3, <3>2
    <3> QED  BY <2>5, <3>1, <3>2
  <2> QED  BY <2>1, <2>6
<1>2. HasMax(S)
  BY <1>1 DEF FiniteSubsetsOf
<1> QED  BY <1>2 DEF Max

\* Of some charges one was created first.
LEMMA LeastCharge ==
    ASSUME NEW S \in SUBSET Int, IsFiniteSet(S), S # {}
    PROVE  Min(S) \in S
<1> DEFINE T == {0 - d : d \in S}
           f == [d \in S |-> 0 - d]
<1>1. f \in Surjection(S, T)
  BY DEF Surjection
<1>2. (\A t \in T : t \in Int) /\ T # {}
  <2>1. \A d \in S : 0 - d \in Int
    OBVIOUS
  <2>2. PICK d \in S : TRUE
    OBVIOUS
  <2>3. 0 - d \in T
    BY <2>2
  <2> QED  BY <2>1, <2>3
<1>3. IsFiniteSet(T)
  BY <1>1, FS_Surjection
<1>4. PICK m \in T : \A d \in T : d <= m
  BY <1>2, <1>3, MaxOfDates
<1>5. PICK n \in S : m = 0 - n
  BY <1>4
<1>6. \A d \in S : n <= d
  BY <1>4, <1>5
<1> QED  BY <1>6 DEF Min

\* The later of two dates.
LEMMA LaterIs ==
    ASSUME NEW s \in Int, NEW t \in Int
    PROVE  Later(s, t) = (IF s <= t THEN t ELSE s)
<1>1. IsFiniteSet({s} \cup {t}) /\ {s, t} = {s} \cup {t}
  BY FS_Singleton, FS_AddElement
<1> QED  BY <1>1, MaxOfDates DEF Later

\* The highest of some plans is one of them.
LEMMA BestIsOne ==
    ASSUME NEW S \in SUBSET DOMAIN Rank, S # {} PROVE Best(S) \in S
<1>1. \E p \in S : \A q \in S : Rank[p] >= Rank[q]
  BY DEF Rank
<1> QED  BY <1>1 DEF Best

\* ChargeDays for one charge more.
LEMMA DaysGrow ==
    ASSUME NEW m \in Nat, NEW n \in Nat, m <= n
    PROVE  /\ ChargeDays * m \in Nat /\ ChargeDays * m <= ChargeDays * n
           /\ ChargeDays * (m + 1) = ChargeDays * m + ChargeDays
BY BillingAssumption
-----------------------------------------------------------------------------
(***************************************************************************)
(* The inductive invariant.  A request remembers dates and a subscription  *)
(* while everything else moves on, so the invariant says of each what      *)
(* stays true of it: a date it will write is within the time there is, and *)
(* once a subscription was billed, or is dead, it stays so.                *)
(***************************************************************************)
BillingJobs == {"none", "webhook", "sync", "subscribe", "cancellation", "charge", "prepaid"}
BillingPlaces == {"idle", "mark", "vet", "extendCard", "relinkRead", "relinkSelf", "relinkOther",
           "relinkWrite", "clear", "survey", "downgrade", "retrieve", "inspect", "cancel",
           "create", "link", "toggle", "charge", "read", "extend", "record"}
Event == [sub : {0} \cup SubIds, status : Statuses, end : Nat]
Request == [job : BillingJobs, pc : BillingPlaces, sub : Nat, event : Event, plan : DOMAIN Rank,
            date : Nat, seenPtr : {0} \cup SubIds, seenExp : Nat]
Account == [plan : DOMAIN Rank, expiry : Nat, pointer : {0} \cup SubIds]

BillingTypes ==
    /\ TypeOK
    /\ events \subseteq [sub : SubIds, status : Statuses, end : Nat]
    /\ req \in [Slots -> Request]

\* Where a request works on a subscription, and where on one that was billed.
OnSubscription == {"extendCard", "relinkRead", "relinkSelf", "relinkOther", "relinkWrite",
                   "survey", "downgrade", "retrieve", "inspect", "cancel", "link", "toggle"}
OnBilled == {"extendCard", "relinkRead", "relinkSelf", "relinkOther", "relinkWrite",
             "survey", "downgrade"}

\* What holds of request q when S are Stripe's subscriptions and E its events.
Knows(q, S, E) ==
    /\ q.job = "webhook" => q.event \in E
    /\ q.pc \in OnSubscription => q.sub \in SubIds
    /\ q.pc = "relinkOther" => q.seenPtr \in SubIds
    /\ q.pc \in OnBilled => S[q.sub].billed
    /\ q.pc \in {"survey", "downgrade"} => Dead(S[q.sub].status)
    /\ q.pc \in {"mark", "relinkRead", "relinkSelf", "relinkOther", "relinkWrite"} => q.job = "webhook"
    /\ q.pc \in {"extend", "record"} => q.sub \in ChargeIds
    /\ q.pc = "retrieve" => q.job = "sync"
    /\ q.pc \in {"inspect", "cancel"} => q.job = "subscribe"
    /\ q.pc \in {"survey", "clear", "downgrade", "extendCard"} =>
          q.job \in {"webhook", "sync", "subscribe"}

\* A snapshot that was once true: dates only grow, a bill and a death are for good.
Happened(e, S) ==
    /\ e.end <= S[e.sub].end
    /\ e.status \in {"active", "unpaid"} => S[e.sub].billed
    /\ Dead(e.status) => Dead(S[e.sub].status)

BilledOnce(S) ==
    \A s \in SubIds : S[s].status \in {"active", "past_due", "unpaid"} => S[s].billed

\* The charges whose ChargeDays a request has taken up: paid, and past its reading.
Applied ==
    {c \in ChargeIds : payments[c].status = "paid"
                       /\ ~\E r \in Slots : At(r, "read") /\ req[r].sub = c}

\* The furthest date that was billed or granted, or is today, and the time there is.
BaseOf(n, g, S) == Max({n, g} \cup {S[s].end : s \in SubIds})
Base == BaseOf(now, granted, subs)
Bound == Base + ChargeDays * Cardinality(Applied)

WithinBound ==
    /\ acct.expiry <= Bound
    /\ \A c \in ChargeIds : payments[c].until <= Bound
    /\ \A r \in Slots : req[r].date <= Bound

ChargesRead ==
    /\ \A c \in ChargeIds : payments[c].status = "paid" => payments[c].settled
    /\ \A r \in Slots : At(r, "read") =>
          req[r].sub \in ChargeIds /\ payments[req[r].sub].status = "paid"
    /\ \A q, r \in Slots : At(q, "read") /\ At(r, "read") /\ req[q].sub = req[r].sub => q = r

BillingInv ==
    /\ BillingTypes
    /\ \A r \in Slots : Knows(req[r], subs, events)
    /\ \A e \in events : Happened(e, subs)
    /\ BilledOnce(subs)
    /\ WithinBound
    /\ ChargesRead
-----------------------------------------------------------------------------
\* The last date is one of them, and nothing billed or granted is later.
LEMMA BaseIs ==
    ASSUME NEW n \in Nat, NEW g \in Nat, NEW S, \A s \in SubIds : S[s].end \in Nat
    PROVE  /\ BaseOf(n, g, S) \in Nat /\ n <= BaseOf(n, g, S) /\ g <= BaseOf(n, g, S)
           /\ \A s \in SubIds : S[s].end <= BaseOf(n, g, S)
           /\ \A d \in Nat : n <= d /\ g <= d /\ (\A s \in SubIds : S[s].end <= d)
                            => BaseOf(n, g, S) <= d
<1> DEFINE Ends == {S[s].end : s \in SubIds}
           Dates == {n, g} \cup Ends
<1>1. IsFiniteSet(Ends)
  <2> DEFINE f == [s \in SubIds |-> S[s].end]
  <2>1. f \in Surjection(SubIds, Ends)
    BY DEF Surjection
  <2>2. IsFiniteSet(SubIds)
    BY BillingAssumption, FS_Interval DEF SubIds
  <2> QED  BY <2>1, <2>2, FS_Surjection
<1>2. IsFiniteSet({n} \cup {g})
  BY FS_Singleton, FS_AddElement
<1>3. IsFiniteSet(({n} \cup {g}) \cup Ends)
  BY <1>1, <1>2, FS_Union
<1>4. Dates = ({n} \cup {g}) \cup Ends /\ Dates \in SUBSET Int /\ Dates # {}
  OBVIOUS
<1>5. Max(Dates) \in Dates /\ \A d \in Dates : d <= Max(Dates)
  BY <1>3, <1>4, MaxOfDates
<1>6. BaseOf(n, g, S) = Max(Dates)
  BY DEF BaseOf
<1> HIDE DEF BaseOf
<1> QED  BY <1>5, <1>6

\* Applied charges are counted by a natural number, at most those that are settled.
LEMMA AppliedIs ==
    ASSUME NEW A \in SUBSET ChargeIds, NEW B \in SUBSET A
    PROVE  Cardinality(A) \in Nat /\ Cardinality(B) \in Nat /\ Cardinality(B) <= Cardinality(A)
<1>1. IsFiniteSet(ChargeIds)
  BY BillingAssumption, FS_Interval DEF ChargeIds
<1>2. IsFiniteSet(A) /\ IsFiniteSet(B)
  BY <1>1, FS_Subset
<1> QED  BY <1>2, FS_Subset, FS_CardinalityType

\* What may change while a request waits.
Onward ==
    /\ now <= now' /\ granted <= granted' /\ events \subseteq events'
    /\ \A s \in SubIds : /\ subs[s].end <= subs'[s].end
                         /\ subs[s].billed => subs'[s].billed
                         /\ Dead(subs[s].status) => Dead(subs'[s].status)

\* The time there is never gets less.
LEMMA BoundGrows ==
    ASSUME BillingTypes, BillingTypes', Onward, Applied \subseteq Applied'
    PROVE  /\ Base \in Nat /\ Bound \in Nat /\ Base' \in Nat /\ Bound' \in Nat
           /\ Base <= Base' /\ Bound <= Bound' /\ Base' <= Bound'
           /\ now' <= Base' /\ granted' <= Base' /\ \A s \in SubIds : subs'[s].end <= Base'
<1>1. now \in Nat /\ granted \in Nat /\ \A s \in SubIds : subs[s].end \in Nat
  BY BillingAssumption DEF BillingTypes, TypeOK
<1>2. now' \in Nat /\ granted' \in Nat /\ \A s \in SubIds : subs'[s].end \in Nat
  BY BillingAssumption DEF BillingTypes, TypeOK
<1>3. /\ Base \in Nat /\ now <= Base /\ granted <= Base /\ \A s \in SubIds : subs[s].end <= Base
      /\ \A d \in Nat : now <= d /\ granted <= d /\ (\A s \in SubIds : subs[s].end <= d) => Base <= d
  BY <1>1, BaseIs DEF Base
<1>4. Base' \in Nat /\ now' <= Base' /\ granted' <= Base' /\ \A s \in SubIds : subs'[s].end <= Base'
  BY <1>2, BaseIs DEF Base
<1> DEFINE m == Cardinality(Applied)
           n == Cardinality(Applied')
<1>5. m \in Nat /\ n \in Nat /\ m <= n
  <2>1. Applied' \in SUBSET ChargeIds /\ Applied \in SUBSET Applied'
    BY DEF Applied
  <2> QED  BY <2>1, AppliedIs
<1>6. ChargeDays * m \in Nat /\ ChargeDays * n \in Nat /\ ChargeDays * m <= ChargeDays * n
  BY <1>5, DaysGrow
<1>7. Bound = Base + ChargeDays * m /\ Bound' = Base' + ChargeDays * n
  BY DEF Bound
<1> HIDE DEF Base, Bound, m, n
<1>8. Base <= Base'
  BY <1>1, <1>2, <1>3, <1>4 DEF Onward
<1> QED  BY <1>3, <1>4, <1>6, <1>7, <1>8

\* A step that keeps the types and adds nothing untrue keeps the invariant: what waits
\* is judged by dates and facts that only grow.
LEMMA StepKeeps ==
    ASSUME BillingInv, BillingTypes', Onward, Applied \subseteq Applied', BilledOnce(subs'),
           \A e \in events' : e \in events \/ Happened(e, subs'),
           \A r \in Slots : req'[r] = req[r] \/ (Knows(req'[r], subs', events') /\ req'[r].date <= Bound'),
           acct'.expiry = acct.expiry \/ acct'.expiry <= Bound',
           \A c \in ChargeIds : payments'[c].until = payments[c].until \/ payments'[c].until <= Bound',
           ChargesRead'
    PROVE  BillingInv'
<1> USE DEF BillingInv
<1>1. Bound \in Nat /\ Bound' \in Nat /\ Bound <= Bound'
  BY BoundGrows
<1>2. ASSUME NEW q \in Request, Knows(q, subs, events) PROVE Knows(q, subs', events')
  <2>1. q.sub \in SubIds => /\ subs[q.sub].billed => subs'[q.sub].billed
                            /\ Dead(subs[q.sub].status) => Dead(subs'[q.sub].status)
    BY DEF Onward
  <2>2. events \subseteq events'
    BY DEF Onward
  <2> QED  BY <1>2, <2>1, <2>2 DEF Knows, OnBilled, OnSubscription
<1>3. ASSUME NEW e \in events, Happened(e, subs) PROVE Happened(e, subs')
  <2>1. e.sub \in SubIds /\ e.end \in Nat /\ subs[e.sub].end \in Nat /\ subs'[e.sub].end \in Nat
    BY DEF BillingTypes, TypeOK
  <2> QED  BY <1>3, <2>1 DEF Happened, Onward
<1>4. \A r \in Slots : Knows(req'[r], subs', events')
  BY <1>2 DEF BillingTypes
<1>5. \A e \in events' : Happened(e, subs')
  BY <1>3
<1>6. WithinBound'
  <2> HIDE DEF Bound
  <2>1. acct.expiry <= Bound /\ acct.expiry \in Nat /\ acct'.expiry <= Bound'
    BY <1>1 DEF WithinBound, BillingTypes, TypeOK
  <2>2. \A c \in ChargeIds : payments'[c].until <= Bound'
    BY <1>1 DEF WithinBound, BillingTypes, TypeOK
  <2>3. ASSUME NEW r \in Slots PROVE req'[r].date <= Bound'
    <3>1. req[r].date \in Nat /\ req[r].date <= Bound
      BY DEF WithinBound, BillingTypes, Request
    <3> QED  BY <1>1, <3>1
  <2> QED  BY <2>1, <2>2, <2>3 DEF WithinBound
<1> QED  BY <1>4, <1>5, <1>6

\* The time there is, now.
LEMMA BoundIs ==
    ASSUME BillingInv
    PROVE  /\ Bound \in Nat /\ Base \in Nat /\ Base <= Bound /\ now <= Bound /\ granted <= Bound
           /\ \A s \in SubIds : subs[s].end <= Bound
           /\ acct \in Account /\ acct.expiry <= Bound
<1>1. now \in Nat /\ granted \in Nat /\ \A s \in SubIds : subs[s].end \in Nat
  BY BillingAssumption DEF BillingInv, BillingTypes, TypeOK
<1>2. Base \in Nat /\ now <= Base /\ granted <= Base /\ \A s \in SubIds : subs[s].end <= Base
  BY <1>1, BaseIs DEF Base
<1>3. ChargeDays * Cardinality(Applied) \in Nat
  <2>1. Applied \in SUBSET ChargeIds
    BY DEF Applied
  <2> QED  BY <2>1, AppliedIs, DaysGrow
<1> HIDE DEF Base, Applied
<1>4. Bound \in Nat /\ Base <= Bound
  BY <1>2, <1>3 DEF Bound
<1> QED  BY <1>1, <1>2, <1>4 DEF BillingInv, BillingTypes, TypeOK, WithinBound, Account

\* A request moves on, away from no charge and to none, and may write the account.
LEMMA RequestMoves ==
    ASSUME BillingInv, NEW r \in Slots, NEW new \in Request,
           req' = [req EXCEPT ![r] = new], req[r].pc # "read", new.pc # "read",
           Knows(new, subs, events), new.date <= Bound,
           acct' \in Account, acct'.expiry <= Bound,
           processed' \subseteq events, asked' \in 0..MaxAsked,
           UNCHANGED <<now, subs, events, payments, granted, grants, crashes>>
    PROVE  BillingInv'
<1> USE DEF BillingInv
<1>1. BillingTypes'
  BY DEF BillingTypes, TypeOK, Account
<1>2. Onward
  BY DEF Onward, BillingTypes, TypeOK
<1>3. \A q \in Slots : /\ q # r => req'[q] = req[q]
                       /\ req'[r] = new
                       /\ At(q, "read")' <=> At(q, "read")
                       /\ At(q, "read") => req'[q] = req[q]
  BY DEF BillingTypes, At
<1>4. Applied' = Applied
  BY <1>3 DEF Applied
<1>5. ChargesRead'
  BY <1>3 DEF ChargesRead
<1>6. Bound' = Bound
  BY <1>4 DEF Bound, Base
<1> QED  BY <1>1, <1>2, <1>3, <1>4, <1>5, <1>6, StepKeeps

\* What an idle request holds.
LEMMA IdleIs == Idle \in Request /\ Idle.date = 0 /\ Idle.pc = "idle" /\ Idle.job = "none"
                /\ \A S, E : Knows(Idle, S, E)
<1>1. NoEvent \in Event
  BY DEF NoEvent, Event, Statuses
<1> HIDE DEF Event, NoEvent
<1>2. Idle \in Request
  BY <1>1 DEF Idle, Request, BillingJobs, BillingPlaces, Rank
<1>3. Idle.pc = "idle" /\ Idle.date = 0 /\ Idle.job = "none"
  BY DEF Idle
<1>4. \A S, E : Knows(Idle, S, E)
  BY <1>3 DEF Knows, OnBilled, OnSubscription
<1> QED  BY <1>2, <1>3, <1>4

\* A request that ends leaves nothing behind.
LEMMA FinishKeeps ==
    ASSUME BillingInv, NEW r \in Slots, Finish(r), req[r].pc # "read",
           acct' \in Account, acct'.expiry <= Bound, processed' \subseteq events,
           UNCHANGED <<now, subs, events, payments, granted, asked, grants, crashes>>
    PROVE  BillingInv'
<1>1. Bound \in Nat /\ asked' \in 0..MaxAsked
  BY BoundIs DEF BillingInv, BillingTypes, TypeOK
<1>2. Idle \in Request /\ Idle.date <= Bound /\ Idle.pc # "read" /\ Knows(Idle, subs, events)
  BY <1>1, IdleIs
<1>3. req' = [req EXCEPT ![r] = Idle]
  BY DEF Finish, ToReq
<1> QED  BY <1>1, <1>2, <1>3, RequestMoves

\* A request that keeps what it remembers and goes to another place.
LEMMA GotoKeeps ==
    ASSUME BillingInv, NEW r \in Slots, NEW pc \in BillingPlaces \ {"read"}, Goto(r, pc),
           req[r].pc # "read", Knows([req[r] EXCEPT !.pc = pc], subs, events),
           acct' \in Account, acct'.expiry <= Bound,
           UNCHANGED <<now, subs, events, processed, payments, granted, asked, grants, crashes>>
    PROVE  BillingInv'
<1> DEFINE new == [req[r] EXCEPT !.pc = pc]
<1>1. req[r] \in Request /\ req[r].date <= Bound
  BY DEF BillingInv, BillingTypes, WithinBound
<1>2. new \in Request /\ new.date <= Bound /\ new.pc # "read"
  BY <1>1 DEF Request
<1>3. req' = [req EXCEPT ![r] = new] /\ Knows(new, subs, events)
  BY DEF Goto, BillingInv, BillingTypes
<1>4. processed' \subseteq events /\ asked' \in 0..MaxAsked
  BY DEF BillingInv, BillingTypes, TypeOK
<1> HIDE DEF new
<1> QED  BY <1>2, <1>3, <1>4, RequestMoves DEF Account

\* After the card part of a request.
LEMMA AfterCardKeeps ==
    ASSUME BillingInv, NEW r \in Slots, AfterCard(r),
           req[r].job \in {"webhook", "sync", "subscribe"},
           req[r].pc # "read", acct' \in Account, acct'.expiry <= Bound, WritesAccount
    PROVE  BillingInv'
<1> DEFINE at(pc) == [req[r] EXCEPT !.pc = pc]
<1>1. req[r] \in Request /\ Knows(req[r], subs, events)
  BY DEF BillingInv, BillingTypes
<1>2. (req[r].job = "webhook" => Knows(at("mark"), subs, events)) /\ Knows(at("vet"), subs, events)
  BY <1>1 DEF Knows, OnSubscription, OnBilled, Request
<1>3. CASE req[r].job = "webhook" /\ Goto(r, "mark")
  BY <1>2, <1>3, GotoKeeps DEF WritesAccount, BillingPlaces
<1>4. CASE Goto(r, "vet")
  BY <1>2, <1>4, GotoKeeps DEF WritesAccount, BillingPlaces
<1>5. CASE Finish(r)
  BY <1>5, FinishKeeps DEF WritesAccount, BillingInv, BillingTypes, TypeOK
<1> QED  BY <1>3, <1>4, <1>5 DEF AfterCard

\* What a webhook or a synchronisation learns about a subscription was true, so what it
\* goes on to do is for a subscription that was billed.
LEMMA DispatchKeeps ==
    ASSUME BillingInv, NEW r \in Slots, req[r].pc # "read",
           NEW q \in Request, q.job \in {"webhook", "sync"},
           q.job = "webhook" => q.event \in events,
           NEW snap \in [sub : SubIds, status : Statuses, end : Nat],
           Happened(snap, subs), Dispatch(r, q, snap), ReadsOnly
    PROVE  BillingInv'
<1> DEFINE known == [q EXCEPT !.sub = snap.sub, !.date = snap.end, !.plan = subs[snap.sub].plan]
           at(pc) == [known EXCEPT !.pc = pc]
<1>1. snap.sub \in SubIds /\ snap.end \in Nat /\ subs[snap.sub].plan \in DOMAIN Rank /\ snap.sub \in Nat
  BY DEF BillingInv, BillingTypes, TypeOK, SubIds
<1>2. snap.end <= Bound
  <2>1. snap.end <= subs[snap.sub].end /\ subs[snap.sub].end <= Bound /\ subs[snap.sub].end \in Nat
    BY <1>1, BoundIs DEF Happened, BillingInv, BillingTypes, TypeOK
  <2> QED  BY <1>1, <2>1, BoundIs
<1>3. known \in Request /\ known.date = snap.end /\ known.sub = snap.sub /\ known.job = q.job
      /\ known.event = q.event
  BY <1>1 DEF Request
<1> HIDE DEF known
<1>4. ASSUME NEW pc \in BillingPlaces
      PROVE  /\ at(pc) \in Request /\ at(pc).date = snap.end /\ at(pc).sub = snap.sub
             /\ at(pc).job = q.job /\ at(pc).pc = pc
             /\ at(pc).event = q.event
  BY <1>3 DEF Request
<1> HIDE DEF at
<1>5. ASSUME NEW pc \in BillingPlaces \ {"read"}, req' = [req EXCEPT ![r] = at(pc)], Knows(at(pc), subs, events)
      PROVE  BillingInv'
  <2>1. /\ acct' \in Account /\ acct'.expiry <= Bound /\ processed' \subseteq events /\ asked' \in 0..MaxAsked
        /\ UNCHANGED <<now, subs, events, payments, granted, grants, crashes>>
    BY BoundIs DEF ReadsOnly, BillingInv, BillingTypes, TypeOK
  <2> QED  BY <1>2, <1>4, <1>5, <2>1, RequestMoves
<1>6. CASE snap.status = "active" /\ req' = [req EXCEPT ![r] = at("extendCard")]
  <2>1. Knows(at("extendCard"), subs, events)
    BY <1>1, <1>4, <1>6 DEF Knows, Happened, OnSubscription, OnBilled, BillingPlaces
  <2> QED  BY <1>5, <1>6, <2>1 DEF BillingPlaces
<1>7. CASE OnlyClear(snap.sub, snap.status) /\ req' = [req EXCEPT ![r] = at("clear")]
  <2>1. Knows(at("clear"), subs, events)
    BY <1>4 DEF Knows, OnSubscription, OnBilled, BillingPlaces
  <2> QED  BY <1>5, <1>7, <2>1 DEF BillingPlaces
<1>8. CASE /\ Over(snap.status) /\ ~OnlyClear(snap.sub, snap.status)
           /\ req' = [req EXCEPT ![r] = at("survey")]
  <2>1. subs[snap.sub].billed /\ Dead(subs[snap.sub].status)
    BY <1>8 DEF OnlyClear, Over, Dead, Happened
  <2>2. Knows(at("survey"), subs, events)
    BY <1>1, <1>4, <2>1 DEF Knows, OnSubscription, OnBilled, BillingPlaces
  <2> QED  BY <1>5, <1>8, <2>2 DEF BillingPlaces
<1>9. CASE q.job = "webhook" /\ req' = [req EXCEPT ![r] = at("mark")]
  <2>1. Knows(at("mark"), subs, events)
    BY <1>4, <1>9 DEF Knows, OnSubscription, OnBilled, BillingPlaces
  <2> QED  BY <1>5, <1>9, <2>1 DEF BillingPlaces
<1>10. CASE Finish(r)
  BY <1>10, FinishKeeps, BoundIs DEF ReadsOnly, BillingInv, BillingTypes, TypeOK
<1> QED  BY <1>6, <1>7, <1>8, <1>9, <1>10 DEF Dispatch, ToReq, at, known

\* The facts every step starts from.
LEMMA RequestIs ==
    ASSUME BillingInv, NEW r \in Slots
    PROVE  /\ req[r] \in Request /\ req[r].date \in Nat /\ req[r].date <= Bound
           /\ req[r].plan \in DOMAIN Rank /\ req[r].sub \in Nat /\ Knows(req[r], subs, events)
           /\ processed \subseteq events /\ asked \in 0..MaxAsked
BY DEF BillingInv, BillingTypes, TypeOK, WithinBound, Request

\* An event that arrives, and the subscription the billing page asks about, are true.
LEMMA LearnsKeeps ==
    ASSUME BillingInv, NEW r \in Slots, Webhook(r) \/ SyncRetrieves(r) PROVE BillingInv'
<1>1. ASSUME NEW e \in events, WebhookArrives(r, e) PROVE BillingInv'
  <2> DEFINE q == [Idle EXCEPT !.job = "webhook", !.event = e]
  <2>1. e \in [sub : SubIds, status : Statuses, end : Nat] /\ Happened(e, subs)
    BY DEF BillingInv, BillingTypes
  <2>2. q \in Request /\ q.job = "webhook" /\ q.event \in events
    <3>1. e \in Event
      BY <2>1 DEF Event
    <3> HIDE DEF Event
    <3> QED  BY <3>1, IdleIs DEF Request, BillingJobs
  <2> HIDE DEF q
  <2>3. Dispatch(r, q, e) /\ ReadsOnly /\ req[r].pc # "read"
    BY <1>1 DEF WebhookArrives, At, q
  <2> QED  BY <2>1, <2>2, <2>3, DispatchKeeps
<1>2. CASE SyncRetrieves(r)
  <2> DEFINE s == req[r].sub
             e == Snapshot(s, subs[s])
  <2>1. s \in SubIds /\ req[r].pc = "retrieve"
    BY <1>2, RequestIs DEF SyncRetrieves, At, Knows, OnSubscription
  <2>2. e.sub = s /\ e.status = subs[s].status /\ e.end = subs[s].end
    BY DEF Snapshot
  <2>3. e \in [sub : SubIds, status : Statuses, end : Nat]
    BY <2>1 DEF Snapshot, BillingInv, BillingTypes, TypeOK
  <2>4. Happened(e, subs)
    BY <2>1, <2>2 DEF Happened, BillingInv, BilledOnce, BillingTypes, TypeOK
  <2> HIDE DEF e
  <2>5. Dispatch(r, req[r], e) /\ ReadsOnly
    BY <1>2 DEF SyncRetrieves, e
  <2>6. req[r] \in Request /\ req[r].job = "sync"
    BY <2>1, RequestIs DEF Knows
  <2> QED  BY <2>1, <2>3, <2>4, <2>5, <2>6, DispatchKeeps
<1> QED  BY <1>1, <1>2 DEF Webhook

\* The row a subscription is found by gets its plan; its expiry never goes back.
LEMMA ExtendCardKeeps ==
    ASSUME BillingInv, NEW r \in Slots, ExtendCard(r) PROVE BillingInv'
<1> DEFINE q == req[r]
<1>1. q.pc = "extendCard" /\ q.job \in {"webhook", "sync", "subscribe"} /\ WritesAccount
  BY RequestIs DEF ExtendCard, At, Knows
<1>2. acct \in Account /\ acct.expiry <= Bound /\ acct.expiry \in Nat /\ Bound \in Nat
  BY BoundIs DEF Account
<1>3. Later(acct.expiry, q.date) \in Nat /\ Later(acct.expiry, q.date) <= Bound
  BY <1>2, RequestIs, LaterIs
<1>4. CASE acct' = [acct EXCEPT !.plan = q.plan, !.expiry = Later(@, q.date)] /\ AfterCard(r)
  <2>1. acct' \in Account /\ acct'.expiry <= Bound
    BY <1>2, <1>3, <1>4, RequestIs DEF Account
  <2> QED  BY <1>1, <1>4, <2>1, AfterCardKeeps
<1>5. CASE Goto(r, "relinkRead") /\ acct' = acct /\ q.job = "webhook"
  <2>1. Knows([q EXCEPT !.pc = "relinkRead"], subs, events)
    BY <1>1, <1>5, RequestIs DEF Knows, OnBilled, OnSubscription, Request
  <2> QED  BY <1>1, <1>2, <1>5, <2>1, GotoKeeps DEF WritesAccount, BillingPlaces
<1>6. CASE Finish(r) /\ acct' = acct
  BY <1>1, <1>2, <1>6, FinishKeeps, RequestIs DEF WritesAccount
<1> QED  BY <1>4, <1>5, <1>6 DEF ExtendCard

\* Relinking reads the row and both subscriptions, then writes if the row is as it was.
LEMMA RelinkKeeps ==
    ASSUME BillingInv, NEW r \in Slots,
           RelinkRead(r) \/ RelinkSelf(r) \/ RelinkOther(r) \/ RelinkWrite(r)
    PROVE  BillingInv'
<1> DEFINE q == req[r]
           at(pc) == [q EXCEPT !.pc = pc]
<1>1. acct \in Account /\ acct.expiry <= Bound /\ acct.expiry \in Nat /\ acct.pointer \in {0} \cup SubIds
  BY BoundIs DEF Account
<1>2. q \in Request /\ Knows(q, subs, events) /\ q.seenPtr \in {0} \cup SubIds
  BY RequestIs DEF Request
<1>3. CASE RelinkRead(r)
  <2> DEFINE new == [q EXCEPT !.pc = "relinkSelf", !.seenPtr = acct.pointer, !.seenExp = acct.expiry]
  <2>1. new \in Request /\ new.pc = "relinkSelf" /\ new.sub = q.sub /\ new.date = q.date
        /\ new.job = q.job /\ new.event = q.event /\ q.pc = "relinkRead"
    BY <1>1, <1>2, <1>3 DEF Request, BillingPlaces, RelinkRead, At
  <2> HIDE DEF new
  <2>2. Knows(new, subs, events)
    BY <1>2, <2>1 DEF Knows, OnBilled, OnSubscription
  <2>3. req' = [req EXCEPT ![r] = new] /\ ReadsOnly
    BY <1>3 DEF RelinkRead, ToReq, new
  <2> QED  BY <1>1, <2>1, <2>2, <2>3, RequestIs, RequestMoves DEF ReadsOnly
<1>4. ASSUME NEW pc \in {"mark", "relinkOther", "relinkWrite"}, Goto(r, pc),
             q.pc \in {"relinkSelf", "relinkOther", "relinkWrite"}, q.job = "webhook",
             pc = "relinkOther" => q.seenPtr # 0,
             acct' \in Account, acct'.expiry <= Bound, WritesAccount
      PROVE  BillingInv'
  <2>1. Knows(at(pc), subs, events)
    BY <1>2, <1>4 DEF Knows, OnBilled, OnSubscription, Request
  <2> QED  BY <1>4, <2>1, GotoKeeps DEF WritesAccount, BillingPlaces
<1>5. CASE RelinkSelf(r)
  <2>1. q.pc = "relinkSelf" /\ q.job = "webhook" /\ acct' = acct /\ WritesAccount
    BY <1>2, <1>5 DEF RelinkSelf, At, Knows, ReadsOnly, WritesAccount
  <2>2. \/ Goto(r, "mark") \/ Goto(r, "relinkWrite")
        \/ Goto(r, "relinkOther") /\ q.seenPtr # 0
    BY <1>5 DEF RelinkSelf
  <2> QED  BY <1>1, <1>4, <2>1, <2>2
<1>6. CASE RelinkOther(r)
  <2>1. q.pc = "relinkOther" /\ q.job = "webhook" /\ acct' = acct /\ WritesAccount
    BY <1>2, <1>6 DEF RelinkOther, At, Knows, ReadsOnly, WritesAccount
  <2>2. Goto(r, "mark") \/ Goto(r, "relinkWrite")
    BY <1>6 DEF RelinkOther
  <2> QED  BY <1>1, <1>4, <2>1, <2>2
<1>7. CASE RelinkWrite(r)
  <2>1. acct' \in Account /\ acct'.expiry <= Bound
    BY <1>1, <1>7, RequestIs DEF RelinkWrite, At, Knows, OnSubscription, OnBilled, Account
  <2>2. q.pc = "relinkWrite" /\ q.job = "webhook" /\ WritesAccount /\ Goto(r, "mark")
    BY <1>2, <1>7 DEF RelinkWrite, At, Knows
  <2> QED  BY <1>4, <2>1, <2>2
<1> QED  BY <1>3, <1>5, <1>6, <1>7

\* A dead subscription leaves what the unspent prepayments cover: no more than there is.
LEMMA DowngradeKeeps ==
    ASSUME BillingInv, NEW r \in Slots, Clear(r) \/ Survey(r) \/ Downgrade(r) PROVE BillingInv'
<1> DEFINE q == req[r]
<1>1. acct \in Account /\ acct.expiry <= Bound /\ acct.expiry \in Nat /\ now \in Nat /\ now <= Bound
  BY BoundIs, BillingAssumption DEF Account, BillingInv, BillingTypes, TypeOK
<1>2. q \in Request /\ Knows(q, subs, events) /\ q.date \in Nat /\ q.date <= Bound /\ q.plan \in DOMAIN Rank
  BY RequestIs
<1>3. CASE Clear(r)
  <2>1. acct' \in Account /\ acct'.expiry <= Bound
    BY <1>1, <1>3 DEF Clear, Account
  <2> QED  BY <1>2, <1>3, <2>1, AfterCardKeeps DEF Clear, At, Knows
<1>4. CASE Downgrade(r)
  <2>1. acct' \in Account /\ acct'.expiry <= Bound
    BY <1>1, <1>2, <1>4 DEF Downgrade, Account
  <2> QED  BY <1>2, <1>4, <2>1, AfterCardKeeps DEF Downgrade, At, Knows
<1>5. CASE Survey(r)
  <2> DEFINE kept == {c \in ChargeIds : Live(c)}
             Untils == {payments[c].until : c \in kept}
             last == Max({now} \cup Untils)
             best == Best({"free"} \cup {payments[c].plan : c \in kept})
             new == [q EXCEPT !.pc = "downgrade", !.date = last, !.plan = best]
  <2>1. \A c \in kept : payments[c].until \in Nat /\ payments[c].until <= Bound
                        /\ payments[c].plan \in DOMAIN Rank
    BY DEF BillingInv, BillingTypes, TypeOK, WithinBound
  <2>2. last \in Nat /\ last <= Bound
    <3>1. IsFiniteSet(Untils)
      <4> DEFINE f == [c \in kept |-> payments[c].until]
      <4>1. f \in Surjection(kept, Untils)
        BY DEF Surjection
      <4>2. IsFiniteSet(ChargeIds)
        BY BillingAssumption, FS_Interval DEF ChargeIds
      <4>3. IsFiniteSet(kept)
        BY <4>2, FS_Subset
      <4> QED  BY <4>1, <4>3, FS_Surjection
    <3>2. IsFiniteSet({now} \cup Untils)
      BY <3>1, FS_Singleton, FS_Union
    <3>3. {now} \cup Untils \in SUBSET Int /\ \A d \in {now} \cup Untils : d \in Nat /\ d <= Bound
      BY <1>1, <2>1
    <3>4. last \in {now} \cup Untils
      BY <3>2, <3>3, MaxOfDates
    <3> QED  BY <3>3, <3>4
  <2>3. best \in DOMAIN Rank
    <3>1. {"free"} \cup {payments[c].plan : c \in kept} \in SUBSET DOMAIN Rank
      BY <2>1 DEF Rank
    <3> QED  BY <3>1, BestIsOne
  <2> HIDE DEF last, best, kept, Untils
  <2>4. CASE Goto(r, "mark") /\ q.pc = "survey" /\ q.job = "webhook" /\ ReadsOnly
    <3>1. Knows([q EXCEPT !.pc = "mark"], subs, events)
      BY <1>2, <2>4 DEF Knows, OnSubscription, OnBilled, Request
    <3> QED  BY <1>1, <2>4, <3>1, GotoKeeps DEF ReadsOnly, BillingPlaces
  <2>5. CASE req' = [req EXCEPT ![r] = new] /\ q.pc = "survey" /\ ReadsOnly
    <3>1. new \in Request /\ new.date = last /\ new.pc = "downgrade" /\ new.job = q.job /\ new.sub = q.sub
          /\ new.event = q.event
      BY <1>2, <2>2, <2>3 DEF Request, BillingPlaces
    <3> HIDE DEF new
    <3>2. Knows(new, subs, events)
      BY <1>2, <2>5, <3>1 DEF Knows, OnSubscription, OnBilled
    <3> QED  BY <1>1, <2>2, <2>5, <3>1, <3>2, RequestIs, RequestMoves DEF ReadsOnly
  <2> QED  BY <1>5, <2>4, <2>5 DEF Survey, ToReq, At, last, best, kept, Untils
<1> QED  BY <1>3, <1>4, <1>5

\* Recording an event, and the requests of the billing page that only read.
LEMMA PagesKeep ==
    ASSUME BillingInv, NEW r \in Slots,
           \/ Mark(r) \/ SyncReads(r) \/ Inspect(r) \/ Vet(r) \/ CancellationReads(r)
           \/ \E p \in Plans : SubscribeReads(r, p) \/ ChargeReads(r, p)
    PROVE  BillingInv'
<1> DEFINE q == req[r]
           asSync == [Idle EXCEPT !.job = "sync", !.pc = "retrieve", !.sub = acct.pointer]
           asCancellation == [Idle EXCEPT !.job = "cancellation", !.pc = "toggle", !.sub = acct.pointer]
           asCharge(p) == [Idle EXCEPT !.job = "charge", !.pc = "charge", !.plan = p, !.sub = acct.pointer]
           asSubscribe(p) == [Idle EXCEPT !.job = "subscribe", !.sub = acct.pointer, !.plan = p,
                                          !.seenPtr = acct.pointer,
                                          !.pc = IF acct.pointer = 0 THEN "vet" ELSE "inspect"]
<1>1. acct \in Account /\ acct.expiry <= Bound /\ acct.pointer \in {0} \cup SubIds /\ acct.pointer \in Nat
      /\ Bound \in Nat
  BY BoundIs DEF Account, SubIds
<1>2. q \in Request /\ Knows(q, subs, events) /\ processed \subseteq events /\ asked \in 0..MaxAsked
  BY RequestIs
<1>3. ASSUME NEW new \in Request, new.date = 0, new.pc # "read", Knows(new, subs, events), q.pc # "read",
             req' = [req EXCEPT ![r] = new], ReadsOnly \/ Asked
      PROVE  BillingInv'
  <2>1. asked' \in 0..MaxAsked
    BY <1>2, <1>3, BillingAssumption DEF ReadsOnly, Asked
  <2>2. UNCHANGED <<now, acct, subs, events, processed, payments, granted, grants, crashes>>
    BY <1>3 DEF ReadsOnly, Asked
  <2>3. new.date <= Bound
    BY <1>1, <1>3
  <2> QED  BY <1>1, <1>2, <1>3, <2>1, <2>2, <2>3, RequestMoves
<1>4. CASE Mark(r)
  <2>1. processed' \subseteq events
    <3>1. processed' = processed \cup {q.event} /\ q.event \in events
      BY <1>2, <1>4 DEF Mark, At, Knows
    <3> QED  BY <1>2, <3>1
  <2> QED  BY <1>1, <1>4, <2>1, FinishKeeps DEF Mark, At
<1>5. CASE SyncReads(r)
  <2>1. asSync \in Request /\ asSync.date = 0 /\ asSync.pc = "retrieve" /\ asSync.job = "sync"
        /\ asSync.sub = acct.pointer
    BY <1>1, IdleIs DEF Request, BillingJobs, BillingPlaces
  <2> HIDE DEF asSync
  <2>2. q.pc = "idle" /\ acct.pointer # 0 /\ req' = [req EXCEPT ![r] = asSync] /\ ReadsOnly
    BY <1>5 DEF SyncReads, ToReq, At, asSync
  <2>3. Knows(asSync, subs, events)
    BY <1>1, <2>1, <2>2 DEF Knows, OnSubscription, OnBilled
  <2> QED  BY <1>3, <2>1, <2>2, <2>3
<1>6. CASE CancellationReads(r)
  <2>1. asCancellation \in Request /\ asCancellation.date = 0 /\ asCancellation.pc = "toggle"
        /\ asCancellation.job = "cancellation"
        /\ asCancellation.sub = acct.pointer
    BY <1>1, IdleIs DEF Request, BillingJobs, BillingPlaces
  <2> HIDE DEF asCancellation
  <2>2. q.pc = "idle" /\ acct.pointer # 0 /\ req' = [req EXCEPT ![r] = asCancellation] /\ Asked
    BY <1>6 DEF CancellationReads, ToReq, At, asCancellation
  <2>3. Knows(asCancellation, subs, events)
    BY <1>1, <2>1, <2>2 DEF Knows, OnSubscription, OnBilled
  <2> QED  BY <1>3, <2>1, <2>2, <2>3
<1>7. ASSUME NEW p \in Plans, ChargeReads(r, p) PROVE BillingInv'
  <2>1. p \in DOMAIN Rank
    BY BillingAssumption DEF Rank
  <2>2. asCharge(p) \in Request /\ asCharge(p).date = 0 /\ asCharge(p).pc = "charge"
        /\ asCharge(p).job = "charge"
    BY <1>1, <2>1, IdleIs DEF Request, BillingJobs, BillingPlaces
  <2> HIDE DEF asCharge
  <2>3. q.pc = "idle" /\ req' = [req EXCEPT ![r] = asCharge(p)] /\ Asked
    BY <1>7 DEF ChargeReads, ToReq, At, asCharge
  <2>4. Knows(asCharge(p), subs, events)
    BY <2>2 DEF Knows, OnSubscription, OnBilled
  <2> QED  BY <1>3, <2>2, <2>3, <2>4
<1>8. ASSUME NEW p \in Plans, SubscribeReads(r, p) PROVE BillingInv'
  <2>1. p \in DOMAIN Rank
    BY BillingAssumption DEF Rank
  <2>2. /\ asSubscribe(p) \in Request /\ asSubscribe(p).date = 0
        /\ asSubscribe(p).pc = IF acct.pointer = 0 THEN "vet" ELSE "inspect"
        /\ asSubscribe(p).sub = acct.pointer /\ asSubscribe(p).job = "subscribe"
    BY <1>1, <2>1, IdleIs DEF Request, BillingJobs, BillingPlaces
  <2> HIDE DEF asSubscribe
  <2>3. q.pc = "idle" /\ req' = [req EXCEPT ![r] = asSubscribe(p)] /\ Asked
    BY <1>8 DEF SubscribeReads, ToReq, At, asSubscribe
  <2>4. Knows(asSubscribe(p), subs, events)
    BY <1>1, <2>2 DEF Knows, OnSubscription, OnBilled
  <2> QED  BY <1>3, <2>2, <2>3, <2>4
<1>9. CASE Inspect(r)
  <2> DEFINE s == subs[q.sub].status
             onward == [q EXCEPT !.pc = IF s \in {"incomplete", "unpaid"} THEN "cancel" ELSE "vet",
                                 !.event.status = s]
  <2>1. q.pc = "inspect" /\ ReadsOnly /\ q.sub \in SubIds /\ s \in Statuses
    BY <1>2, <1>9 DEF Inspect, At, Knows, OnSubscription, BillingInv, BillingTypes, TypeOK
  <2>2. CASE Finish(r)
    BY <1>1, <1>2, <2>1, <2>2, FinishKeeps DEF ReadsOnly
  <2>3. CASE req' = [req EXCEPT ![r] = onward]
    <3>1. [q.event EXCEPT !.status = s] \in Event
      BY <1>2, <2>1 DEF Request, Event
    <3>2. /\ onward \in Request /\ onward.date = q.date /\ onward.sub = q.sub
          /\ onward.pc \in {"cancel", "vet"} /\ onward.job = q.job
      <4> HIDE DEF s, Event
      <4> QED  BY <1>2, <3>1 DEF Request, BillingPlaces
    <3> HIDE DEF onward
    <3>3. Knows(onward, subs, events)
      BY <1>2, <2>1, <3>2 DEF Knows, OnSubscription, OnBilled
    <3>4. onward.date <= Bound /\ onward.pc # "read"
      BY <3>2, RequestIs
    <3> QED  BY <1>1, <1>2, <2>1, <2>3, <3>2, <3>3, <3>4, RequestMoves DEF ReadsOnly
  <2> QED  BY <1>9, <2>2, <2>3 DEF Inspect, ToReq
<1>10. CASE Vet(r)
  <2>1. q.pc = "vet" /\ ReadsOnly /\ (Finish(r) \/ Goto(r, "create"))
    BY <1>10 DEF Vet, At
  <2>2. Knows([q EXCEPT !.pc = "create"], subs, events)
    BY <1>2, <2>1 DEF Knows, OnSubscription, OnBilled, Request
  <2>3. CASE Finish(r)
    BY <1>1, <1>2, <2>1, <2>3, FinishKeeps DEF ReadsOnly
  <2>4. CASE Goto(r, "create")
    BY <1>1, <2>1, <2>2, <2>4, GotoKeeps DEF ReadsOnly, BillingPlaces
  <2> QED  BY <2>1, <2>3, <2>4
<1> QED  BY <1>4, <1>5, <1>6, <1>7, <1>8, <1>9, <1>10

(***************************************************************************)
(* Stripe moves a subscription, on its own account or for a request.       *)
(***************************************************************************)
Subscription == [status : Statuses, plan : DOMAIN Rank, end : Nat, billed : BOOLEAN,
                 cancelAtEnd : BOOLEAN]

\* The requests are as they were, or one that read no charge has a new memory.
Steps(r, new) ==
    \/ UNCHANGED req
    \/ /\ req' = [req EXCEPT ![r] = new] /\ req[r].pc # "read" /\ new.pc # "read"
       /\ new \in Request /\ new.date <= Bound /\ Knows(new, subs', events')

\* Moving one subscription onward keeps the invariant, if its event tells the truth.
LEMMA SubscriptionMoves ==
    ASSUME BillingInv, NEW r, NEW new, Steps(r, new), NEW s \in SubIds, NEW to \in Subscription,
           subs' = [subs EXCEPT ![s] = to],
           subs[s].end <= to.end, subs[s].billed => to.billed,
           Dead(subs[s].status) => Dead(to.status),
           to.status \in {"active", "past_due", "unpaid"} => to.billed,
           events' = events \/ events' = events \cup {Snapshot(s, to)},
           acct' \in Account, acct'.expiry = acct.expiry,
           UNCHANGED <<now, processed, payments, granted, asked, grants, crashes>>
    PROVE  BillingInv'
<1> USE DEF BillingInv
<1> DEFINE e == Snapshot(s, to)
<1>1. e \in [sub : SubIds, status : Statuses, end : Nat] /\ e.sub = s /\ e.end = to.end /\ e.status = to.status
  BY DEF Snapshot, Subscription
<1> HIDE DEF e
<1>2. subs \in [SubIds -> Subscription] /\ subs' \in [SubIds -> Subscription]
  BY DEF BillingTypes, TypeOK, Subscription
<1>3. BillingTypes'
  <2>1. req' \in [Slots -> Request]
    BY DEF BillingTypes, Steps
  <2>2. events' \subseteq [sub : SubIds, status : Statuses, end : Nat]
    BY <1>1 DEF BillingTypes, e
  <2>3. processed' \subseteq events' /\ acct' \in Account
    BY DEF BillingTypes, TypeOK
  <2>4. \A d \in events' : d.sub \in SubIds /\ d.status \in Statuses /\ d.end \in Nat
    BY <2>2
  <2> QED  BY <1>2, <2>1, <2>2, <2>3, <2>4 DEF BillingTypes, TypeOK, Account, Subscription
<1>4. \A t \in SubIds : (t # s => subs'[t] = subs[t]) /\ subs'[s] = to
  BY <1>2
<1>5. Onward
  <2>1. now <= now' /\ granted <= granted' /\ \A t \in SubIds : subs[t].end <= subs[t].end
    BY BillingAssumption, <1>2 DEF BillingTypes, TypeOK, Subscription
  <2> QED  BY <1>4, <2>1 DEF Onward
<1>6. BilledOnce(subs')
  BY <1>4 DEF BilledOnce
<1>7. Happened(e, subs')
  BY <1>1, <1>2, <1>4, <1>6 DEF Happened, BilledOnce, Subscription
<1>8. \A q \in Slots : /\ At(q, "read")' <=> At(q, "read")
                       /\ At(q, "read") => req'[q] = req[q]
                       /\ req'[q] = req[q] \/ (req'[q] = new /\ Knows(new, subs', events') /\ new.date <= Bound)
  BY DEF BillingTypes, At, Steps
<1>9. Applied' = Applied
  BY <1>8 DEF Applied
<1>10. ChargesRead'
  BY <1>8 DEF ChargesRead
<1>11. Bound \in Nat /\ Bound' \in Nat /\ Bound <= Bound'
  BY <1>3, <1>5, <1>9, BoundGrows
<1>12. \A q \in Slots : req'[q] = req[q] \/ (Knows(req'[q], subs', events') /\ req'[q].date <= Bound')
  <2>1. new.date <= Bound /\ new \in Request => new.date <= Bound'
    BY <1>11 DEF Request
  <2>2. ASSUME NEW q \in Slots, req'[q] # req[q] PROVE req'[q] = new /\ new \in Request
    BY <2>2 DEF Steps, BillingTypes
  <2> QED  BY <1>8, <2>1, <2>2
<1>13. \A d \in events' : d \in events \/ Happened(d, subs')
  BY <1>7 DEF e
<1> HIDE DEF BillingInv
<1> QED  BY <1>3, <1>5, <1>6, <1>9, <1>10, <1>12, <1>13, StepKeeps

\* Stripe charges a card, gives up on it, renews or ends a subscription.
LEMMA StripeSideKeeps ==
    ASSUME BillingInv, NEW s \in SubIds, StripeSide(s) PROVE BillingInv'
<1> DEFINE sub == subs[s]
<1>1. sub \in Subscription /\ sub.end \in Nat /\ now \in Nat /\ Period \in Nat
  BY BillingAssumption DEF BillingInv, BillingTypes, TypeOK, Subscription
<1>2. sub.status \in {"active", "past_due", "unpaid"} => sub.billed
  BY DEF BillingInv, BilledOnce
<1>3. /\ acct' \in Account /\ acct'.expiry = acct.expiry
      /\ UNCHANGED <<now, processed, payments, req, granted, asked, grants, crashes>>
  BY BoundIs DEF StripeSide
<1>4. \A r, new : Steps(r, new)
  BY <1>3 DEF Steps
<1>5. ASSUME NEW to \in Subscription, StripeMoves(s, to), sub.end <= to.end, sub.billed => to.billed,
             Dead(sub.status) => Dead(to.status),
             to.status \in {"active", "past_due", "unpaid"} => to.billed
      PROVE  BillingInv'
  BY <1>3, <1>4, <1>5, SubscriptionMoves DEF StripeMoves
<1>6. CASE sub.status \in {"incomplete", "past_due"}
           /\ StripeMoves(s, [sub EXCEPT !.status = "active", !.billed = TRUE, !.end = Later(@, now) + Period])
  <2>1. Later(sub.end, now) \in Nat /\ sub.end <= Later(sub.end, now)
    BY <1>1, LaterIs
  <2> DEFINE d == Later(sub.end, now) + Period
             to == [sub EXCEPT !.status = "active", !.billed = TRUE, !.end = d]
  <2>2. d \in Nat /\ sub.end <= d
    BY <1>1, <2>1
  <2> HIDE DEF d
  <2>3. /\ to \in Subscription /\ to.end = d /\ to.billed /\ to.status = "active"
        /\ ~Dead(sub.status)
    BY <1>1, <1>6, <2>2 DEF Subscription, Statuses, Dead
  <2>4. StripeMoves(s, to)
    BY <1>6 DEF d
  <2> HIDE DEF to
  <2> QED  BY <1>5, <2>2, <2>3, <2>4
<1>7. ASSUME NEW status \in {"incomplete_expired", "past_due", "canceled", "unpaid"},
             StripeMoves(s, [sub EXCEPT !.status = status]), ~Dead(sub.status),
             status \in {"past_due", "unpaid"} => sub.status \in {"active", "past_due"}
      PROVE  BillingInv'
  <2> DEFINE to == [sub EXCEPT !.status = status]
  <2>1. to \in Subscription /\ to.end = sub.end /\ to.billed = sub.billed /\ to.status = status
    BY <1>1 DEF Subscription, Statuses
  <2>2. StripeMoves(s, to)
    BY <1>7
  <2>3. sub.end <= to.end /\ (to.status \in {"active", "past_due", "unpaid"} => to.billed)
    BY <1>1, <1>2, <1>7, <2>1
  <2> HIDE DEF to
  <2> QED  BY <1>5, <1>7, <2>1, <2>2, <2>3
<1>8. CASE sub.status = "active" /\ StripeMoves(s, [sub EXCEPT !.end = @ + Period])
  <2> DEFINE d == sub.end + Period
             to == [sub EXCEPT !.end = d]
  <2>1. d \in Nat /\ sub.end <= d
    BY <1>1
  <2> HIDE DEF d
  <2>2. to \in Subscription /\ to.end = d /\ to.billed = sub.billed /\ to.status = sub.status
    BY <1>1, <2>1 DEF Subscription
  <2>3. StripeMoves(s, to)
    BY <1>8 DEF d
  <2> HIDE DEF to
  <2> QED  BY <1>2, <1>5, <1>8, <2>1, <2>2, <2>3
<1> QED  BY <1>6, <1>7, <1>8 DEF StripeSide, Dead

\* A request that cancels, creates, links or schedules the end of a subscription.
LEMMA CancelStaleKeeps == ASSUME BillingInv, NEW r \in Slots, CancelStale(r) PROVE BillingInv'
<1> DEFINE q == req[r]
           s == q.sub
           sub == subs[s]
           at(pc) == [q EXCEPT !.pc = pc]
<1>1. q \in Request /\ Knows(q, subs, events) /\ q.date <= Bound
  BY RequestIs
<1>2. q.pc = "cancel" /\ s \in SubIds /\ q.job = "subscribe" /\ sub \in Subscription /\ sub.end \in Nat
  BY <1>1 DEF CancelStale, At, Knows, OnSubscription, BillingInv, BillingTypes, TypeOK, Subscription
<1>3. PICK pc \in {"clear", "vet"} : req' = [req EXCEPT ![r] = at(pc)]
  BY DEF CancelStale, Goto
<1> DEFINE new == at(pc)
<1>4. new \in Request /\ new.date = q.date /\ new.pc = pc /\ new.job = "subscribe"
  BY <1>1, <1>2 DEF Request, BillingPlaces
<1>5. \A S, E : Knows(new, S, E)
  <2> HIDE DEF at
  <2> QED  BY <1>4 DEF Knows, OnSubscription, OnBilled
<1>6. Steps(r, new)
  BY <1>1, <1>2, <1>3, <1>4, <1>5 DEF Steps
<1>7. /\ acct' \in Account /\ acct'.expiry = acct.expiry
      /\ UNCHANGED <<now, processed, payments, granted, asked, grants, crashes>>
  BY BoundIs DEF CancelStale
<1> HIDE DEF at
<1>8. CASE StripeMoves(s, [sub EXCEPT !.status = "canceled"])
  <2> DEFINE to == [sub EXCEPT !.status = "canceled"]
  <2>1. to \in Subscription /\ to.end = sub.end /\ to.billed = sub.billed /\ to.status = "canceled"
    BY <1>2 DEF Subscription, Statuses
  <2>2. StripeMoves(s, to) /\ sub.end <= to.end /\ Dead(to.status)
    BY <1>2, <1>8, <2>1 DEF Dead
  <2> HIDE DEF to
  <2> QED  BY <1>2, <1>6, <1>7, <2>1, <2>2, SubscriptionMoves DEF StripeMoves
<1>9. CASE UNCHANGED <<subs, events>>
  <2>1. processed' \subseteq events /\ asked' \in 0..MaxAsked /\ acct'.expiry <= Bound
    BY <1>7, <1>9, BoundIs, RequestIs
  <2> QED  BY <1>1, <1>2, <1>3, <1>4, <1>5, <1>7, <1>9, <2>1, RequestMoves
<1> QED  BY <1>8, <1>9 DEF CancelStale

\* A subscription is created as a draft, and the row is pointed at it (subscription route).
LEMMA CreateAndLinkKeep ==
    ASSUME BillingInv, NEW r \in Slots, CreateSubscription(r) \/ Link(r) PROVE BillingInv'
<1> DEFINE q == req[r]
<1>1. q \in Request /\ Knows(q, subs, events) /\ q.date <= Bound
  BY RequestIs
<1>2. subs \in [SubIds -> Subscription] /\ q.plan \in DOMAIN Rank
  BY RequestIs DEF BillingInv, BillingTypes, TypeOK, Subscription
<1>3. CASE CreateSubscription(r)
  <2>1. PICK s \in SubIds :
          /\ subs[s].status = "none"
          /\ subs' = [subs EXCEPT ![s].status = "draft", ![s].plan = q.plan]
          /\ req' = [req EXCEPT ![r] = [q EXCEPT !.sub = s, !.pc = "link"]]
    BY <1>3 DEF CreateSubscription, ToReq
  <2> DEFINE to == [subs[s] EXCEPT !.status = "draft", !.plan = q.plan]
             new == [q EXCEPT !.sub = s, !.pc = "link"]
  <2>2. to \in Subscription /\ to.end = subs[s].end /\ to.billed = subs[s].billed /\ to.status = "draft"
        /\ subs[s].end \in Nat
    BY <1>2 DEF Subscription, Statuses
  <2>3. subs' = [subs EXCEPT ![s] = to]
    BY <1>2, <2>1 DEF Subscription
  <2>4. s \in Nat /\ q.pc = "create"
    <3>1. At(r, "create")
      BY <1>3 DEF CreateSubscription
    <3> QED  BY <3>1 DEF At, SubIds
  <2>5. new \in Request /\ new.date = q.date /\ new.pc = "link" /\ new.job = q.job /\ new.sub = s
        /\ new.event = q.event /\ q.pc = "create"
    BY <1>1, <2>4 DEF Request, BillingPlaces
  <2>6. Knows(new, subs', events')
    <3>1. events' = events
      BY <1>3 DEF CreateSubscription
    <3> HIDE DEF new
    <3> QED  BY <1>1, <2>5, <3>1 DEF Knows, OnSubscription, OnBilled
  <2>7. Steps(r, new)
    <3> HIDE DEF new
    <3> QED  BY <1>1, <2>1, <2>5, <2>6 DEF Steps, new
  <2>8. /\ acct' \in Account /\ acct'.expiry = acct.expiry /\ events' = events
        /\ UNCHANGED <<now, processed, payments, granted, asked, grants, crashes>>
    BY <1>3, BoundIs DEF CreateSubscription
  <2>9. subs[s].end <= to.end /\ ~Dead(subs[s].status)
    BY <2>1, <2>2 DEF Dead
  <2> HIDE DEF to, new
  <2> QED  BY <2>2, <2>3, <2>7, <2>8, <2>9, SubscriptionMoves
<1>4. CASE Link(r)
  <2> DEFINE s == q.sub
             to == [subs[s] EXCEPT !.status = IF @ = "draft" THEN "incomplete" ELSE @]
  <2>1. s \in SubIds /\ q.pc = "link"
    BY <1>1, <1>4 DEF Link, At, Knows, OnSubscription
  <2>2. /\ to \in Subscription /\ to.end = subs[s].end /\ to.billed = subs[s].billed
        /\ to.status = (IF subs[s].status = "draft" THEN "incomplete" ELSE subs[s].status)
        /\ subs[s].end \in Nat
    BY <1>2, <2>1 DEF Subscription, Statuses
  <2>3. subs' = [subs EXCEPT ![s] = to]
    BY <1>2, <1>4, <2>1 DEF Link, Subscription
  <2>4. Steps(r, Idle)
    <3>1. Idle.date <= Bound
      BY IdleIs, BoundIs
    <3> QED  BY <1>4, <2>1, <3>1, IdleIs DEF Steps, Link, Finish, ToReq
  <2>5. /\ acct' \in Account /\ acct'.expiry = acct.expiry /\ events' = events
        /\ UNCHANGED <<now, processed, payments, granted, asked, grants, crashes>>
    BY <1>4, <2>1, BoundIs DEF Link, Account
  <2>6. /\ subs[s].end <= to.end /\ (Dead(subs[s].status) => Dead(to.status))
        /\ to.status \in {"active", "past_due", "unpaid"} => to.billed
    BY <2>1, <2>2 DEF Dead, BillingInv, BilledOnce
  <2> HIDE DEF to
  <2> QED  BY <2>1, <2>2, <2>3, <2>4, <2>5, <2>6, SubscriptionMoves
<1> QED  BY <1>3, <1>4

\* The end of a subscription is scheduled or called off (cancellation route).
LEMMA CancellationKeeps ==
    ASSUME BillingInv, NEW r \in Slots, CancellationUpdates(r) PROVE BillingInv'
<1> DEFINE q == req[r]
           s == q.sub
<1>1. q.pc = "toggle" /\ s \in SubIds
  BY RequestIs DEF CancellationUpdates, At, Knows, OnSubscription
<1>2. subs[s] \in Subscription /\ subs[s].end \in Nat
  BY <1>1 DEF BillingInv, BillingTypes, TypeOK, Subscription
<1>3. Steps(r, Idle)
  <2>1. Idle.date <= Bound
    BY IdleIs, BoundIs
  <2> QED  BY <1>1, <2>1, IdleIs DEF Steps, CancellationUpdates, Finish, ToReq
<1>4. /\ acct' \in Account /\ acct'.expiry = acct.expiry
      /\ UNCHANGED <<now, processed, payments, granted, asked, grants, crashes>>
  BY BoundIs DEF CancellationUpdates
<1>5. ASSUME NEW flag \in BOOLEAN, StripeMoves(s, [subs[s] EXCEPT !.cancelAtEnd = flag])
      PROVE  BillingInv'
  <2> DEFINE to == [subs[s] EXCEPT !.cancelAtEnd = flag]
  <2>1. to \in Subscription /\ to.end = subs[s].end /\ to.billed = subs[s].billed
        /\ to.status = subs[s].status
    BY <1>2 DEF Subscription
  <2>2. StripeMoves(s, to) /\ subs[s].end <= to.end
        /\ (to.status \in {"active", "past_due", "unpaid"} => to.billed)
    BY <1>1, <1>2, <1>5, <2>1 DEF BillingInv, BilledOnce
  <2> HIDE DEF to
  <2> QED  BY <1>1, <1>3, <1>4, <2>1, <2>2, SubscriptionMoves DEF StripeMoves
<1>6. CASE UNCHANGED <<subs, events>>
  BY <1>1, <1>4, <1>6, FinishKeeps, BoundIs, RequestIs DEF CancellationUpdates
<1> QED  BY <1>5, <1>6 DEF CancellationUpdates

(***************************************************************************)
(* The prepayments: a charge counts from the moment its date is worked out.*)
(***************************************************************************)
Payment == [status : {"none", "pending", "paid"}, plan : DOMAIN Rank, until : Nat, settled : BOOLEAN]

\* Nothing moves but a payment, and perhaps a request that ends.
LEMMA PaymentMoves ==
    ASSUME BillingInv, NEW c \in ChargeIds, NEW to \in Payment, payments' = [payments EXCEPT ![c] = to],
           to.status = "paid" <=> payments[c].status = "paid",
           payments[c].settled => to.settled,
           to.until <= Bound,
           UNCHANGED req \/ \E r \in Slots : Finish(r) /\ req[r].pc # "read",
           UNCHANGED <<now, acct, subs, events, processed, granted, asked, grants, crashes>>
    PROVE  BillingInv'
<1> USE DEF BillingInv
<1>1. payments \in [ChargeIds -> Payment] /\ payments' \in [ChargeIds -> Payment]
  BY DEF BillingTypes, TypeOK, Payment
<1>2. /\ req' \in [Slots -> Request]
      /\ \A q \in Slots : /\ At(q, "read")' <=> At(q, "read")
                          /\ At(q, "read") => req'[q] = req[q]
                          /\ req'[q] = req[q] \/ req'[q] = Idle
  BY IdleIs DEF BillingTypes, At, Finish, ToReq
<1>3. BillingTypes'
  BY <1>1, <1>2 DEF BillingTypes, TypeOK, Payment
<1>4. \A d \in ChargeIds : /\ payments'[d].status = "paid" <=> payments[d].status = "paid"
                           /\ payments[d].settled => payments'[d].settled
                           /\ payments'[d].until = payments[d].until \/ payments'[d].until <= Bound
  BY <1>1
<1>5. Applied' = Applied
  BY <1>2, <1>4 DEF Applied
<1>6. Bound' = Bound
  BY <1>5 DEF Bound, Base
<1>7. Onward
  BY DEF Onward, BillingTypes, TypeOK
<1>8. ChargesRead'
  <2>1. \A r \in Slots : At(r, "read") => req[r].sub \in ChargeIds
    BY DEF ChargesRead
  <2> QED  BY <1>2, <1>4, <2>1 DEF ChargesRead
<1>9. \A r \in Slots : req'[r] = req[r] \/ (Knows(req'[r], subs', events') /\ req'[r].date <= Bound')
  <2>1. Idle.date <= Bound
    BY IdleIs, BoundIs
  <2> QED  BY <1>2, <1>6, <2>1, IdleIs
<1> HIDE DEF BillingInv
<1> QED  BY <1>3, <1>4, <1>5, <1>6, <1>7, <1>8, <1>9, StepKeeps DEF BillingInv

\* A charge is created, settled by the customer, or recorded with the date it paid for.
LEMMA PaymentsKeep ==
    ASSUME BillingInv,
           \/ \E r \in Slots : ChargeCreates(r) \/ PrepaidRecords(r)
           \/ \E c \in ChargeIds : Settle(c)
    PROVE  BillingInv'
<1>1. payments \in [ChargeIds -> Payment] /\ \A c \in ChargeIds : payments[c].until <= Bound
  BY DEF BillingInv, BillingTypes, TypeOK, Payment, WithinBound
<1>2. ASSUME NEW r \in Slots, ChargeCreates(r) PROVE BillingInv'
  <2> DEFINE free == {d \in ChargeIds : payments[d].status = "none"}
             c == Min(free)
             to == [payments[c] EXCEPT !.status = "pending", !.plan = req[r].plan]
  <2>1. req[r].pc = "charge" /\ req[r].plan \in DOMAIN Rank /\ Finish(r)
        /\ UNCHANGED <<now, acct, subs, events, processed, granted, asked, grants, crashes>>
    BY <1>2, RequestIs DEF ChargeCreates, At
  <2>2. CASE payments' = payments
    BY <2>1, <2>2, FinishKeeps, BoundIs, RequestIs
  <2>3. CASE free # {} /\ payments' = [payments EXCEPT ![c].status = "pending", ![c].plan = req[r].plan]
    <3>1. c \in free
      <4>1. MaxCharges \in Int /\ ChargeIds = 1..MaxCharges
        BY BillingAssumption DEF ChargeIds
      <4>2. IsFiniteSet(ChargeIds)
        BY <4>1, FS_Interval
      <4>3. ChargeIds \in SUBSET Int
        BY <4>1
      <4>4. free \in SUBSET ChargeIds
        OBVIOUS
      <4>5. IsFiniteSet(free)
        BY <4>2, <4>4, FS_Subset
      <4> QED  BY <2>3, <4>3, <4>4, <4>5, LeastCharge
    <3>2. /\ to \in Payment /\ to.status = "pending" /\ to.settled = payments[c].settled
          /\ to.until = payments[c].until
      BY <1>1, <2>1, <3>1 DEF Payment
    <3>3. payments' = [payments EXCEPT ![c] = to]
      BY <1>1, <2>3, <3>1 DEF Payment
    <3>4. c \in ChargeIds /\ payments[c].status = "none"
      BY <3>1
    <3> HIDE DEF to, c
    <3> QED  BY <1>1, <2>1, <3>2, <3>3, <3>4, PaymentMoves
  <2> QED  BY <1>2, <2>2, <2>3 DEF ChargeCreates
<1>3. ASSUME NEW r \in Slots, PrepaidRecords(r) PROVE BillingInv'
  <2> DEFINE c == req[r].sub
             to == [payments[c] EXCEPT !.until = req[r].date]
  <2>1. req[r].pc = "record" /\ c \in ChargeIds /\ req[r].date \in Nat /\ req[r].date <= Bound
    BY <1>3, RequestIs DEF PrepaidRecords, At, Knows
  <2>2. /\ to \in Payment /\ to.status = payments[c].status /\ to.settled = payments[c].settled
        /\ to.until = req[r].date
    BY <1>1, <2>1 DEF Payment
  <2>3. payments' = [payments EXCEPT ![c] = to]
    BY <1>1, <1>3, <2>1 DEF PrepaidRecords, Payment
  <2>4. Finish(r) /\ UNCHANGED <<now, acct, subs, events, processed, granted, asked, grants, crashes>>
    BY <1>3 DEF PrepaidRecords
  <2> HIDE DEF to
  <2> QED  BY <2>1, <2>2, <2>3, <2>4, PaymentMoves
<1>4. ASSUME NEW c \in ChargeIds, Settle(c) PROVE BillingInv'
  <2> DEFINE to == [payments[c] EXCEPT !.settled = TRUE]
  <2>1. /\ to \in Payment /\ to.status = payments[c].status /\ to.settled /\ to.until = payments[c].until
    BY <1>1 DEF Payment
  <2>2. payments' = [payments EXCEPT ![c] = to]
    BY <1>1, <1>4 DEF Settle, Payment
  <2>3. UNCHANGED <<now, acct, subs, events, processed, req, granted, asked, grants, crashes>>
    BY <1>4 DEF Settle
  <2> HIDE DEF to
  <2> QED  BY <1>1, <2>1, <2>2, <2>3, PaymentMoves
<1> QED  BY <1>2, <1>3, <1>4

\* The first delivery of a settled charge makes it paid; no other request reads it.
LEMMA PrepaidArrivesKeeps ==
    ASSUME BillingInv, NEW r \in Slots, NEW c \in ChargeIds, PrepaidArrives(r, c) PROVE BillingInv'
<1> USE DEF BillingInv
<1> DEFINE new == [Idle EXCEPT !.job = "prepaid", !.pc = "read", !.sub = c]
           to == [payments[c] EXCEPT !.status = "paid"]
<1>1. /\ req[r].pc = "idle" /\ payments[c].settled /\ payments[c].status = "pending"
      /\ payments' = [payments EXCEPT ![c].status = "paid"] /\ req' = [req EXCEPT ![r] = new]
      /\ UNCHANGED <<now, acct, subs, events, processed, granted, asked, grants, crashes>>
  BY DEF PrepaidArrives, At, ToReq
<1>2. /\ new \in Request /\ new.date = 0 /\ new.pc = "read" /\ new.job = "prepaid" /\ new.sub = c
      /\ payments \in [ChargeIds -> Payment]
  <2>1. c \in Nat /\ payments \in [ChargeIds -> Payment]
    BY DEF ChargeIds, BillingTypes, TypeOK, Payment
  <2> QED  BY <2>1, IdleIs DEF Request, BillingJobs, BillingPlaces
<1>3. to \in Payment /\ to.status = "paid" /\ to.settled /\ to.until = payments[c].until
  BY <1>1, <1>2 DEF Payment
<1>4. payments' = [payments EXCEPT ![c] = to]
  BY <1>1, <1>2 DEF Payment
<1> HIDE DEF new, to
<1>5. BillingTypes'
  BY <1>1, <1>2, <1>3, <1>4 DEF BillingTypes, TypeOK, Payment
<1>6. /\ \A q \in Slots : q # r => req'[q] = req[q]
      /\ req'[r] = new
      /\ \A d \in ChargeIds : d # c => payments'[d] = payments[d]
      /\ payments'[c] = to
  BY <1>1, <1>2, <1>4 DEF BillingTypes
<1>7. \A q \in Slots : At(q, "read") => q # r /\ req[q].sub # c
  BY <1>1 DEF ChargesRead, At
<1>8. Applied \subseteq Applied'
  <2>1. ASSUME NEW d \in Applied PROVE d \in Applied'
    <3>1. d \in ChargeIds /\ d # c /\ payments'[d].status = "paid"
      BY <1>1, <1>6 DEF Applied
    <3>2. ASSUME NEW q \in Slots, At(q, "read")', req'[q].sub = d PROVE FALSE
      BY <1>2, <1>6, <3>1, <3>2 DEF Applied, At
    <3> QED  BY <3>1, <3>2 DEF Applied
  <2> QED  BY <2>1
<1>9. Onward
  BY <1>1 DEF Onward, BillingTypes, TypeOK
<1>10. ChargesRead'
  BY <1>1, <1>2, <1>3, <1>6, <1>7 DEF ChargesRead, At
<1>11. Bound \in Nat /\ Bound' \in Nat
  BY <1>5, <1>8, <1>9, BoundGrows
<1>12. Knows(new, subs', events') /\ new.date <= Bound'
  BY <1>2, <1>11 DEF Knows, OnSubscription, OnBilled
<1>13. \A d \in ChargeIds : payments'[d].until = payments[d].until
  BY <1>3, <1>6
<1> HIDE DEF BillingInv
<1> QED  BY <1>1, <1>5, <1>6, <1>8, <1>9, <1>10, <1>12, <1>13, StepKeeps DEF BillingInv

\* extendPaidPeriod takes up the ChargeDays of its charge when it works out the date, and
\* nobody else works one out of the same charge.
LEMMA PrepaidReadsKeeps ==
    ASSUME BillingInv, NEW r \in Slots, PrepaidReads(r) PROVE BillingInv'
<1> USE DEF BillingInv
<1> DEFINE q == req[r]
           c == q.sub
           best == Best({EffectivePlan, payments[c].plan})
           date == Later(now, acct.expiry) + ChargeDays
           new == [q EXCEPT !.pc = "extend", !.plan = best, !.date = date]
<1>1. /\ q.pc = "read" /\ c \in ChargeIds /\ payments[c].status = "paid"
      /\ req' = [req EXCEPT ![r] = new] /\ ReadsOnly
  BY DEF PrepaidReads, At, ToReq, ChargesRead
<1>2. best \in DOMAIN Rank
  <2>1. EffectivePlan \in DOMAIN Rank /\ payments[c].plan \in DOMAIN Rank
    BY <1>1 DEF EffectivePlan, Rank, BillingTypes, TypeOK
  <2> QED  BY <2>1, BestIsOne
<1>3. date \in Nat /\ date <= Bound + ChargeDays /\ Bound \in Nat /\ Base \in Nat /\ ChargeDays \in Nat
  <2>1. now \in Nat /\ acct.expiry \in Nat /\ now <= Bound /\ acct.expiry <= Bound /\ Bound \in Nat
        /\ Base \in Nat
    BY BoundIs, BillingAssumption DEF BillingTypes, TypeOK
  <2>2. Later(now, acct.expiry) \in Nat /\ Later(now, acct.expiry) <= Bound
    BY <2>1, LaterIs
  <2> QED  BY <2>1, <2>2, BillingAssumption
<1> HIDE DEF best, date
<1>4. new \in Request /\ new.date = date /\ new.pc = "extend" /\ new.sub = c /\ new.job = q.job
      /\ new.event = q.event
  <2>1. q \in Request /\ "extend" \in BillingPlaces
    BY DEF BillingTypes, BillingPlaces
  <2> HIDE DEF q, BillingPlaces
  <2> QED  BY <1>2, <1>3, <2>1 DEF Request
<1> HIDE DEF new
<1>5. BillingTypes'
  BY <1>1, <1>4 DEF BillingTypes, TypeOK, ReadsOnly
<1>6. \A p \in Slots : p # r => req'[p] = req[p]
  BY <1>1 DEF BillingTypes
<1>7. req'[r] = new /\ payments' = payments
  BY <1>1 DEF BillingTypes, ReadsOnly
<1>8. \A p \in Slots : /\ At(p, "read")' <=> (p # r /\ At(p, "read"))
                       /\ At(p, "read") /\ p # r => req[p].sub # c
  BY <1>1, <1>4, <1>6, <1>7 DEF At, ChargesRead
<1>9. Applied' = Applied \cup {c} /\ c \notin Applied
  <2>1. c \notin Applied
    BY <1>1 DEF Applied, At
  <2>2. ASSUME NEW d \in ChargeIds, payments[d].status = "paid"
        PROVE  (\E p \in Slots : At(p, "read")' /\ req'[p].sub = d)
               <=> d # c /\ \E p \in Slots : At(p, "read") /\ req[p].sub = d
    BY <1>1, <1>6, <1>8
  <2> QED  BY <1>1, <1>7, <2>1, <2>2 DEF Applied
<1>10. Bound' = Bound + ChargeDays
  <2>1. Applied \in SUBSET ChargeIds /\ IsFiniteSet(ChargeIds)
    BY BillingAssumption, FS_Interval DEF Applied, ChargeIds
  <2>2. IsFiniteSet(Applied) /\ Cardinality(Applied) \in Nat
    BY <2>1, FS_Subset, FS_CardinalityType
  <2>3. Cardinality(Applied') = Cardinality(Applied) + 1
    BY <1>9, <2>2, FS_AddElement
  <2>4. ChargeDays * (Cardinality(Applied) + 1) = ChargeDays * Cardinality(Applied) + ChargeDays
        /\ ChargeDays * Cardinality(Applied) \in Nat
    BY <2>2, DaysGrow
  <2>5. Base' = Base
    BY <1>1 DEF Base, ReadsOnly
  <2>6. Bound = Base + ChargeDays * Cardinality(Applied) /\ Bound' = Base' + ChargeDays * Cardinality(Applied')
    BY DEF Bound
  <2> HIDE DEF Base, Bound, Applied
  <2> QED  BY <1>3, <2>3, <2>4, <2>5, <2>6
<1>11. Onward
  BY <1>1 DEF Onward, ReadsOnly, BillingTypes, TypeOK
<1>12. ChargesRead'
  BY <1>6, <1>7, <1>8 DEF ChargesRead
<1>13. Knows(new, subs', events') /\ new.date <= Bound'
  <2>1. Knows(q, subs, events) /\ events' = events
    BY <1>1 DEF ReadsOnly
  <2> HIDE DEF Bound
  <2> QED  BY <1>1, <1>3, <1>4, <1>10, <2>1 DEF Knows, OnSubscription, OnBilled
<1> HIDE DEF BillingInv, Applied
<1>14. UNCHANGED <<now, acct, subs, events, payments>> /\ Applied \subseteq Applied'
  BY <1>1, <1>9 DEF ReadsOnly
<1> QED  BY <1>5, <1>6, <1>7, <1>11, <1>12, <1>13, <1>14, StepKeeps DEF BillingInv

\* The date is written as it was worked out.
LEMMA PrepaidExtendsKeeps ==
    ASSUME BillingInv, NEW r \in Slots, PrepaidExtends(r) PROVE BillingInv'
<1> DEFINE q == req[r]
<1>1. q.pc = "extend" /\ WritesAccount /\ Goto(r, "record")
  BY DEF PrepaidExtends, At
<1>2. Knows([q EXCEPT !.pc = "record"], subs, events)
  BY <1>1, RequestIs DEF Knows, OnSubscription, OnBilled, Request
<1>3. acct' \in Account /\ acct'.expiry <= Bound
  BY RequestIs, BoundIs DEF PrepaidExtends, Account
<1> QED  BY <1>1, <1>2, <1>3, GotoKeeps DEF WritesAccount, BillingPlaces

(***************************************************************************)
(* The clock, the administrator, and requests that die.                    *)
(***************************************************************************)
\* The clock only goes on, and what an administrator grants is remembered in granted.
LEMMA OutsideKeeps ==
    ASSUME BillingInv,
           Tick \/ AdminRevokes \/ \E p \in Plans, date \in AdminDates : AdminGrants(p, date)
    PROVE  BillingInv'
<1> USE BillingAssumption DEF BillingInv
<1>1. /\ acct \in Account /\ granted \in Nat /\ now \in 1..MaxTime /\ grants \in 0..MaxGrants
  BY BoundIs DEF BillingTypes, TypeOK
<1>2. ASSUME UNCHANGED <<subs, events, processed, payments, req, asked, crashes>>,
             now' \in 1..MaxTime, now <= now', granted' \in Nat, granted <= granted',
             acct' \in Account, grants' \in 0..MaxGrants,
             acct' = acct \/ acct'.expiry <= granted'
      PROVE  BillingInv'
  <2>1. BillingTypes'
    BY <1>2 DEF BillingTypes, TypeOK, Account
  <2>2. Onward
    BY <1>2 DEF Onward, BillingTypes, TypeOK
  <2>3. Applied' = Applied /\ ChargesRead'
    BY <1>2 DEF Applied, ChargesRead, At
  <2>4. Bound' \in Nat /\ granted' <= Bound'
    <3>1. Base' \in Nat /\ granted' <= Base' /\ Base' <= Bound' /\ Bound' \in Nat
      BY <2>1, <2>2, <2>3, BoundGrows
    <3> HIDE DEF Base, Bound
    <3> QED  BY <1>2, <3>1
  <2>5. acct' = acct \/ acct'.expiry <= Bound'
    <3> HIDE DEF Bound
    <3> QED  BY <1>2, <2>4 DEF Account
  <2> HIDE DEF BillingInv, Bound
  <2> QED  BY <1>2, <2>1, <2>2, <2>3, <2>5, StepKeeps DEF BillingInv
<1>3. CASE Tick
  BY <1>1, <1>2, <1>3 DEF Tick
<1>4. CASE AdminRevokes
  <2>1. acct' \in Account /\ acct'.expiry = 0
    BY <1>1, <1>4 DEF AdminRevokes, Account, Rank
  <2> QED  BY <1>1, <1>2, <1>4, <2>1 DEF AdminRevokes
<1>5. ASSUME NEW p \in Plans, NEW date \in AdminDates, AdminGrants(p, date) PROVE BillingInv'
  <2>1. date \in Nat /\ p \in DOMAIN Rank
    BY DEF Rank
  <2>2. granted' \in Nat /\ granted <= granted' /\ date <= granted'
    <3>1. granted' = Later(granted, date)
      BY <1>5 DEF AdminGrants
    <3> QED  BY <1>1, <2>1, <3>1, LaterIs
  <2>3. acct' \in Account /\ acct'.expiry = date
    BY <1>1, <1>5, <2>1 DEF AdminGrants, Account
  <2>4. /\ UNCHANGED <<now, subs, events, processed, payments, req, asked, crashes>>
        /\ grants' = grants + 1 /\ grants < MaxGrants
    BY <1>5 DEF AdminGrants
  <2>5. grants' \in 0..MaxGrants
    BY <1>1, <2>4
  <2> QED  BY <1>1, <1>2, <2>1, <2>2, <2>3, <2>4, <2>5
<1> QED  BY <1>3, <1>4, <1>5

\* A request may die at any await; one that had read its charge has used it up.
LEMMA CrashKeeps == ASSUME BillingInv, NEW r \in Slots, Crash(r) PROVE BillingInv'
<1> USE DEF BillingInv
<1>1. /\ req' = [req EXCEPT ![r] = Idle] /\ crashes' \in 0..MaxCrashes
      /\ UNCHANGED <<now, acct, subs, events, processed, payments, granted, asked, grants>>
  BY BillingAssumption DEF Crash, Finish, ToReq, BillingTypes, TypeOK
<1>2. \A q \in Slots : req'[q] = req[q] \/ req'[q] = Idle
  BY <1>1 DEF BillingTypes
<1>3. \A q \in Slots : At(q, "read")' => At(q, "read") /\ req'[q] = req[q]
  BY <1>2, IdleIs DEF At
<1>4. BillingTypes'
  BY <1>1, IdleIs DEF BillingTypes, TypeOK
<1>5. Onward
  BY <1>1 DEF Onward, BillingTypes, TypeOK
<1>6. Applied \subseteq Applied'
  BY <1>1, <1>3 DEF Applied
<1>7. ChargesRead'
  BY <1>1, <1>3 DEF ChargesRead
<1>8. Idle.date <= Bound'
  <2>1. Bound' \in Nat
    BY <1>4, <1>5, <1>6, BoundGrows
  <2> HIDE DEF Bound
  <2> QED  BY <2>1, IdleIs
<1> HIDE DEF BillingInv
<1> QED  BY <1>1, <1>2, <1>4, <1>5, <1>6, <1>7, <1>8, IdleIs, StepKeeps DEF BillingInv
-----------------------------------------------------------------------------
\* Every step keeps the invariant.
LEMMA BillingStep == ASSUME BillingInv, [Next]_vars PROVE BillingInv'
<1>1. ASSUME NEW r \in Slots, Begin(r) PROVE BillingInv'
  BY <1>1, LearnsKeeps, PagesKeep, PrepaidArrivesKeeps DEF Begin
<1>2. ASSUME NEW r \in Slots, Step(r) PROVE BillingInv'
  <2>1. CASE ExtendCard(r) \/ RelinkRead(r) \/ RelinkSelf(r) \/ RelinkOther(r) \/ RelinkWrite(r)
             \/ Clear(r) \/ Survey(r) \/ Downgrade(r) \/ Mark(r) \/ SyncRetrieves(r)
    BY <2>1, ExtendCardKeeps, RelinkKeeps, DowngradeKeeps, PagesKeep, LearnsKeeps
  <2>2. CASE Inspect(r) \/ CancelStale(r) \/ Vet(r) \/ CreateSubscription(r) \/ Link(r)
             \/ CancellationUpdates(r)
    BY <2>2, PagesKeep, CancelStaleKeeps, CreateAndLinkKeep, CancellationKeeps
  <2>3. CASE ChargeCreates(r) \/ PrepaidReads(r) \/ PrepaidExtends(r) \/ PrepaidRecords(r)
    BY <2>3, PaymentsKeep, PrepaidReadsKeeps, PrepaidExtendsKeeps
  <2> QED  BY <1>2, <2>1, <2>2, <2>3 DEF Step
<1>3. CASE UNCHANGED vars
  <2> USE <1>3 DEF vars, BillingInv
  <2>1. BillingTypes' /\ Onward
    BY DEF BillingTypes, TypeOK, Onward
  <2>2. Applied' = Applied /\ ChargesRead'
    BY DEF Applied, ChargesRead, At
  <2> HIDE DEF BillingInv
  <2> QED  BY <2>1, <2>2, StepKeeps DEF BillingInv
<1> QED
  BY <1>1, <1>2, <1>3, CrashKeeps, StripeSideKeeps, PaymentsKeep, OutsideKeeps DEF Next

\* The invariant holds of a new account.
LEMMA BillingInitially == Init => BillingInv
<1> SUFFICES ASSUME Init PROVE BillingInv
  OBVIOUS
<1> USE BillingAssumption DEF Init
<1>1. \A r \in Slots : req[r] = Idle
  OBVIOUS
<1>2. BillingTypes
  <2>1. req \in [Slots -> Request]
    BY IdleIs
  <2>2. subs \in [SubIds -> Subscription] /\ payments \in [ChargeIds -> Payment] /\ acct \in Account
    BY DEF Subscription, Payment, Account, Statuses, Rank
  <2> QED  BY <2>1, <2>2 DEF BillingTypes, TypeOK, Subscription, Payment, Account
<1>3. BilledOnce(subs) /\ ChargesRead
  BY <1>1, IdleIs DEF BilledOnce, ChargesRead, At
<1>4. WithinBound
  <2>1. Base \in Nat
    <3>1. now \in Nat /\ granted \in Nat /\ \A s \in SubIds : subs[s].end \in Nat
      OBVIOUS
    <3> QED  BY <3>1, BaseIs DEF Base
  <2>2. ChargeDays * Cardinality(Applied) \in Nat
    <3>1. Applied \in SUBSET ChargeIds
      BY DEF Applied
    <3> QED  BY <3>1, AppliedIs, DaysGrow
  <2>3. 0 <= Bound
    <3> HIDE DEF Base, Applied
    <3> QED  BY <2>1, <2>2 DEF Bound
  <2> QED  BY <1>1, <2>3, IdleIs DEF WithinBound
<1> QED  BY <1>1, <1>2, <1>3, <1>4, IdleIs DEF BillingInv

\* BillingInv holds in every reachable state.
THEOREM BillingInvariant == Spec => []BillingInv
<1>1. BillingInv /\ [Next]_vars => BillingInv'
  BY BillingStep
<1> QED  BY BillingInitially, <1>1, PTL DEF Spec

\* The rows of accounts and btc_payments, Stripe's subscriptions and the requests keep
\* their kinds, whatever interleaves.
THEOREM BillingTypesKept == Spec => []TypeOK
<1>1. BillingInv => TypeOK
  BY DEF BillingInv, BillingTypes
<1> QED  BY BillingInvariant, <1>1, PTL

\* Retries, redeliveries and concurrent requests of lib/billing/cardPlan.ts, lib/plan.ts and
\* the two webhooks never add up to more time than was billed, granted or prepaid.
THEOREM TimeIsPaidFor == Spec => []NeverOverExtended
<1>1. BillingInv => NeverOverExtended
  <2> SUFFICES ASSUME BillingInv PROVE NeverOverExtended
    OBVIOUS
  <2> DEFINE settled == {c \in ChargeIds : payments[c].settled}
  <2>1. Applied \in SUBSET settled /\ settled \in SUBSET ChargeIds
    BY DEF Applied, BillingInv, ChargesRead
  <2>2. /\ Cardinality(Applied) \in Nat /\ Cardinality(settled) \in Nat
        /\ Cardinality(Applied) <= Cardinality(settled)
    BY <2>1, AppliedIs
  <2>3. /\ ChargeDays * Cardinality(Applied) \in Nat
        /\ ChargeDays * Cardinality(Applied) <= ChargeDays * Cardinality(settled)
        /\ ChargeDays * Cardinality(settled) \in Nat
    BY <2>2, DaysGrow
  <2>4. acct.expiry \in Nat /\ acct.expiry <= Bound /\ Base \in Nat
    BY BoundIs DEF Account
  <2>5. Bound = Base + ChargeDays * Cardinality(Applied)
    BY DEF Bound
  <2>6. acct.expiry <= Base + ChargeDays * Cardinality(settled)
    <3> HIDE DEF Base, Bound, Applied, settled
    <3> QED  BY <2>3, <2>4, <2>5
  <2> QED  BY <2>6 DEF NeverOverExtended, Base, BaseOf
<1> QED  BY BillingInvariant, <1>1, PTL
-----------------------------------------------------------------------------
(***************************************************************************)
(* Who writes the plan.                                                    *)
(***************************************************************************)
\* The account's plan and expiry are written by few steps, each of which knows what it is
\* about.
LEMMA PlanWriters ==
    ASSUME BillingInv, [Next]_vars, acct'.plan # acct.plan \/ acct'.expiry # acct.expiry,
           grants' = grants, ~\E r \in Slots : PrepaidExtends(r)
    PROVE  \E r \in Slots : /\ ExtendCard(r) \/ RelinkWrite(r) \/ Downgrade(r)
                            /\ req[r].sub \in SubIds /\ subs[req[r].sub].billed
<1> USE DEF ReadsOnly
<1>1. acct' # acct
  OBVIOUS
<1>2. acct \in Account /\ grants \in Nat
  BY BoundIs DEF BillingInv, BillingTypes, TypeOK
<1>3. PICK r \in Slots : Begin(r) \/ Step(r) \/ Crash(r)
  <2>1. ~UNCHANGED vars
    BY <1>1 DEF vars
  <2>2. \A s \in SubIds : ~StripeSide(s)
    BY <1>1 DEF StripeSide
  <2>3. \A c \in ChargeIds : ~Settle(c)
    BY <1>1 DEF Settle
  <2>4. ~Tick
    BY <1>1 DEF Tick
  <2>5. ~AdminRevokes
    BY <1>2 DEF AdminRevokes
  <2>6. \A p \in Plans, date \in AdminDates : ~AdminGrants(p, date)
    BY <1>2 DEF AdminGrants
  <2> QED  BY <2>1, <2>2, <2>3, <2>4, <2>5, <2>6 DEF Next
<1>4. ~Begin(r) /\ ~Crash(r)
  BY <1>1 DEF Begin, Crash, Webhook, WebhookArrives, SyncReads, CancellationReads, SubscribeReads,
              ChargeReads, PrepaidArrives, Asked
<1>5. ~Clear(r) /\ ~Link(r)
  BY <1>2 DEF Clear, Link, Account
<1>6. ExtendCard(r) \/ RelinkWrite(r) \/ Downgrade(r)
  BY <1>1, <1>3, <1>4, <1>5
     DEF Step, RelinkRead, RelinkSelf, RelinkOther, Survey, Mark, SyncRetrieves, Inspect, CancelStale, Vet,
         CreateSubscription, CancellationUpdates, ChargeCreates, PrepaidReads, PrepaidRecords
<1>7. req[r].sub \in SubIds /\ subs[req[r].sub].billed
  BY <1>6, RequestIs DEF ExtendCard, RelinkWrite, Downgrade, At, Knows, OnSubscription, OnBilled
<1> QED  BY <1>6, <1>7

\* What the three card writers leave in the row.
LEMMA CardWrites ==
    ASSUME acct \in Account, NEW r \in Slots
    PROVE  /\ ExtendCard(r) => \/ acct' = acct
                              \/ acct'.expiry = Later(acct.expiry, req[r].date)
           /\ RelinkWrite(r) => \/ acct' = acct
                               \/ /\ acct'.expiry = req[r].date
                                  /\ acct.expiry = 0 \/ acct.expiry <= req[r].date
           /\ Downgrade(r) => acct' = acct \/ (acct.pointer = req[r].sub /\ acct'.pointer = 0)
<1>1. ExtendCard(r) => acct' = acct \/ acct'.expiry = Later(acct.expiry, req[r].date)
  BY DEF ExtendCard, Account
<1>2. RelinkWrite(r) => \/ acct' = acct
                        \/ /\ acct'.expiry = req[r].date
                           /\ acct.expiry = 0 \/ acct.expiry <= req[r].date
  BY DEF RelinkWrite, RelinkGuard, Account
<1>3. Downgrade(r) => acct' = acct \/ (acct.pointer = req[r].sub /\ acct'.pointer = 0)
  BY DEF Downgrade, Account
<1> QED  BY <1>1, <1>2, <1>3

\* Nobody but the administrator and the writer of a prepayment takes time from an account
\* unless the subscription it points at was billed once and is dead (cardPlan.ts).
THEOREM PaidTimeIsKept == Spec => PaidTimeKept
<1> DEFINE Kept == \/ grants' # grants
                   \/ \E r \in Slots : PrepaidExtends(r)
                   \/ /\ acct.pointer # 0 /\ acct'.pointer = 0
                      /\ subs[acct.pointer].billed /\ Dead(subs[acct.pointer].status)
<1>1. ASSUME BillingInv, [Next]_vars PROVE [acct'.expiry < acct.expiry => Kept]_vars
  <2> SUFFICES ASSUME acct'.expiry < acct.expiry, grants' = grants, ~\E r \in Slots : PrepaidExtends(r)
               PROVE  Kept
    OBVIOUS
  <2>1. acct \in Account /\ acct.expiry \in Nat
    BY <1>1, BoundIs DEF Account
  <2>2. PICK r \in Slots : /\ ExtendCard(r) \/ RelinkWrite(r) \/ Downgrade(r)
                           /\ req[r].sub \in SubIds /\ subs[req[r].sub].billed
    BY <1>1, <2>1, PlanWriters
  <2>3. req[r].date \in Nat /\ Knows(req[r], subs, events)
    BY <1>1, RequestIs
  <2>4. acct' # acct /\ acct.expiry <= Later(acct.expiry, req[r].date)
        /\ Later(acct.expiry, req[r].date) \in Nat
    BY <2>1, <2>3, LaterIs
  <2>5. ~ExtendCard(r) /\ ~RelinkWrite(r)
    BY <2>1, <2>3, <2>4, CardWrites
  <2>6. Downgrade(r) /\ acct.pointer = req[r].sub /\ acct'.pointer = 0
    BY <2>1, <2>2, <2>4, <2>5, CardWrites
  <2>7. Dead(subs[req[r].sub].status)
    BY <2>3, <2>6 DEF Downgrade, At, Knows
  <2> QED  BY <2>2, <2>6, <2>7 DEF SubIds
<1>2. BillingInv /\ [Next]_vars => [acct'.expiry < acct.expiry => Kept]_vars
  BY <1>1
<1> QED  BY BillingInvariant, <1>2, PTL DEF Spec, PaidTimeKept

\* A checkout that was opened and never paid writes neither plan nor expiry
\* (shouldOnlyClearSubscriptionPointer).
THEOREM AbandonedCheckoutIsHarmless == Spec => AbandonedCheckoutHarmless
<1> DEFINE Harmless == (\A s \in SubIds : ~subs[s].billed) /\ grants' = grants
                         /\ ~(\E r \in Slots : PrepaidExtends(r))
                       => acct'.plan = acct.plan /\ acct'.expiry = acct.expiry
<1>1. BillingInv /\ [Next]_vars => [Harmless]_vars
  BY PlanWriters
<1> QED  BY BillingInvariant, <1>1, PTL DEF Spec, AbandonedCheckoutHarmless
=============================================================================
