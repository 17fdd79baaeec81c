---------------------------- MODULE PublicForms ----------------------------
(***************************************************************************)
(* The forms behind a Turnstile challenge: reporting, claiming a right,    *)
(* contact, signing up, recovering an account, logging in and changing the *)
(* factors of a login (components/report, contact, account;                *)
(* lib/turnstile-client.tsx) with the routes they call.  Every visitor has *)
(* one form open; the forms of an account are about the same account ID.   *)
(* A recovery code is a number, minted in order.  The factors behind a     *)
(* login and the attempts counted against it are SecurityChanges' and      *)
(* PasswordLockout's.                                                      *)
(***************************************************************************)
EXTENDS Naturals

CONSTANTS Visitors,
          MaxSubmits   \* bound: submissions of one visitor

ASSUME FormsAssumption == MaxSubmits \in Nat

NoCode == 0
Messages == {"report", "claim", "contact"}
FormKinds == Messages \cup {"signup", "recover", "login", "security"}

VARIABLES form,
          stage,       \* what the page shows: "form", "otp", "setup" or "done"
          submitting,  \* isSubmitting
          run,         \* where the submit handler stands
          call,        \* the request it makes: "form", "otp", "passkey" or "cancel"
          script,      \* Turnstile's script is loaded
          resolver,    \* resolveRef and rejectRef are set
          challenges,  \* executed challenges that have not called back
          typed,       \* the recovery code typed into the form, NoCode when a wrong one
          answer,      \* the answer on its way, with a recovery code when one was made
          changed,     \* visitors whose change of the factors was committed
          codeShown,   \* the recovery code on the screen
          submits,
          messages,    \* visitors whose message is in reports or contacts
          code,        \* the account's recovery_code_hash, NoCode without account
          minted, spent  \* codes ever generated; history: codes a recovery used up

pageSide == <<form, stage, submitting, typed, codeShown, submits>>
widgetSide == <<script, resolver, challenges>>
serverSide == <<messages, changed, code, minted, spent>>
formVars == <<pageSide, run, call, widgetSide, answer, serverSide>>

Reply(kind, recoveryCode) == [kind |-> kind, code |-> recoveryCode]
Refused == Reply("refused", NoCode)
Accepted == Reply("accepted", NoCode)
AskOtp == Reply("otp", NoCode)
NewCode == Reply("accepted", minted + 1)

FormsInit ==
    /\ form \in [Visitors -> FormKinds]
    /\ stage = [v \in Visitors |-> "form"] /\ submitting = [v \in Visitors |-> FALSE]
    /\ run = [v \in Visitors |-> "none"] /\ call = [v \in Visitors |-> "form"]
    /\ script = [v \in Visitors |-> FALSE] /\ resolver = [v \in Visitors |-> FALSE]
    /\ challenges = [v \in Visitors |-> 0]
    /\ typed = [v \in Visitors |-> NoCode] /\ codeShown = [v \in Visitors |-> NoCode]
    /\ answer = [v \in Visitors |-> Refused] /\ submits = [v \in Visitors |-> 0]
    /\ messages = {} /\ changed = {} /\ code \in {NoCode, 1} /\ minted = code /\ spent = {}

(***************************************************************************)
(* The submit handlers: the form is complete and nothing is under way.     *)
(***************************************************************************)
\* A code, a passkey on the security page and a cancellation are sent without a token.
NeedsToken(v, request) ==
    request = "form" \/ (request = "passkey" /\ form[v] = "login")

Begin(v, request, entry) ==
    /\ ~submitting[v] /\ submits[v] < MaxSubmits
    /\ submits' = [submits EXCEPT ![v] = @ + 1]
    /\ submitting' = [submitting EXCEPT ![v] = TRUE]
    /\ call' = [call EXCEPT ![v] = request]
    /\ run' = [run EXCEPT ![v] = IF NeedsToken(v, request) THEN "widget" ELSE "posted"]
    /\ typed' = [typed EXCEPT ![v] = entry]
    /\ UNCHANGED <<form, stage, codeShown, widgetSide, answer, serverSide>>

SubmitReport(v) == form[v] = "report" /\ stage[v] # "done" /\ Begin(v, "form", NoCode)
SubmitClaim(v) == form[v] = "claim" /\ stage[v] # "done" /\ Begin(v, "form", NoCode)
SubmitContact(v) == form[v] = "contact" /\ stage[v] # "done" /\ Begin(v, "form", NoCode)
SubmitSignup(v) == form[v] = "signup" /\ codeShown[v] = NoCode /\ Begin(v, "form", NoCode)
SubmitRecover(v) ==
    /\ form[v] = "recover" /\ codeShown[v] = NoCode
    /\ \E entry \in NoCode..minted : Begin(v, "form", entry)

\* The login form asks for the password, then perhaps for a code of the authenticator.
SubmitLogin(v) ==
    /\ form[v] = "login"
    /\ Begin(v, IF stage[v] = "otp" THEN "otp" ELSE "form", NoCode)
PasskeyLogin(v) == form[v] = "login" /\ Begin(v, "passkey", NoCode)

\* SecurityPage: proof of who asks, by password or passkey; then a code of the new secret.
SubmitReauth(v) == form[v] = "security" /\ stage[v] = "form" /\ Begin(v, "form", NoCode)
PasskeyReauth(v) == form[v] = "security" /\ stage[v] = "form" /\ Begin(v, "passkey", NoCode)
SubmitOtp(v) == form[v] = "security" /\ stage[v] = "setup" /\ Begin(v, "otp", NoCode)

\* The dialogue closes at once; the server is told to forget the proof.
CancelChange(v) ==
    /\ form[v] = "security" /\ stage[v] \in {"form", "setup"} /\ ~submitting[v]
    /\ submits[v] < MaxSubmits /\ submits' = [submits EXCEPT ![v] = @ + 1]
    /\ stage' = [stage EXCEPT ![v] = "form"]
    /\ submitting' = [submitting EXCEPT ![v] = TRUE]
    /\ call' = [call EXCEPT ![v] = "cancel"] /\ run' = [run EXCEPT ![v] = "posted"]
    /\ UNCHANGED <<form, typed, codeShown, widgetSide, answer, serverSide>>

\* Back from the code to the password.
BackToPassword(v) ==
    /\ stage[v] = "otp" /\ ~submitting[v] /\ stage' = [stage EXCEPT ![v] = "form"]
    /\ UNCHANGED <<form, submitting, typed, codeShown, submits, run, call, widgetSide, answer, serverSide>>

\* The handler's catch: the error is shown and the form can be sent again.
ShowError(v) ==
    /\ run' = [run EXCEPT ![v] = "none"] /\ submitting' = [submitting EXCEPT ![v] = FALSE]
    /\ UNCHANGED <<form, stage, typed, codeShown, submits>>

(***************************************************************************)
(* useTurnstile                                                            *)
(***************************************************************************)
ScriptLoads(v) ==
    /\ ~script[v] /\ script' = [script EXCEPT ![v] = TRUE]
    /\ UNCHANGED <<pageSide, run, call, resolver, challenges, answer, serverSide>>

\* getToken executes the widget, or gives up after ten seconds without the script.
Execute(v) ==
    /\ run[v] = "widget" /\ script[v]
    /\ run' = [run EXCEPT ![v] = "challenge"]
    /\ resolver' = [resolver EXCEPT ![v] = TRUE]
    /\ challenges' = [challenges EXCEPT ![v] = @ + 1]
    /\ UNCHANGED <<pageSide, call, script, answer, serverSide>>

NoWidget(v) ==
    /\ run[v] = "widget" /\ ~script[v] /\ ShowError(v)
    /\ UNCHANGED <<call, widgetSide, answer, serverSide>>

\* A callback settles whatever waits, and nothing when nothing does.
TokenArrives(v) ==
    /\ challenges[v] > 0 /\ challenges' = [challenges EXCEPT ![v] = @ - 1]
    /\ resolver' = [resolver EXCEPT ![v] = FALSE]
    /\ run' = [run EXCEPT ![v] = IF resolver[v] THEN "posted" ELSE @]
    /\ UNCHANGED <<pageSide, call, script, answer, serverSide>>

\* error-callback or expired-callback, whose challenge may still call back later.
ChallengeFails(v) ==
    /\ resolver[v] /\ resolver' = [resolver EXCEPT ![v] = FALSE] /\ ShowError(v)
    /\ UNCHANGED <<call, script, challenges, answer, serverSide>>

(***************************************************************************)
(* The routes.  The token is verified first, then the fixed-key limit.     *)
(***************************************************************************)
Respond(v, result) ==
    /\ run' = [run EXCEPT ![v] = "answered"] /\ answer' = [answer EXCEPT ![v] = result]
    /\ UNCHANGED <<pageSide, call, widgetSide>>

\* requireTurnstile, or a verification that cannot be made.
TokenRefused(v) ==
    /\ run[v] = "posted" /\ NeedsToken(v, call[v]) /\ Respond(v, Refused) /\ UNCHANGED serverSide

\* checkRateLimit guards what anyone may write, and lets through when it fails itself.
RateLimited(v) ==
    /\ run[v] = "posted" /\ form[v] \in Messages \cup {"signup"}
    /\ Respond(v, Refused) /\ UNCHANGED serverSide

\* A message is validated and stored; an insert may fail.
StoreMessage(v) ==
    \/ Respond(v, Accepted) /\ messages' = messages \cup {v} /\ UNCHANGED <<changed, code, minted, spent>>
    \/ Respond(v, Refused) /\ UNCHANGED serverSide

PostReport(v) == run[v] = "posted" /\ form[v] \in {"report", "claim"} /\ StoreMessage(v)
PostContact(v) == run[v] = "posted" /\ form[v] = "contact" /\ StoreMessage(v)

\* The account is inserted unless its ID is taken, and the code is shown this once.
PostSignup(v) ==
    /\ run[v] = "posted" /\ form[v] = "signup"
    /\ minted' = minted + 1 /\ UNCHANGED <<messages, changed, spent>>
    /\ IF code = NoCode
       THEN code' = NewCode.code /\ Respond(v, NewCode)
       ELSE Respond(v, Refused) /\ UNCHANGED code

\* Recovery reads the account and compares; typed still holds the code that matched.
RecoverRead(v) ==
    /\ run[v] = "posted" /\ form[v] = "recover" /\ UNCHANGED serverSide
    /\ IF code # NoCode /\ typed[v] = code
       THEN /\ run' = [run EXCEPT ![v] = "resetting"]
            /\ UNCHANGED <<pageSide, call, widgetSide, answer>>
       ELSE Respond(v, Refused)

\* Mutant: the reset is conditioned on the account alone.
ResetById(v) == code # NoCode

\* WHERE recovery_code_hash = ? of the reset.
ResetGuard(v) == code = typed[v]

RecoverWrite(v) ==
    /\ run[v] = "resetting" /\ minted' = minted + 1 /\ UNCHANGED <<messages, changed>>
    /\ IF ResetGuard(v)
       THEN code' = NewCode.code /\ spent' = spent \cup {typed[v]} /\ Respond(v, NewCode)
       ELSE Respond(v, Refused) /\ UNCHANGED <<code, spent>>

\* session_version = ? of the reset: the factors changed meanwhile on another device.
RecoverOvertaken(v) == run[v] = "resetting" /\ Respond(v, Refused) /\ UNCHANGED serverSide

PostLogin(v) ==
    /\ run[v] = "posted" /\ form[v] = "login" /\ UNCHANGED serverSide
    /\ \/ call[v] = "form" /\ \E result \in {Refused, Accepted, AskOtp} : Respond(v, result)
       \/ call[v] = "otp" /\ \E result \in {Refused, Accepted} : Respond(v, result)
       \/ /\ call[v] = "passkey" /\ run' = [run EXCEPT ![v] = "device"]
          /\ UNCHANGED <<pageSide, call, widgetSide, answer>>

\* What a security page's request asks: the proof, a code for the new secret, or to forget.
PostSecurity(v) ==
    /\ run[v] = "posted" /\ form[v] = "security"
    /\ \/ Respond(v, Refused) /\ UNCHANGED serverSide
       \/ /\ call[v] \in {"form", "passkey"}
          /\ run' = [run EXCEPT ![v] = IF call[v] = "form" THEN "changing" ELSE "device"]
          /\ UNCHANGED <<pageSide, call, widgetSide, answer, serverSide>>
       \/ /\ call[v] = "otp" /\ changed' = changed \cup {v} /\ Respond(v, Accepted)
          /\ UNCHANGED <<messages, code, minted, spent>>
       \/ call[v] = "cancel" /\ Respond(v, Accepted) /\ UNCHANGED serverSide

\* executeAction after the proof: a secret to set up, or the change itself, made or refused.
ExecuteAction(v) ==
    /\ run[v] = "changing"
    /\ \/ \E result \in {AskOtp, Refused} : Respond(v, result) /\ UNCHANGED serverSide
       \/ /\ Respond(v, Accepted) /\ changed' = changed \cup {v}
          /\ UNCHANGED <<messages, code, minted, spent>>

\* A challenge is signed on the device and verified, or the user cancels.
DeviceAnswers(v) ==
    /\ run[v] = "device" /\ UNCHANGED serverSide
    /\ \/ form[v] = "login" /\ \E result \in {Refused, Accepted} : Respond(v, result)
       \/ /\ form[v] = "security" /\ run' = [run EXCEPT ![v] = "changing"]
          /\ UNCHANGED <<pageSide, call, widgetSide, answer>>
       \/ form[v] = "security" /\ Respond(v, Refused)
       \/ ShowError(v) /\ UNCHANGED <<call, widgetSide, answer>>

(***************************************************************************)
(* The answer                                                              *)
(***************************************************************************)
Arrived(v) ==
    /\ run' = [run EXCEPT ![v] = "none"]
    /\ UNCHANGED <<form, typed, submits, call, widgetSide, answer, serverSide>>

AnswerArrives(v) ==
    /\ run[v] = "answered" /\ answer[v] # Refused /\ Arrived(v)
    /\ \/ /\ form[v] \in Messages
          /\ stage' = [stage EXCEPT ![v] = "done"]
          /\ submitting' = [submitting EXCEPT ![v] = FALSE] /\ UNCHANGED codeShown
       \/ /\ form[v] \in {"signup", "recover"}
          /\ codeShown' = [codeShown EXCEPT ![v] = answer[v].code]
          /\ submitting' = [submitting EXCEPT ![v] = FALSE] /\ UNCHANGED stage
       \/ /\ form[v] = "login" /\ answer[v] = AskOtp
          /\ stage' = [stage EXCEPT ![v] = "otp"]
          /\ submitting' = [submitting EXCEPT ![v] = FALSE] /\ UNCHANGED codeShown
       \/ /\ form[v] = "security" /\ answer[v] = AskOtp
          /\ stage' = [stage EXCEPT ![v] = "setup"]
          /\ submitting' = [submitting EXCEPT ![v] = FALSE] /\ UNCHANGED codeShown
       \/ /\ form[v] = "security" /\ answer[v] = Accepted
          /\ stage' = [stage EXCEPT ![v] = IF call[v] = "cancel" THEN @ ELSE "done"]
          /\ submitting' = [submitting EXCEPT ![v] = FALSE] /\ UNCHANGED codeShown
       \/ /\ form[v] = "login" /\ answer[v] = Accepted  \* the page is left, still submitting
          /\ stage' = [stage EXCEPT ![v] = "done"] /\ UNCHANGED <<submitting, codeShown>>

\* A refusal, or an answer lost on the way.
Rejected(v) ==
    /\ run[v] = "answered" /\ ShowError(v) /\ UNCHANGED <<call, widgetSide, answer, serverSide>>

FormsNext == \E v \in Visitors :
    \/ SubmitReport(v) \/ SubmitClaim(v) \/ SubmitContact(v) \/ SubmitSignup(v)
    \/ SubmitReauth(v) \/ PasskeyReauth(v) \/ SubmitOtp(v) \/ CancelChange(v)
    \/ PostSecurity(v) \/ ExecuteAction(v)
    \/ SubmitRecover(v) \/ SubmitLogin(v) \/ PasskeyLogin(v) \/ BackToPassword(v)
    \/ ScriptLoads(v) \/ Execute(v) \/ NoWidget(v) \/ TokenArrives(v) \/ ChallengeFails(v)
    \/ TokenRefused(v) \/ RateLimited(v) \/ PostReport(v) \/ PostContact(v) \/ PostSignup(v)
    \/ RecoverRead(v) \/ RecoverWrite(v) \/ RecoverOvertaken(v) \/ PostLogin(v) \/ DeviceAnswers(v)
    \/ AnswerArrives(v) \/ Rejected(v)

FormsSpec == FormsInit /\ [][FormsNext]_formVars

\* What a page tells its visitor is so, whatever other tabs did at the same time: thanks
\* mean the message is stored, and a change announced on the security page was made; a
\* recovery code on the screen opens the account until somebody who holds it uses it; a
\* page that says it is sending has a handler that will end, and one waiting for a token
\* has the callback that brings it.
FormsHonest ==
    \A v \in Visitors :
        /\ form[v] \in Messages /\ stage[v] = "done" => v \in messages
        /\ form[v] = "security" /\ stage[v] = "done" => v \in changed
        /\ codeShown[v] # NoCode => codeShown[v] = code \/ codeShown[v] \in spent
        /\ submitting[v] <=> run[v] # "none" \/ (form[v] = "login" /\ stage[v] = "done")
        /\ run[v] = "challenge" <=> resolver[v]
=============================================================================
