---------------------------- MODULE AuthExchange ----------------------------
(***************************************************************************)
(* Authentication: the forms a gateway sends during                        *)
(* openconnect_obtain_cookie, how VpnSession fills them from the keychain  *)
(* and the user, what StoredPasswordTracker concludes, and what Connect    *)
(* does to the keychain afterwards (core/vpn_session.hpp,                  *)
(* core/stored_password.hpp).  The keychain outlives the exchange; every   *)
(* connect makes a new session.  The gateway is the environment.           *)
(*                                                                         *)
(* A form is a sequence of fields.  "text" stands for user names, choices  *)
(* and everything else that is asked and never stored; "otp" for a code    *)
(* whose type or name shows it is a second factor; "disguisedOtp" for one  *)
(* that arrives as a password field with an innocent name.                 *)
(***************************************************************************)
EXTENDS Naturals, Sequences

CONSTANTS
    Passwords,       \* what a login password may be
    NoPassword,      \* none stored, none pending
    OneTimeCode,     \* what the user types into a field asking for a code
    GatewayReAsks,   \* a wrong answer may be asked for again, not only refused
    DisguisesOtp,    \* the gateway asks for the code in a "password" field
    MayLock,         \* the keychain may be locked, which fails its operations
    MaxForms         \* forms the gateway sends before it gives up

ASSUME AuthAssumption ==
    /\ NoPassword \notin Passwords \cup {OneTimeCode}
    /\ OneTimeCode \notin Passwords
    /\ GatewayReAsks \in BOOLEAN
    /\ DisguisesOtp \in BOOLEAN
    /\ MayLock \in BOOLEAN
    /\ MaxForms \in Nat \ {0}

VARIABLES
    phase,            \* "idle", "waiting" for the gateway, "filling" a form,
                      \* "succeeded" or "failed" (obtain_cookie returned)
    options,          \* the session's rememberPassword, and secretAccount given
    fields,           \* the fields of the form not filled yet
    tracker,          \* StoredPasswordTracker's state
    pendingPassword,  \* to be stored after success
    storablePasswordSeen,
    keychain,         \* the password stored for the account, or NoPassword
    locked,           \* the keychain can be neither read nor written
    gatewayPassword,  \* the one the gateway accepts
    expects,          \* what the gateway wants next
    answer,           \* the password in the form being filled, or NoPassword
    forms             \* forms sent in this exchange

sessionVars ==
    <<phase, options, fields, tracker, pendingPassword, storablePasswordSeen>>
gatewayVars == <<gatewayPassword, expects, answer, forms>>

\* History.
VARIABLES
    submittedStored,  \* how often the stored password went into a form
    shownAccepted,    \* a form after it showed that the gateway accepted it
    accepted,         \* the password the gateway accepted in this exchange
    storedRejected,   \* the gateway has found the stored password wrong
    misread           \* and went on with a form that asks for no password

historyVars ==
    <<submittedStored, shownAccepted, accepted, storedRejected, misread>>
vars == <<sessionVars, gatewayVars, keychain, locked, historyVars>>

Secrets == Passwords \cup {OneTimeCode}
TrackerState == {"Unused", "Submitted", "Accepted", "Rejected"}
Field == {"text", "password", "otp", "disguisedOtp", "sso"}
Wanted == {"login", "code", "cookie", "refusal"}

TypeOK ==
    /\ phase \in {"idle", "waiting", "filling", "succeeded", "failed"}
    /\ options \in [remember : BOOLEAN, account : BOOLEAN]
    /\ fields \in Seq(Field)
    /\ tracker \in TrackerState
    /\ pendingPassword \in Secrets \cup {NoPassword}
    /\ storablePasswordSeen \in BOOLEAN
    /\ keychain \in Secrets \cup {NoPassword}
    /\ locked \in BOOLEAN
    /\ gatewayPassword \in Passwords
    /\ expects \in Wanted
    /\ answer \in Secrets \cup {NoPassword}
    /\ forms \in 0..MaxForms
    /\ submittedStored \in Nat
    /\ shownAccepted \in BOOLEAN
    /\ accepted \in Passwords \cup {NoPassword}
    /\ storedRejected \in BOOLEAN
    /\ misread \in BOOLEAN

NewExchange(remember, account) ==
    /\ options' = [remember |-> remember, account |-> account]
    /\ fields' = <<>>
    /\ tracker' = "Unused"
    /\ pendingPassword' = NoPassword
    /\ storablePasswordSeen' = FALSE
    /\ expects' = "login"
    /\ answer' = NoPassword
    /\ forms' = 0
    /\ submittedStored' = 0
    /\ shownAccepted' = FALSE
    /\ accepted' = NoPassword
    /\ storedRejected' = FALSE
    /\ misread' = FALSE

Init ==
    /\ phase = "idle"
    /\ options = [remember |-> FALSE, account |-> FALSE]
    /\ fields = <<>>
    /\ tracker = "Unused"
    /\ pendingPassword = NoPassword
    /\ storablePasswordSeen = FALSE
    /\ keychain = NoPassword
    /\ locked = FALSE
    /\ gatewayPassword \in Passwords
    /\ expects = "login"
    /\ answer = NoPassword
    /\ forms = 0
    /\ submittedStored = 0
    /\ shownAccepted = FALSE
    /\ accepted = NoPassword
    /\ storedRejected = FALSE
    /\ misread = FALSE

\* A connect makes a new session and calls openconnect_obtain_cookie.
Connect ==
    /\ phase = "idle"
    /\ phase' = "waiting"
    /\ \E remember, account \in BOOLEAN : NewExchange(remember, account)
    /\ UNCHANGED <<keychain, locked, gatewayPassword>>

-----------------------------------------------------------------------------
(***************************************************************************)
(* The gateway and the user.                                               *)
(***************************************************************************)

LoginForms ==
    {<<"text">>, <<"password">>, <<"text", "password">>, <<"password", "otp">>,
     <<"sso">>}
CodeForms == IF DisguisesOtp THEN {<<"otp">>, <<"disguisedOtp">>} ELSE {<<"otp">>}

\* The forms that ask for what the gateway wants.  A login may be asked for in any
\* number of forms and begun anew at any of them: a gateway that found the password
\* wrong may ask for the user name again, in a form of its own.
FormsFor(wanted) == IF wanted = "code" THEN CodeForms ELSE LoginForms

\* What the gateway makes of a form it got back.
VerdictOn(login) ==
    IF login = NoPassword THEN {"login"}
    ELSE IF login = gatewayPassword THEN {"code", "cookie"}
    ELSE IF GatewayReAsks THEN {"login", "refusal"} ELSE {"refusal"}

CodeVerdicts ==
    IF GatewayReAsks THEN {"code", "cookie", "refusal"} ELSE {"cookie", "refusal"}

\* The filled form is sent: a login is judged, or a code is.
SubmitForm ==
    /\ phase = "filling"
    /\ fields = <<>>
    /\ phase' = "waiting"
    /\ IF expects = "code"
         THEN expects' \in CodeVerdicts /\ UNCHANGED <<accepted, storedRejected>>
         ELSE /\ expects' \in VerdictOn(answer)
              /\ accepted' = IF answer = gatewayPassword THEN answer ELSE accepted
              /\ storedRejected' =
                   (\/ storedRejected
                    \/ /\ tracker = "Submitted"
                       /\ answer \notin {NoPassword, gatewayPassword})
    /\ UNCHANGED <<options, fields, tracker, pendingPassword,
                   storablePasswordSeen, keychain, locked, gatewayPassword, answer,
                   forms, submittedStored, shownAccepted, misread>>

\* The cookie comes, or a refusal, a lost connection or a cancelled wait.
GatewayEnds ==
    /\ phase = "waiting"
    /\ \/ expects = "cookie" /\ phase' = "succeeded"
       \/ phase' = "failed"
    /\ UNCHANGED <<options, fields, tracker, pendingPassword,
                   storablePasswordSeen, keychain, locked, gatewayVars, historyVars>>

\* The desktop locks and unlocks the keychain as it likes.
LockKeychain ==
    /\ MayLock
    /\ locked' = ~locked
    /\ UNCHANGED <<sessionVars, gatewayVars, keychain, historyVars>>

\* A write to the keychain; a failure is only logged.
Keychain(password) == keychain' = IF locked THEN keychain ELSE password

\* Between two connects the login password may expire and be changed, and
\* "Forget saved password" removes the stored one (profile_dialog.hpp).
ChangePassword ==
    /\ phase = "idle"
    /\ \E password \in Passwords \ {gatewayPassword} : gatewayPassword' = password
    /\ UNCHANGED <<sessionVars, keychain, locked, expects, answer, forms, historyVars>>

ForgetPassword ==
    /\ phase = "idle"
    /\ keychain # NoPassword
    /\ Keychain(NoPassword)
    /\ UNCHANGED <<sessionVars, gatewayVars, locked, historyVars>>

-----------------------------------------------------------------------------
(***************************************************************************)
(* VpnSession::ProcessAuthForm.                                            *)
(***************************************************************************)

\* A password-type field without a second factor's name.
LooksLikePassword(field) == field \in {"password", "disguisedOtp"}

\* FieldsOf
AsksForPassword(form) == \E i \in DOMAIN form : LooksLikePassword(form[i])

\* A slip: a form without a password field leaves the tracker without a state.
TrackerOnFormResets(form) ==
    IF tracker # "Submitted" THEN tracker
    ELSE IF AsksForPassword(form) THEN "Rejected" ELSE "None"

\* StoredPasswordTracker::OnForm, called before the form is filled.
TrackerOnForm(form) ==
    IF tracker # "Submitted" THEN tracker
    ELSE IF AsksForPassword(form) THEN "Rejected" ELSE "Accepted"

ReceiveForm ==
    /\ phase = "waiting"
    /\ expects \in {"login", "code"}
    /\ forms < MaxForms
    /\ \E form \in FormsFor(expects) :
         /\ fields' = form
         /\ tracker' = TrackerOnForm(form)
    /\ phase' = "filling"
    /\ forms' = forms + 1
    /\ answer' = NoPassword
    /\ shownAccepted' =
         (\/ shownAccepted
          \/ /\ expects = "code" /\ tracker = "Submitted"
             /\ ~AsksForPassword(fields'))
    /\ misread' =
         (\/ misread
          \/ /\ storedRejected /\ tracker = "Submitted"
             /\ ~AsksForPassword(fields'))
    /\ UNCHANGED <<options, pendingPassword, storablePasswordSeen, keychain, locked,
                   gatewayPassword, expects, submittedStored, accepted,
                   storedRejected>>

\* IsStorablePassword, without its side effect.
Storable(field) ==
    options.account /\ LooksLikePassword(field) /\ ~storablePasswordSeen

LookupFindsNothing == keychain = NoPassword \/ locked

\* A slip: the field is not remembered as the one password of the exchange.
FillFromKeychainAgain ==
    /\ phase = "filling"
    /\ fields # <<>>
    /\ Storable(Head(fields))
    /\ ~LookupFindsNothing
    /\ fields' = Tail(fields)
    /\ tracker' = "Submitted"
    /\ answer' = keychain
    /\ submittedStored' = submittedStored + 1
    /\ UNCHANGED <<phase, options, pendingPassword, storablePasswordSeen,
                   keychain, locked, gatewayPassword, expects, forms, shownAccepted,
                   accepted, storedRejected, misread>>

\* The keychain has a password for a storable field: it is submitted unasked.
FillFromKeychain ==
    /\ phase = "filling"
    /\ fields # <<>>
    /\ Storable(Head(fields))
    /\ ~LookupFindsNothing
    /\ fields' = Tail(fields)
    /\ storablePasswordSeen' = TRUE
    /\ tracker' = "Submitted"
    /\ answer' = keychain
    /\ submittedStored' = submittedStored + 1
    /\ UNCHANGED <<phase, options, pendingPassword, keychain, locked, gatewayPassword,
                   expects, forms, shownAccepted, accepted, storedRejected,
                   misread>>

\* What the user may type into a field.
Typed(field) == IF field = "password" THEN Passwords ELSE {OneTimeCode}

\* A slip: every password field is storable.
FillFromUserAgain ==
    /\ phase = "filling"
    /\ fields # <<>>
    /\ Head(fields) # "sso"
    /\ Storable(Head(fields)) => LookupFindsNothing
    /\ \E typed \in Typed(Head(fields)) :
         /\ answer' = IF Head(fields) = "password" THEN typed ELSE answer
         /\ pendingPassword' =
              IF Storable(Head(fields)) /\ options.remember
                THEN typed ELSE pendingPassword
    /\ fields' = Tail(fields)
    /\ UNCHANGED <<phase, options, tracker, storablePasswordSeen, keychain, locked,
                   gatewayPassword, expects, forms, historyVars>>

\* Otherwise the user is asked, and a storable answer is kept until success.
FillFromUser ==
    /\ phase = "filling"
    /\ fields # <<>>
    /\ Head(fields) # "sso"
    /\ Storable(Head(fields)) => LookupFindsNothing
    /\ \E typed \in Typed(Head(fields)) :
         /\ answer' = IF Head(fields) = "password" THEN typed ELSE answer
         /\ pendingPassword' =
              IF Storable(Head(fields)) /\ options.remember
                THEN typed ELSE pendingPassword
    /\ fields' = Tail(fields)
    /\ storablePasswordSeen' =
         (storablePasswordSeen \/ Storable(Head(fields)))
    /\ UNCHANGED <<phase, options, tracker, keychain, locked, gatewayPassword, expects,
                   forms, historyVars>>

\* The user cancels a prompt, or the form wants the single sign-on that the
\* prompters do not support.  The cancelled field was looked at all the same.
AbandonForm ==
    /\ phase = "filling"
    /\ fields # <<>>
    /\ Storable(Head(fields)) => LookupFindsNothing
    /\ phase' = "failed"
    /\ storablePasswordSeen' =
         (storablePasswordSeen \/ Storable(Head(fields)))
    /\ UNCHANGED <<options, fields, tracker, pendingPassword, keychain, locked,
                   gatewayVars, historyVars>>

-----------------------------------------------------------------------------
(***************************************************************************)
(* The rest of VpnSession::Connect that concerns the password.             *)
(***************************************************************************)

\* Slips: only a password asked for again is forgotten; any used one is.
ForgetOnlyRejected ==
    /\ phase = "failed"
    /\ phase' = "idle"
    /\ IF tracker = "Rejected" /\ options.account
         THEN Keychain(NoPassword)
         ELSE UNCHANGED keychain
    /\ pendingPassword' = NoPassword
    /\ UNCHANGED <<options, fields, tracker, storablePasswordSeen, gatewayVars,
                   locked, historyVars>>

ForgetAnyUsed ==
    /\ phase = "failed"
    /\ phase' = "idle"
    /\ IF tracker # "Unused" /\ options.account
         THEN Keychain(NoPassword)
         ELSE UNCHANGED keychain
    /\ pendingPassword' = NoPassword
    /\ UNCHANGED <<options, fields, tracker, storablePasswordSeen, gatewayVars,
                   locked, historyVars>>

\* obtain_cookie failed: forget the password the failure may be due to.
LoginFailed ==
    /\ phase = "failed"
    /\ phase' = "idle"
    /\ IF tracker \in {"Submitted", "Rejected"} /\ options.account
         THEN Keychain(NoPassword)
         ELSE UNCHANGED keychain
    /\ pendingPassword' = NoPassword
    /\ UNCHANGED <<options, fields, tracker, storablePasswordSeen, gatewayVars,
                   locked, historyVars>>

LoginSucceeded ==
    /\ phase = "succeeded"
    /\ phase' = "idle"
    /\ IF pendingPassword # NoPassword
         THEN Keychain(pendingPassword)
         ELSE UNCHANGED keychain
    /\ pendingPassword' = NoPassword
    /\ UNCHANGED <<options, fields, tracker, storablePasswordSeen, gatewayVars,
                   locked, historyVars>>

Next ==
    \/ Connect \/ ReceiveForm \/ FillFromKeychain \/ FillFromUser
    \/ AbandonForm \/ SubmitForm \/ GatewayEnds \/ LoginFailed
    \/ LoginSucceeded \/ ChangePassword \/ ForgetPassword \/ LockKeychain

Spec == Init /\ [][Next]_vars

-----------------------------------------------------------------------------
(***************************************************************************)
(* What the user is promised about the stored password.                    *)
(***************************************************************************)

\* Only a password the gateway accepted in this very exchange is saved
\* (vpn_session.hpp:679-680 and 180-191).
SavedPasswordWasAccepted ==
    [][keychain' \notin {keychain, NoPassword} => keychain' = accepted]_vars

\* An exchange that failed after the gateway had rejected the stored password
\* leaves none stored, so that no later connect retries it into a lockout
\* (docs/CLAVISTER.md:66, vpn_session.hpp:153-162).  Two cases are excepted: the
\* keychain is locked, or the form that followed the rejection asked for no
\* password, say for the user name again, which StoredPasswordTracker takes for a
\* sign that the gateway went on to the code (stored_password.hpp:21-29).
RejectedPasswordForgotten ==
    [][phase = "failed" /\ phase' = "idle" /\ storedRejected =>
         locked \/ misread \/ keychain' = NoPassword]_vars

\* Once a later form, one that shows it asks for no password, follows the stored
\* password, that stays stored, whatever becomes of the one-time code
\* (README.md:43, stored_password.hpp:3-9).
AcceptedPasswordKept ==
    [][phase = "failed" /\ shownAccepted => keychain' = keychain]_vars

\* One exchange submits the stored password at most once, however often the
\* gateway asks (vpn_session.hpp:714-740).
StoredPasswordSubmittedOnce == submittedStored <= 1

\* One-time codes are never stored, nor waiting to be, even when they are asked
\* for like a password (README.md:43, vpn_session.hpp:714-720).
OtpNeverStored == OneTimeCode \notin {keychain, pendingPassword}

=============================================================================
