-------------------------- MODULE AuthExchangeProofs --------------------------
(***************************************************************************)
(* Proofs about AuthExchange for any passwords, any gateway and any number *)
(* of forms: what may be stored, how often it is submitted, and when it is *)
(* forgotten.                                                              *)
(***************************************************************************)
EXTENDS AuthExchange, SequenceTheorems, TLAPS

\* A login answered, a stored password submitted or a code wanted: the one
\* storable field of the exchange has been seen.
SeenInv ==
    /\ (answer # NoPassword \/ expects = "code") /\ options.account =>
         storablePasswordSeen
    /\ tracker # "Unused" \/ submittedStored > 0 =>
         storablePasswordSeen /\ options.account
    /\ submittedStored <= 1

\* What is still to be filled belongs to what the gateway wants.
FieldsInv ==
    phase = "filling" =>
        /\ forms > 0
        /\ (\E i \in 1..Len(fields) : fields[i] = "disguisedOtp") => expects = "code"

\* The tracker knows what became of the stored password, unless the form after a
\* rejection asked for no password.
VerdictInv ==
    /\ shownAccepted => tracker = "Accepted"
    /\ storedRejected /\ ~misread =>
         \/ tracker = "Rejected"
         \/ /\ tracker = "Submitted" /\ phase # "filling"
            /\ expects \in {"login", "refusal"} /\ forms > 0

AuthInv == TypeOK /\ OtpNeverStored /\ SeenInv /\ FieldsInv /\ VerdictInv

-----------------------------------------------------------------------------
(***************************************************************************)
(* Forms and their fields.                                                 *)
(***************************************************************************)

\* The next field, and what is left after it.
LEMMA FieldsLeft ==
    ASSUME fields \in Seq(Field), fields # <<>>
    PROVE  /\ Head(fields) \in Field /\ Tail(fields) \in Seq(Field)
           /\ 1 \in 1..Len(fields) /\ Head(fields) = fields[1]
           /\ \A i \in 1..Len(Tail(fields)) :
                i + 1 \in 1..Len(fields) /\ Tail(fields)[i] = fields[i + 1]
<1>1. Len(fields) \in Nat /\ Len(fields) > 0
  BY EmptySeq, LenProperties
<1> QED  BY <1>1, HeadTailProperties, ElementOfSeq

LEMMA ShortForms ==
    ASSUME NEW first \in Field, NEW second \in Field
    PROVE  <<first>> \in Seq(Field) /\ <<first, second>> \in Seq(Field)
OBVIOUS

\* The forms a gateway sends have known fields, and codes are only asked for when it
\* wants one.
LEMMA GatewayForms ==
    ASSUME NEW form \in FormsFor(expects)
    PROVE  /\ form \in Seq(Field)
           /\ expects # "code" => \A i \in 1..Len(form) : form[i] # "disguisedOtp"
<1>1. CASE expects = "code"
  <2>1. form \in {<<"otp">>, <<"disguisedOtp">>}
    BY <1>1 DEF FormsFor, CodeForms
  <2> QED  BY <1>1, <2>1, ShortForms DEF Field
<1>2. CASE expects # "code"
  <2>1. form \in LoginForms
    BY <1>2 DEF FormsFor
  <2>2. form \in Seq(Field)
    BY <2>1, ShortForms DEF LoginForms, Field
  <2>3. \A i \in 1..Len(form) : form[i] # "disguisedOtp"
    BY <2>1 DEF LoginForms
  <2> QED  BY <1>2, <2>2, <2>3
<1> QED  BY <1>1, <1>2

-----------------------------------------------------------------------------
(***************************************************************************)
(* Each action keeps the invariant.                                        *)
(***************************************************************************)

LEMMA InitAuth == AuthAssumption /\ Init => AuthInv
<1> SUFFICES ASSUME AuthAssumption, Init PROVE AuthInv
  OBVIOUS
<1>1. TypeOK
  <2>1. fields \in Seq(Field) /\ options \in [remember : BOOLEAN, account : BOOLEAN]
    BY EmptySeq DEF Init
  <2>2. /\ tracker \in TrackerState /\ expects \in Wanted
        /\ phase \in {"idle", "waiting", "filling", "succeeded", "failed"}
    BY DEF Init, TrackerState, Wanted
  <2>3. forms \in 0..MaxForms /\ submittedStored \in Nat
    BY DEF Init, AuthAssumption
  <2> QED  BY <2>1, <2>2, <2>3 DEF Init, TypeOK
<1>2. OtpNeverStored
  BY DEF AuthAssumption, Init, OtpNeverStored
<1>3. SeenInv /\ FieldsInv /\ VerdictInv
  BY DEF Init, SeenInv, FieldsInv, VerdictInv
<1> QED  BY <1>1, <1>2, <1>3 DEF AuthInv

LEMMA ConnectAuth == AuthAssumption /\ AuthInv /\ Connect => AuthInv'
<1> SUFFICES ASSUME AuthAssumption, AuthInv, Connect PROVE AuthInv'
  OBVIOUS
<1>1. TypeOK'
  <2>1. fields' \in Seq(Field) /\ options' \in [remember : BOOLEAN, account : BOOLEAN]
    BY EmptySeq DEF Connect, NewExchange
  <2>2. /\ tracker' \in TrackerState /\ expects' \in Wanted
        /\ phase' \in {"idle", "waiting", "filling", "succeeded", "failed"}
    BY DEF Connect, NewExchange, TrackerState, Wanted
  <2>3. forms' \in 0..MaxForms /\ submittedStored' \in Nat
    BY DEF Connect, NewExchange, AuthAssumption
  <2> QED  BY <2>1, <2>2, <2>3 DEF Connect, NewExchange, AuthInv, TypeOK
<1>2. OtpNeverStored'
  BY DEF AuthAssumption, Connect, NewExchange, AuthInv, OtpNeverStored
<1>3. SeenInv' /\ FieldsInv' /\ VerdictInv'
  BY DEF Connect, NewExchange, SeenInv, FieldsInv, VerdictInv
<1> QED  BY <1>1, <1>2, <1>3 DEF AuthInv

LEMMA ReceiveAuth == AuthAssumption /\ AuthInv /\ ReceiveForm => AuthInv'
<1> SUFFICES ASSUME AuthAssumption, AuthInv, ReceiveForm PROVE AuthInv'
  OBVIOUS
<1> USE DEF AuthInv
<1>1. PICK form \in FormsFor(expects) : fields' = form /\ tracker' = TrackerOnForm(form)
  BY DEF ReceiveForm
<1>2. /\ form \in Seq(Field)
      /\ expects # "code" => \A i \in 1..Len(form) : form[i] # "disguisedOtp"
  BY GatewayForms
<1>3. TypeOK'
  BY <1>1, <1>2 DEF ReceiveForm, AuthAssumption, TypeOK, TrackerOnForm, TrackerState
<1>4. OtpNeverStored' /\ SeenInv'
  BY <1>1 DEF ReceiveForm, OtpNeverStored, SeenInv, TrackerOnForm
<1>5. FieldsInv'
  BY <1>1, <1>2 DEF ReceiveForm, FieldsInv, TypeOK, AuthAssumption
<1>6. VerdictInv'
  <2>1. shownAccepted' => tracker' = "Accepted"
    BY <1>1 DEF ReceiveForm, VerdictInv, TrackerOnForm
  <2>2. storedRejected' /\ ~misread' => tracker' = "Rejected"
    <3> SUFFICES ASSUME storedRejected', ~misread' PROVE tracker' = "Rejected"
      OBVIOUS
    <3>1. storedRejected /\ ~misread /\ tracker \in {"Rejected", "Submitted"}
      BY DEF ReceiveForm, VerdictInv
    <3>2. tracker = "Submitted" => AsksForPassword(form)
      BY <1>1, <3>1 DEF ReceiveForm
    <3> QED  BY <1>1, <3>1, <3>2 DEF TrackerOnForm
  <2> QED  BY <2>1, <2>2 DEF VerdictInv
<1> QED  BY <1>3, <1>4, <1>5, <1>6

LEMMA KeychainFillsAuth == AuthAssumption /\ AuthInv /\ FillFromKeychain => AuthInv'
<1> SUFFICES ASSUME AuthAssumption, AuthInv, FillFromKeychain PROVE AuthInv'
  OBVIOUS
<1> USE DEF AuthInv
<1>1. fields \in Seq(Field) /\ fields # <<>> /\ fields' = Tail(fields)
  BY DEF TypeOK, FillFromKeychain
<1>2. TypeOK'
  BY <1>1, FieldsLeft DEF FillFromKeychain, TypeOK, TrackerState
<1>3. OtpNeverStored' /\ SeenInv' /\ VerdictInv'
  BY DEF FillFromKeychain, Storable, TypeOK, TrackerState, OtpNeverStored, SeenInv,
     VerdictInv
<1>4. FieldsInv'
  BY <1>1, FieldsLeft DEF FillFromKeychain, FieldsInv
<1> QED  BY <1>2, <1>3, <1>4

LEMMA UserFillsAuth == AuthAssumption /\ AuthInv /\ FillFromUser => AuthInv'
<1> SUFFICES ASSUME AuthAssumption, AuthInv, FillFromUser PROVE AuthInv'
  OBVIOUS
<1> USE DEF AuthInv
<1>1. fields \in Seq(Field) /\ fields # <<>> /\ fields' = Tail(fields)
  BY DEF TypeOK, FillFromUser
<1>2. PICK typed \in Typed(Head(fields)) :
        /\ answer' = IF Head(fields) = "password" THEN typed ELSE answer
        /\ pendingPassword' = IF Storable(Head(fields)) /\ options.remember
                                THEN typed ELSE pendingPassword
  BY DEF FillFromUser
<1>3. typed \in Secrets /\ (Head(fields) = "password" => typed \in Passwords)
  BY <1>2 DEF Typed, Secrets
<1>4. TypeOK'
  BY <1>1, <1>2, <1>3, FieldsLeft DEF FillFromUser, TypeOK, Storable, historyVars
<1>5. OtpNeverStored'
  <2>1. CASE Storable(Head(fields))
    <3>1. Head(fields) # "disguisedOtp"
      BY <1>1, <2>1, FieldsLeft DEF FillFromUser, FieldsInv, SeenInv, Storable
    <3>2. typed \in Passwords
      BY <1>3, <2>1, <3>1 DEF Storable, LooksLikePassword
    <3> QED  BY <1>2, <3>2 DEF FillFromUser, OtpNeverStored, AuthAssumption
  <2>2. CASE ~Storable(Head(fields))
    BY <1>2, <2>2 DEF FillFromUser, OtpNeverStored
  <2> QED  BY <2>1, <2>2
<1>6. SeenInv'
  BY <1>2, <1>3 DEF FillFromUser, SeenInv, Storable, LooksLikePassword, historyVars, TypeOK
<1>7. FieldsInv'
  BY <1>1, FieldsLeft DEF FillFromUser, FieldsInv
<1>8. VerdictInv'
  BY DEF FillFromUser, VerdictInv, historyVars
<1> QED  BY <1>4, <1>5, <1>6, <1>7, <1>8

LEMMA AbandonAuth == AuthAssumption /\ AuthInv /\ AbandonForm => AuthInv'
<1> SUFFICES ASSUME AuthAssumption, AuthInv, AbandonForm PROVE AuthInv'
  OBVIOUS
<1> USE DEF AuthInv, AbandonForm, gatewayVars, historyVars
<1>1. TypeOK'
  BY DEF TypeOK, Storable
<1>2. OtpNeverStored' /\ SeenInv' /\ FieldsInv' /\ VerdictInv'
  BY DEF OtpNeverStored, SeenInv, FieldsInv, VerdictInv
<1> QED  BY <1>1, <1>2

LEMMA SubmitAuth == AuthAssumption /\ AuthInv /\ SubmitForm => AuthInv'
<1> SUFFICES ASSUME AuthAssumption, AuthInv, SubmitForm PROVE AuthInv'
  OBVIOUS
<1> USE DEF AuthInv, SubmitForm
<1>1. expects' \in Wanted /\ (expects' = "code" => expects = "code" \/ answer # NoPassword)
  BY DEF CodeVerdicts, VerdictOn, Wanted, TypeOK, AuthAssumption
<1>2. TypeOK'
  BY <1>1 DEF TypeOK, AuthAssumption
<1>3. OtpNeverStored' /\ FieldsInv'
  BY DEF OtpNeverStored, FieldsInv
<1>4. SeenInv'
  BY <1>1 DEF SeenInv
<1>5. VerdictInv'
  BY DEF VerdictInv, FieldsInv, VerdictOn
<1> QED  BY <1>2, <1>3, <1>4, <1>5

LEMMA EndAuth ==
    AuthAssumption /\ AuthInv /\ (GatewayEnds \/ LoginFailed \/ LoginSucceeded) => AuthInv'
<1> SUFFICES ASSUME AuthAssumption, AuthInv, GatewayEnds \/ LoginFailed \/ LoginSucceeded
             PROVE  AuthInv'
  OBVIOUS
<1> USE DEF AuthInv, GatewayEnds, LoginFailed, LoginSucceeded, Keychain, gatewayVars,
            historyVars
<1>1. TypeOK'
  BY DEF TypeOK
<1>2. OtpNeverStored'
  BY DEF OtpNeverStored, AuthAssumption
<1>3. SeenInv' /\ FieldsInv' /\ VerdictInv'
  BY DEF SeenInv, FieldsInv, VerdictInv
<1> QED  BY <1>1, <1>2, <1>3

LEMMA EnvironmentAuth ==
    AuthAssumption /\ AuthInv /\ (ChangePassword \/ ForgetPassword \/ LockKeychain)
      => AuthInv'
<1> SUFFICES ASSUME AuthAssumption, AuthInv, ChangePassword \/ ForgetPassword \/ LockKeychain
             PROVE  AuthInv'
  OBVIOUS
<1> USE DEF AuthInv, ChangePassword, ForgetPassword, LockKeychain, Keychain, sessionVars,
            gatewayVars, historyVars
<1>1. TypeOK'
  BY DEF TypeOK
<1>2. OtpNeverStored'
  BY DEF OtpNeverStored, AuthAssumption
<1>3. SeenInv' /\ FieldsInv' /\ VerdictInv'
  BY DEF SeenInv, FieldsInv, VerdictInv
<1> QED  BY <1>1, <1>2, <1>3

-----------------------------------------------------------------------------
(***************************************************************************)
(* The theorems.                                                           *)
(***************************************************************************)

\* In every state the storable field, the fields left and the tracker agree
\* (vpn_session.hpp:560-740, stored_password.hpp:19-56).
THEOREM Invariance == Spec => []AuthInv
<1>1. AuthInv /\ [Next]_vars => AuthInv'
  <2> SUFFICES ASSUME AuthInv, [Next]_vars PROVE AuthInv'
    OBVIOUS
  <2>1. CASE Next
    BY <2>1, AuthAssumption, ConnectAuth, ReceiveAuth, KeychainFillsAuth, UserFillsAuth,
       AbandonAuth, SubmitAuth, EndAuth, EnvironmentAuth DEF Next
  <2>2. CASE UNCHANGED vars
    BY <2>2 DEF vars, sessionVars, gatewayVars, historyVars, AuthInv, TypeOK,
       OtpNeverStored, SeenInv, FieldsInv, VerdictInv
  <2> QED  BY <2>1, <2>2
<1> QED  BY <1>1, InitAuth, AuthAssumption, PTL DEF Spec

\* Every state of an exchange, the keychain and the gateway is well typed
\* (vpn_session.hpp:781-800).
THEOREM TypeCorrect == Spec => []TypeOK
<1>1. AuthInv => TypeOK
  BY DEF AuthInv
<1> QED  BY <1>1, Invariance, PTL

\* A one-time code is never stored nor waiting to be, even if it is asked for
\* like a password (README.md:43, vpn_session.hpp:714-720).
THEOREM CodesNotStored == Spec => []OtpNeverStored
<1>1. AuthInv => OtpNeverStored
  BY DEF AuthInv
<1> QED  BY <1>1, Invariance, PTL

\* The stored password goes to the gateway once per exchange at most
\* (vpn_session.hpp:714-740).
THEOREM SubmittedOnce == Spec => []StoredPasswordSubmittedOnce
<1>1. AuthInv => StoredPasswordSubmittedOnce
  BY DEF AuthInv, SeenInv, StoredPasswordSubmittedOnce
<1> QED  BY <1>1, Invariance, PTL

\* A stored password that the gateway rejected in an exchange that failed is gone
\* after it, unless the keychain is locked or the gateway's next form misled the
\* tracker (docs/CLAVISTER.md:66, vpn_session.hpp:153-162).
THEOREM RejectedForgotten == Spec => RejectedPasswordForgotten
<1>1. AuthInv /\ [Next]_vars =>
        [phase = "failed" /\ phase' = "idle" /\ storedRejected =>
           locked \/ misread \/ keychain' = NoPassword]_vars
  <2> SUFFICES ASSUME AuthInv, Next, phase = "failed", phase' = "idle", storedRejected,
                      ~locked, ~misread
               PROVE  keychain' = NoPassword
    BY DEF vars, sessionVars
  <2>1. LoginFailed
    BY DEF Next, Connect, ReceiveForm, FillFromKeychain, FillFromUser, AbandonForm,
       SubmitForm, GatewayEnds, LoginSucceeded, ChangePassword, ForgetPassword,
       LockKeychain, sessionVars
  <2>2. tracker \in {"Submitted", "Rejected"} /\ options.account
    BY DEF AuthInv, VerdictInv, SeenInv
  <2> QED  BY <2>1, <2>2 DEF LoginFailed, Keychain
<1> QED  BY <1>1, Invariance, PTL DEF Spec, RejectedPasswordForgotten

\* A stored password that was shown to be right is still stored after a wrong
\* code (README.md:43, stored_password.hpp:3-9).
THEOREM AcceptedKept == Spec => AcceptedPasswordKept
<1>1. AuthInv /\ [Next]_vars =>
        [phase = "failed" /\ shownAccepted => keychain' = keychain]_vars
  <2> SUFFICES ASSUME AuthInv, Next, phase = "failed", shownAccepted
               PROVE  keychain' = keychain
    BY DEF vars
  <2>1. LoginFailed \/ LockKeychain
    BY DEF Next, Connect, ReceiveForm, FillFromKeychain, FillFromUser, AbandonForm,
       SubmitForm, GatewayEnds, LoginSucceeded, ChangePassword, ForgetPassword
  <2>2. tracker = "Accepted"
    BY DEF AuthInv, VerdictInv
  <2> QED  BY <2>1, <2>2 DEF LoginFailed, LockKeychain
<1> QED  BY <1>1, Invariance, PTL DEF Spec, AcceptedPasswordKept

=============================================================================
