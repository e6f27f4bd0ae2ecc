----------------------------- MODULE Session_proofs -----------------------------
(***************************************************************************)
(* Theorems about module Session: the app is one of those that module      *)
(* Credentials is proved for, so that what is proved there holds of it,    *)
(* and its home screen belongs to somebody who is signed in.               *)
(***************************************************************************)
EXTENDS Session, Credentials_proofs

(* What HomeBelongsToUser rests on: the flag on disk and the flag of the view are
   one; the keychain holds the user, once it was read; and as long as the flag
   was not left for nobody it holds one whenever the home screen is shown, or
   will be. *)
HomeInv ==
  /\ status = home
  /\ loaded => saved = user
  /\ (~flagLeft /\ (home \/ CompletionIsPending)) => saved # Nobody

LEMMA AppTypeStep == AppTypeOK /\ [Next]_vars => AppTypeOK'
  <1> SUFFICES ASSUME AppTypeOK, [Next]_vars PROVE AppTypeOK'
    OBVIOUS
  <1>0. /\ MaxSignIns \in Nat /\ MaxTaps \in Nat
        /\ status \in BOOLEAN /\ home \in BOOLEAN /\ cover \in BOOLEAN
        /\ flagLeft \in BOOLEAN /\ (cover => ~home)
        /\ google \cup attempts \subseteq [id : 0 .. MaxSignIns - 1, user : Users]
        /\ signIns \in 0 .. MaxSignIns /\ taps \in 0 .. MaxTaps /\ gets \in 0 .. taps
    BY SessionAssumption DEF AppTypeOK
  <1>1. CASE \E u \in Users : Login(u) \/ SignUp(u) \/ GoogleButton(u)
    <2>1. PICK u \in Users : Login(u) \/ SignUp(u) \/ GoogleButton(u)
      BY <1>1
    <2>2. /\ UNCHANGED <<status, home, cover, taps, gets, flagLeft>>
          /\ signIns < MaxSignIns /\ signIns' = signIns + 1
          /\ \/ google' = google \cup {[id |-> signIns, user |-> u]} /\ UNCHANGED attempts
             \/ attempts' = attempts \cup {[id |-> signIns, user |-> u]} /\ UNCHANGED google
      BY <2>1 DEF Login, SignUp, GoogleButton, Attempt, CountSignIn
    <2>3. [id |-> signIns, user |-> u] \in [id : 0 .. MaxSignIns - 1, user : Users]
      BY <1>0, <2>2
    <2>4. google' \cup attempts' \subseteq [id : 0 .. MaxSignIns - 1, user : Users]
      BY <1>0, <2>2, <2>3
    <2>5. signIns' \in 0 .. MaxSignIns
      BY <1>0, <2>2
    <2> QED BY <1>0, <2>2, <2>4, <2>5 DEF AppTypeOK
  <1>2. CASE OpenSignUp
    BY <1>0, <1>2 DEF OpenSignUp, AppTypeOK
  <1>3. CASE DidSignInWithGoogle \/ Accepted \/ Refused
    <2>1. /\ UNCHANGED <<status, home, cover, signIns, taps, gets>>
          /\ flagLeft' = flagLeft \/ flagLeft' = FALSE
          /\ google' \cup attempts' \subseteq google \cup attempts
      BY <1>3 DEF DidSignInWithGoogle, Accepted, Refused
    <2>2. flagLeft' \in BOOLEAN
      BY <1>0, <2>1, Zenon
    <2> QED BY <1>0, <2>1, <2>2 DEF AppTypeOK
  <1>9. CASE SignedOutByForce
    BY <1>0, <1>9 DEF SignedOutByForce, CompletionIsPending, AppTypeOK
  <1>4. CASE Completed
    <2>1. UNCHANGED <<google, attempts, gets, signIns, taps, flagLeft>>
      BY <1>4 DEF Completed
    <2>2. \/ status' = TRUE /\ home' = TRUE /\ cover' = FALSE
          \/ status' = status /\ home' = home /\ cover' = cover
      BY <1>4, Zenon DEF Completed, StatusChange
    <2>3. /\ status' \in BOOLEAN /\ home' \in BOOLEAN /\ cover' \in BOOLEAN
          /\ (cover' => ~home')
      <3>1. CASE status' = TRUE /\ home' = TRUE /\ cover' = FALSE
        BY <3>1, Zenon
      <3>2. CASE status' = status /\ home' = home /\ cover' = cover
        BY <1>0, <3>2, Zenon
      <3> QED BY <2>2, <3>1, <3>2
    <2> QED BY <1>0, <2>1, <2>3 DEF AppTypeOK
  <1>5. CASE Logout
    BY <1>0, <1>5 DEF Logout, StatusChange, CompletionIsPending, AppTypeOK
  <1>6. CASE Relaunch \/ KilledInLogout
    <2>1. /\ UNCHANGED <<status, signIns, taps>> /\ gets' = 0
          /\ google' = {} /\ attempts' = {}
      BY <1>6 DEF Relaunch, KilledInLogout
    <2>2. /\ status' = status /\ home' = status /\ cover' = FALSE
          /\ flagLeft' = flagLeft \/ flagLeft' = TRUE
      BY <1>6, Zenon DEF Relaunch, KilledInLogout
    <2>3. /\ status' \in BOOLEAN /\ home' \in BOOLEAN /\ cover' \in BOOLEAN
          /\ flagLeft' \in BOOLEAN /\ (cover' => ~home')
      BY <1>0, <2>2, Zenon
    <2>4. gets' \in 0 .. taps'
      BY <1>0, <2>1
    <2> QED BY <1>0, <2>1, <2>3, <2>4 DEF AppTypeOK
  <1>7. CASE TapCard \/ UpdateBlock
    <2>1. /\ UNCHANGED <<status, home, cover, google, attempts, signIns, flagLeft>>
          /\ \/ taps < MaxTaps /\ taps' = taps + 1 /\ gets' = gets + 1
             \/ gets > 0 /\ gets' = gets - 1 /\ UNCHANGED taps
      BY <1>7 DEF TapCard, UpdateBlock
    <2>2. taps' \in 0 .. MaxTaps /\ gets' \in 0 .. taps'
      BY <1>0, <2>1
    <2> QED BY <1>0, <2>1, <2>2 DEF AppTypeOK
  <1>8. CASE (Client /\ UNCHANGED appVars) \/ ShowHome \/ UNCHANGED vars
    <2>1. UNCHANGED appVars
      BY <1>8 DEF ShowHome, vars
    <2> QED BY <2>1 DEF appVars, AppTypeOK
  <1> QED BY <1>1, <1>2, <1>3, <1>4, <1>5, <1>6, <1>7, <1>8, <1>9 DEF Next

(* The app's steps are steps that CredentialsSpec allows an app. *)
LEMMA AppIsAnApp == AppTypeOK /\ [Next]_vars => [CredentialsNext]_credVars
  <1> SUFFICES ASSUME AppTypeOK, [Next]_vars
               PROVE  CredentialsNext \/ UNCHANGED credVars
    OBVIOUS
  <1>1. CASE Client /\ UNCHANGED appVars
    BY <1>1 DEF Client, CredentialsNext
  <1>2. CASE (\E u \in Users : Login(u) \/ SignUp(u) \/ GoogleButton(u)) \/ OpenSignUp
             \/ DidSignInWithGoogle \/ TapCard
    BY <1>2 DEF Login, SignUp, GoogleButton, OpenSignUp, DidSignInWithGoogle, TapCard,
                Attempt
  <1>3. CASE Accepted
    <2>1. PICK a \in attempts : SignedIn(a.user)
      BY <1>3 DEF Accepted
    <2>2. a.user \in Users
      BY DEF AppTypeOK
    <2> QED BY <2>1, <2>2 DEF CredentialsNext, App
  <1>4. CASE Refused \/ Completed \/ ShowHome \/ UpdateBlock
    BY <1>4 DEF Refused, Completed, ShowHome, UpdateBlock, CredentialsNext, App
  <1>5. CASE Logout
    BY <1>5 DEF Logout, CredentialsNext, App
  <1>6. CASE Relaunch \/ KilledInLogout
    BY <1>6 DEF Relaunch, KilledInLogout, CredentialsNext, App
  <1>7. CASE UNCHANGED vars
    BY <1>7 DEF vars
  <1>8. CASE SignedOutByForce
    BY <1>8 DEF SignedOutByForce, CredentialsNext
  <1> QED BY <1>1, <1>2, <1>3, <1>4, <1>5, <1>6, <1>7, <1>8 DEF Next

(* A completion is pending only if one was, unless a sign-in has just ended. *)
LEMMA PendingStep ==
  ASSUME NEW q \in Seq(Blocks), NEW b \in Blocks, b # Completion(TRUE),
         ~\E i \in DOMAIN q : q[i] = Completion(TRUE)
  PROVE  /\ ~\E i \in DOMAIN Append(q, b) : Append(q, b)[i] = Completion(TRUE)
         /\ ~\E i \in DOMAIN (q \o <<b>> \o <<>>) : (q \o <<b>> \o <<>>)[i] = Completion(TRUE)
         /\ q # <<>> => ~\E i \in DOMAIN Tail(q) : Tail(q)[i] = Completion(TRUE)
  <1> DEFINE c == Completion(TRUE)
  <1> HIDE DEF c
  <1>0. b # c /\ ~\E i \in DOMAIN q : q[i] = c
    BY DEF c
  <1>1. ~\E i \in DOMAIN Append(q, b) : Append(q, b)[i] = c
    BY <1>0
  <1>2. ~\E i \in DOMAIN (q \o <<b>> \o <<>>) : (q \o <<b>> \o <<>>)[i] = c
    BY <1>0
  <1>3. q # <<>> => ~\E i \in DOMAIN Tail(q) : Tail(q)[i] = c
    BY <1>0
  <1> QED BY <1>1, <1>2, <1>3 DEF c

LEMMA AppendedOrOld ==
  ASSUME NEW S, NEW q \in Seq(S), NEW b, NEW i \in DOMAIN Append(q, b)
  PROVE  (i \in DOMAIN q /\ Append(q, b)[i] = q[i]) \/ Append(q, b)[i] = b
  <1>1. q \in Seq(S \cup {b})
    OBVIOUS
  <1> QED BY <1>1

LEMMA HomeStep ==
  ASSUME CredentialsTypeOK, HomeInv, AppTypeOK, [Next]_vars
  PROVE  HomeInv'
  <1>0. /\ mainQ \in Seq(Blocks) /\ user \in Accounts /\ saved \in Accounts
        /\ status = home /\ (loaded => saved = user)
        /\ (~flagLeft /\ (home \/ CompletionIsPending)) => saved # Nobody
    BY PartsOfTypes DEF HomeInv
  <1>a. /\ \A u \in Accounts : Notification(u) \in Blocks /\ Notification(u) # Completion(TRUE)
        /\ Completion(FALSE) \in Blocks /\ Completion(FALSE) # Completion(TRUE)
    <2>1. \A u \in Accounts : Notification(u) # Completion(TRUE)
      BY BlocksOfKind
    <2>2. Completion(FALSE) # Completion(TRUE)
      <3>1. Completion(FALSE).ok = FALSE /\ Completion(TRUE).ok = TRUE
        BY DEF Completion
      <3> QED BY <3>1
    <2> QED BY <2>1, <2>2, BlockTypes
  <1>b. ASSUME UNCHANGED <<user, saved, loaded, status, home, flagLeft>>,
               CompletionIsPending' => CompletionIsPending
        PROVE  HomeInv'
    BY <1>0, <1>b DEF HomeInv
  <1>c. ASSUME NEW r, mainQ' = Append(mainQ, Token(r)), CompletionIsPending'
        PROVE  CompletionIsPending
    <2>1. PICK i \in DOMAIN mainQ' : mainQ'[i] = Completion(TRUE)
      BY <1>c DEF CompletionIsPending
    <2>2. Token(r).kind = "token"
      BY DEF Token
    <2>3. Token(r) # Completion(TRUE)
      BY <2>2, BlocksOfKind
    <2>4. (i \in DOMAIN mainQ /\ mainQ'[i] = mainQ[i]) \/ mainQ'[i] = Token(r)
      BY <1>0, <1>c, AppendedOrOld, Zenon
    <2> QED BY <2>1, <2>3, <2>4, Zenon DEF CompletionIsPending
  <1>d. ASSUME NEW u \in Accounts, NEW r \in requests, r.user # None,
               mainQ' = mainQ \o <<Notification(u)>> \o <<Token(r)>>, CompletionIsPending'
        PROVE  CompletionIsPending
    <2>1. Notification(u) \in Blocks /\ Notification(u) # Completion(TRUE)
      BY <1>a
    <2>2. r \in Answered
      BY <1>d, PartsOfTypes, RequestTypes
    <2>3. Token(r) \in Blocks /\ Token(r).kind = "token"
      BY <2>2, TokenFields
    <2>4. Token(r) # Completion(TRUE)
      BY <2>3, BlocksOfKind
    <2>5. mainQ' = Append(Append(mainQ, Notification(u)), Token(r))
      BY <1>0, <1>d, <2>1, <2>3, AppendedTwice, Zenon
    <2>6. Append(mainQ, Notification(u)) \in Seq(Blocks)
      BY <1>0, <2>1
    <2> DEFINE q == Append(mainQ, Notification(u))
    <2>7. (\E i \in DOMAIN q : q[i] = Completion(TRUE)) => CompletionIsPending
      BY <1>0, <2>1, PendingStep, Zenon DEF CompletionIsPending
    <2>8. \E i \in DOMAIN q : q[i] = Completion(TRUE)
      BY <1>d, <2>3, <2>4, <2>5, <2>6, PendingStep, Zenon DEF CompletionIsPending
    <2> QED BY <2>7, <2>8
  <1>1. CASE (\E u \in Users : Login(u) \/ SignUp(u) \/ GoogleButton(u)) \/ OpenSignUp
             \/ DidSignInWithGoogle \/ TapCard
    <2>1. /\ UNCHANGED <<user, saved, loaded, mainQ, status, home, flagLeft>>
      BY <1>1 DEF Login, SignUp, GoogleButton, OpenSignUp, DidSignInWithGoogle, TapCard,
                  Attempt, credVars, authVars
    <2> QED BY <1>b, <2>1 DEF CompletionIsPending
  <1>2. CASE ShowHome \/ UpdateBlock \/ UNCHANGED vars
    <2>1. /\ UNCHANGED <<user, saved, loaded, mainQ, status, home, flagLeft>>
      BY <1>2 DEF ShowHome, UpdateBlock, CreateClient, CallWrite, authVars, appVars,
                  vars, credVars
    <2> QED BY <1>b, <2>1 DEF CompletionIsPending
  <1>3. CASE Accepted
    <2>1. PICK a \in attempts : SignedIn(a.user)
      BY <1>3 DEF Accepted
    <2>2. /\ a.user \in Users /\ user' = a.user /\ saved' = a.user
          /\ UNCHANGED <<loaded, status, home>>
      BY <1>3, <2>1 DEF Accepted, SignedIn, UpdateCurrentUser, AppTypeOK
    <2>3. saved' # Nobody
      BY <2>2, CredentialsAssumption
    <2> QED BY <1>0, <2>2, <2>3 DEF HomeInv
  <1>4. CASE Refused
    <2>1. /\ UNCHANGED <<user, saved, loaded, status, home, flagLeft>>
          /\ mainQ' = Append(mainQ, Completion(FALSE))
      BY <1>4 DEF Refused, SignInFailed, authVars
    <2>2. CompletionIsPending' => CompletionIsPending
      BY <1>0, <1>a, <2>1, PendingStep, Zenon DEF CompletionIsPending
    <2> QED BY <1>b, <2>1, <2>2
  <1>5. CASE Completed
    <2>1. /\ UNCHANGED <<user, saved, loaded, flagLeft>>
          /\ mainQ # <<>> /\ mainQ' = Tail(mainQ) /\ Head(mainQ).kind = "completion"
      BY <1>5 DEF Completed, RunCompletion, HeadIs, authVars
    <2>2. CompletionIsPending' => CompletionIsPending
      <3>1. ASSUME NEW i \in DOMAIN Tail(mainQ)
            PROVE  i + 1 \in DOMAIN mainQ /\ Tail(mainQ)[i] = mainQ[i + 1]
        BY <1>0, <2>1
      <3> QED BY <2>1, <3>1 DEF CompletionIsPending
    <2>3. CASE Head(mainQ).ok
      <3>1. status' = TRUE /\ home' = TRUE
        BY <1>5, <2>3 DEF Completed, StatusChange
      <3>2. CompletionIsPending
        <4>1. Head(mainQ) = Completion(TRUE)
          BY <1>0, <2>1, <2>3 DEF Blocks, Completion
        <4>2. 1 \in DOMAIN mainQ /\ mainQ[1] = Head(mainQ)
          BY <1>0, <2>1
        <4> QED BY <4>1, <4>2 DEF CompletionIsPending
      <3> QED BY <1>0, <2>1, <3>1, <3>2 DEF HomeInv
    <2>4. CASE ~Head(mainQ).ok
      <3>1. UNCHANGED <<status, home>>
        BY <1>5, <2>4 DEF Completed
      <3> QED BY <1>b, <2>1, <2>2, <3>1
    <2> QED BY <2>3, <2>4
  <1>6. CASE Logout
    <2>1. /\ UNCHANGED <<loaded, told>> /\ loaded
          /\ status' = FALSE /\ home' = FALSE /\ flagLeft' = CompletionIsPending
          /\ \/ user' = user /\ saved' = saved /\ mainQ' = mainQ
             \/ /\ user' = Nobody /\ saved' = Nobody
                /\ mainQ' = mainQ \o <<Notification(Nobody)>> \o <<>>
      BY <1>6 DEF Logout, SignOut, StatusChange, UpdateCurrentUser, authVars
    <2>2. CompletionIsPending' => CompletionIsPending
      <3>1. CASE mainQ' = mainQ
        BY <3>1 DEF CompletionIsPending
      <3>2. CASE mainQ' = mainQ \o <<Notification(Nobody)>> \o <<>>
        <4>1. Nobody \in Accounts
          BY DEF Accounts
        <4> QED BY <1>0, <1>a, <3>2, <4>1, PendingStep, Zenon DEF CompletionIsPending
      <3> QED BY <2>1, <3>1, <3>2
    <2>3. (~flagLeft' /\ (home' \/ CompletionIsPending')) => saved' # Nobody
      BY <2>1, <2>2
    <2>4. loaded' => saved' = user'
      BY <1>0, <2>1
    <2> QED BY <2>1, <2>3, <2>4 DEF HomeInv
  <1>7. CASE Relaunch \/ KilledInLogout
    <2>1. /\ loaded' = FALSE /\ mainQ' = <<>> /\ status' = status /\ home' = status
          /\ (saved' = saved /\ flagLeft' = flagLeft) \/ flagLeft' = TRUE
      BY <1>7 DEF Relaunch, KilledInLogout, Relaunched
    <2>2. ~CompletionIsPending'
      BY <2>1 DEF CompletionIsPending
    <2> QED BY <1>0, <2>1, <2>2 DEF HomeInv
  <1>9. CASE SignedOutByForce
    <2>1. /\ UNCHANGED <<loaded, status, home>> /\ user' = Nobody /\ saved' = Nobody
          /\ flagLeft' = (flagLeft \/ home \/ CompletionIsPending)
      BY <1>9, ForcedParts DEF SignedOutByForce
    <2>2. CompletionIsPending' => CompletionIsPending
      <3>1. Nobody \in Accounts
        BY DEF Accounts
      <3>2. CASE mainQ' = mainQ \o <<Notification(Nobody)>> \o <<>>
        BY <1>0, <1>a, <3>1, <3>2, PendingStep, Zenon DEF CompletionIsPending
      <3>3. ASSUME NEW r \in requests, r.user \in Users,
                   mainQ' = mainQ \o <<Notification(Nobody)>> \o <<Token(r)>>
            PROVE  CompletionIsPending' => CompletionIsPending
        <4>1. r.user # None
          BY <3>3, CredentialsAssumption DEF Accounts
        <4> QED BY <1>d, <3>1, <3>3, <4>1
      <3>4. ForcedSignOut
        BY <1>9 DEF SignedOutByForce
      <3> QED BY <3>2, <3>3, <3>4, ForcedParts, Zenon
    <2>3. flagLeft' \/ ~(home' \/ CompletionIsPending')
      BY <2>1, <2>2
    <2> QED BY <1>0, <2>1, <2>3 DEF HomeInv
  <1>8. CASE Client /\ UNCHANGED appVars
    <2>1. UNCHANGED <<status, home, flagLeft>>
      BY <1>8 DEF appVars
    <2>2. CASE LoadUser
      <3>1. /\ loaded' = TRUE /\ user' = saved /\ saved' = saved
            /\ mainQ' = mainQ \/ mainQ' = Append(mainQ, Notification(saved))
        BY <2>2 DEF LoadUser
      <3>2. CompletionIsPending' => CompletionIsPending
        BY <1>0, <1>a, <3>1, PendingStep DEF CompletionIsPending
      <3> QED BY <1>0, <2>1, <3>1, <3>2 DEF HomeInv
    <2>3. CASE AuthTakesRequest \/ AuthAnswersRequest \/ RefreshToken
      <3>1. UNCHANGED <<user, saved, loaded>>
        BY <2>3 DEF AuthTakesRequest, AuthAnswersRequest, RefreshToken
      <3>2. \/ mainQ' = mainQ
            \/ \E r : mainQ' = Append(mainQ, Token(r))
            \/ mainQ' = Append(mainQ, Notification(user))
            \/ \E r \in requests :
                 r.user # None /\ mainQ' = mainQ \o <<Notification(user)>> \o <<Token(r)>>
        BY <2>3 DEF AuthTakesRequest, AuthAnswersRequest, RefreshToken
      <3>3. CompletionIsPending' => CompletionIsPending
        <4>1. ASSUME NEW r, mainQ' = Append(mainQ, Token(r))
              PROVE  CompletionIsPending' => CompletionIsPending
          BY <1>c, <4>1
        <4>2. CASE mainQ' = Append(mainQ, Notification(user))
          BY <1>0, <1>a, <4>2, PendingStep, Zenon DEF CompletionIsPending
        <4> QED BY <1>0, <1>d, <3>2, <4>1, <4>2, Zenon DEF CompletionIsPending
      <3> QED BY <1>b, <2>1, <3>1, <3>3
    <2>4. CASE Provider
      <3>1. UNCHANGED <<user, saved, loaded>> /\ mainQ # <<>> /\ mainQ' = Tail(mainQ)
        BY <2>4 DEF Provider, AuthStateDidChange, GetTokenCallback, authVars, HeadIs
      <3>2. ASSUME NEW i \in DOMAIN Tail(mainQ)
            PROVE  i + 1 \in DOMAIN mainQ /\ Tail(mainQ)[i] = mainQ[i + 1]
        BY <1>0, <3>1
      <3>3. CompletionIsPending' => CompletionIsPending
        BY <3>1, <3>2 DEF CompletionIsPending
      <3> QED BY <1>b, <2>1, <3>1, <3>3
    <2>5. CASE Worker
      <3>1. UNCHANGED <<user, saved, loaded, mainQ>>
        BY <2>5 DEF Worker, Initialize, HandleCredentialChange, WriteMutations,
                    ResumeStartWithCredentials, OnWriteStreamMutationResult,
                    HandleWriteError, OnStreamFinish, BackoffElapsed,
                    ConnectivityChanged, IdleTimeout, authVars
      <3> QED BY <1>b, <2>1, <3>1 DEF CompletionIsPending
    <2> QED BY <1>8, <2>2, <2>3, <2>4, <2>5 DEF Client, FIRAuth
  <1> QED BY <1>1, <1>2, <1>3, <1>4, <1>5, <1>6, <1>7, <1>8, <1>9 DEF Next

---------------------------------------------------------------------------------
LEMMA InitSession == Init => CredentialsInit /\ AppTypeOK /\ HomeInv
  <1> SUFFICES ASSUME Init PROVE CredentialsInit /\ AppTypeOK /\ HomeInv
    OBVIOUS
  <1>1. AppTypeOK
    <2>1. /\ status \in BOOLEAN /\ home \in BOOLEAN /\ cover \in BOOLEAN
          /\ flagLeft \in BOOLEAN /\ (cover => ~home)
      BY Zenon DEF Init
    <2>2. /\ signIns \in 0 .. MaxSignIns /\ taps \in 0 .. MaxTaps /\ gets \in 0 .. taps
      BY SessionAssumption DEF Init
    <2>3. google = {} /\ attempts = {}
      BY DEF Init
    <2> QED BY <2>1, <2>2, <2>3 DEF AppTypeOK
  <1>2. HomeInv
    <2>1. ~CompletionIsPending
      BY DEF Init, CredentialsInit, CompletionIsPending
    <2>2. status = FALSE /\ home = FALSE /\ loaded = FALSE
      BY Zenon DEF Init, CredentialsInit
    <2> QED BY <2>1, <2>2, Zenon DEF HomeInv
  <1> QED BY <1>1, <1>2 DEF Init

LEMMA AppTypesHold == Spec => []AppTypeOK
  BY InitSession, AppTypeStep, PTL DEF Spec

(* Whatever the app does, it is an app that module Credentials speaks of. *)
THEOREM SessionImplementsCredentials == Spec => CredentialsSpec
  BY InitSession, AppIsAnApp, AppTypesHold, PTL DEF Spec, CredentialsSpec

(* The types hold, of the app and of the user change it drives; and a tap leads
   to at most one write. *)
THEOREM SessionTypeCorrect == Spec => []SessionTypeOK
  <1>1. Spec => []CredentialsTypeOK
    BY SessionImplementsCredentials, CredentialsTypeCorrect, PTL
  <1>2. AppTypeOK /\ CredentialsTypeOK => SessionTypeOK
    BY DEF SessionTypeOK
  <1> QED BY <1>1, <1>2, AppTypesHold, PTL

(* In the app, too, every write is sent with the token of the user it was made
   as: of the one the provider named when the tap's block called the update,
   which need not be the one who tapped. *)
THEOREM TapsAreSentAsAuthor == Spec => SentAsAuthor
  BY SessionImplementsCredentials, WritesAreSentAsAuthor, PTL

(* The home screen is shown only to somebody who is signed in, unless the flag of
   ContentView was left set by a log-out that was cut short or that overtook a
   sign-in's completion, or by a forced sign-out. *)
THEOREM HomeBelongs == Spec => []HomeBelongsToUser
  <1>1. Spec => []CredentialsTypeOK
    BY SessionImplementsCredentials, CredentialsTypeCorrect, PTL
  <1>2. CredentialsTypeOK /\ AppTypeOK /\ HomeInv /\ [Next]_vars => HomeInv'
    BY HomeStep
  <1>3. HomeInv => HomeBelongsToUser
    BY DEF HomeInv, HomeBelongsToUser
  <1> QED BY <1>1, <1>2, <1>3, InitSession, AppTypesHold, PTL DEF Spec
====================================================================
