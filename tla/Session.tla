-------------------------------- MODULE Session --------------------------------
(***************************************************************************)
(* The app on one phone, as far as it decides who is signed in: the status *)
(* flag in UserDefaults, which ContentView shows the home screen by, the   *)
(* three ways to sign in, log-out and launch, and the taps whose reads are *)
(* still on their way when the user changes.  Alerts, the profile's name   *)
(* and picture and GIDSignIn's own user are left out; log_status is never  *)
(* set, the button of Sign in with Apple being commented out.              *)
(***************************************************************************)
EXTENDS Credentials

CONSTANTS
  MaxSignIns,   \* bound: sign-ins tapped in a behaviour
  MaxTaps       \* bound: taps on cards in a behaviour

ASSUME SessionAssumption == MaxSignIns \in Nat /\ MaxTaps \in Nat

VARIABLES
  status,      \* "status" in UserDefaults (persisted)
  home,        \* ContentView's status: the home screen is shown
  cover,       \* LoginView's show: the sign-up screen covers it
  google,      \* users for whom the Google flow has yet to call the delegate
  attempts,    \* sign-ins at Firebase: [id, user]
  gets,        \* taps whose getDocument has not led to a write yet
  signIns,     \* sign-ins tapped so far; the next one's id
  taps,        \* taps on cards so far
  flagLeft     \* the flag was left set for nobody (for the properties)

appVars == <<status, home, cover, google, attempts, gets, signIns, taps,
             flagLeft>>
vars    == <<credVars, appVars>>

Init ==
  /\ CredentialsInit
  /\ status    = FALSE
  /\ home      = FALSE
  /\ cover     = FALSE
  /\ google    = {}
  /\ attempts  = {}
  /\ gets      = 0
  /\ signIns   = 0
  /\ taps      = 0
  /\ flagLeft = FALSE

(* Mutant of StatusChange: the sign-up screen stays over what is shown. *)
KeepCover(s) ==
  /\ status' = s
  /\ home'   = s
  /\ UNCHANGED cover

(* Post statusChange: ContentView's observer takes the flag over.  The login
   screen that comes back after a log-out is a new one. *)
StatusChange(s) ==
  /\ status' = s
  /\ home'   = s
  /\ cover'  = FALSE

---------------------------------------------------------------------------------
(***************************************************************************)
(* Signing in.                                                             *)
(***************************************************************************)

Attempt(u) ==
  /\ attempts' = attempts \cup {[id |-> signIns, user |-> u]}
  /\ UNCHANGED credVars

CountSignIn ==
  /\ signIns < MaxSignIns
  /\ signIns' = signIns + 1

(* The Login button: nothing keeps it from being tapped again while a sign-in
   is on its way. *)
Login(u) ==
  /\ ~home /\ ~cover
  /\ CountSignIn
  /\ Attempt(u)
  /\ UNCHANGED <<status, home, cover, google, gets, taps, flagLeft>>

OpenSignUp ==
  /\ ~home /\ ~cover
  /\ cover' = TRUE
  /\ UNCHANGED <<credVars, status, home, google, attempts, gets, signIns, taps,
                 flagLeft>>

SignUp(u) ==
  /\ ~home /\ cover
  /\ CountSignIn
  /\ Attempt(u)
  /\ UNCHANGED <<status, home, cover, google, gets, taps, flagLeft>>

GoogleButton(u) ==
  /\ ~home /\ ~cover
  /\ CountSignIn
  /\ google' = google \cup {[id |-> signIns, user |-> u]}
  /\ UNCHANGED <<credVars, status, home, cover, attempts, gets, taps, flagLeft>>

(* The delegate's sign(_:didSignInFor:withError:), whatever is shown by then:
   an error is only printed. *)
DidSignInWithGoogle ==
  /\ \E g \in google :
       /\ google' = google \ {g}
       /\ attempts' \in {attempts, attempts \cup {g}}
  /\ UNCHANGED <<credVars, status, home, cover, gets, signIns, taps, flagLeft>>

(* Firebase's answer: the user is set at once, the app is called back later. *)
Accepted ==
  /\ \E a \in attempts : attempts' = attempts \ {a} /\ SignedIn(a.user)
  /\ flagLeft' = FALSE
  /\ UNCHANGED <<status, home, cover, google, gets, signIns, taps>>

Refused ==
  /\ \E a \in attempts : attempts' = attempts \ {a}
  /\ SignInFailed
  /\ UNCHANGED <<status, home, cover, google, gets, signIns, taps, flagLeft>>

(* Mutant of Completed: the error is not looked at. *)
CompletedAnyhow ==
  /\ RunCompletion
  /\ StatusChange(TRUE)
  /\ UNCHANGED <<google, attempts, gets, signIns, taps, flagLeft>>

(* The completion of all three ways; a failure shows an alert or nothing. *)
Completed ==
  /\ RunCompletion
  /\ IF Head(mainQ).ok THEN StatusChange(TRUE)
                       ELSE UNCHANGED <<status, home, cover>>
  /\ UNCHANGED <<google, attempts, gets, signIns, taps, flagLeft>>

---------------------------------------------------------------------------------
CompletionIsPending == \E i \in DOMAIN mainQ : mainQ[i] = Completion(TRUE)

Logout ==
  /\ home
  /\ SignOut
  /\ StatusChange(FALSE)
  /\ flagLeft' = CompletionIsPending
  /\ UNCHANGED <<told, workQ, clientVars, requests, faults, google, attempts,
                 gets, signIns, taps>>

(* The app hears nothing of a forced sign-out: the home screen stays, and a
   completion on its way still sets the flag. *)
SignedOutByForce ==
  /\ ForcedSignOut
  /\ flagLeft' = (flagLeft \/ home \/ CompletionIsPending)
  /\ UNCHANGED <<status, home, cover, google, attempts, gets, signIns, taps>>

(* The home screen is shown: its view models need Firestore. *)
ShowHome ==
  /\ home
  /\ CreateClient
  /\ UNCHANGED appVars

(* A tap on a card starts a getDocument ... *)
TapCard ==
  /\ home
  /\ told.user # None
  /\ taps < MaxTaps
  /\ taps' = taps + 1
  /\ gets' = gets + 1
  /\ UNCHANGED <<credVars, status, home, cover, google, attempts, signIns,
                 flagLeft>>

(* ... and its block writes, whoever is signed in by then. *)
UpdateBlock ==
  /\ gets > 0
  /\ gets' = gets - 1
  /\ CallWrite
  /\ UNCHANGED <<status, home, cover, google, attempts, signIns, taps, flagLeft>>

(* ContentView starts from the flag on disk. *)
Relaunch ==
  /\ Relaunched
  /\ UNCHANGED <<saved, status, signIns, taps, flagLeft>>
  /\ home'     = status
  /\ cover'    = FALSE
  /\ google'   = {}
  /\ attempts' = {}
  /\ gets'     = 0

(* The app is killed in the middle of Logout's action, between signOut and the
   flag. *)
KilledInLogout ==
  /\ home /\ loaded
  /\ Relaunched
  /\ saved'    = Nobody
  /\ home'     = status
  /\ cover'    = FALSE
  /\ google'   = {}
  /\ attempts' = {}
  /\ gets'     = 0
  /\ flagLeft' = TRUE
  /\ UNCHANGED <<status, signIns, taps>>

---------------------------------------------------------------------------------
Client == FIRAuth \/ Provider \/ Worker

Next ==
  \/ Client /\ UNCHANGED appVars
  \/ \E u \in Users : Login(u) \/ SignUp(u) \/ GoogleButton(u)
  \/ OpenSignUp
  \/ DidSignInWithGoogle
  \/ Accepted
  \/ Refused
  \/ Completed
  \/ Logout
  \/ SignedOutByForce
  \/ ShowHome
  \/ TapCard
  \/ UpdateBlock
  \/ Relaunch
  \/ KilledInLogout

Spec == Init /\ [][Next]_vars

---------------------------------------------------------------------------------
(***************************************************************************)
(* Properties.                                                             *)
(***************************************************************************)

(* The types of the app's own state; the sign-up screen only covers the login
   screen, and a tap leads to at most one write. *)
AppTypeOK ==
  /\ status       \in BOOLEAN
  /\ home         \in BOOLEAN
  /\ cover        \in BOOLEAN
  /\ cover => ~home
  /\ google \cup attempts \subseteq [id : 0 .. MaxSignIns - 1, user : Users]
  /\ signIns      \in 0 .. MaxSignIns
  /\ taps         \in 0 .. MaxTaps
  /\ gets         \in 0 .. taps
  /\ flagLeft \in BOOLEAN

(* The types of the app, and of the user change it drives. *)
SessionTypeOK == AppTypeOK /\ CredentialsTypeOK

(* The home screen is shown only to somebody who is signed in, although the
   flag and Firebase's user are set in different places and survive a kill
   separately.  Three things alone leave the flag set for nobody, until the next
   sign-in succeeds: a log-out between a sign-in and its completion, which sets
   the flag again; a kill between the two halves of a log-out; and a forced
   sign-out, of which the app hears nothing.  In particular no overlapping or
   failing sign-in, late completion, refreshed token or other kill does. *)
HomeBelongsToUser ==
  (home /\ loaded /\ ~flagLeft) => user # Nobody
=================================================================================
