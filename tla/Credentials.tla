------------------------------ MODULE Credentials ------------------------------
(***************************************************************************)
(* One phone: how a change of Firebase's current user reaches the writes   *)
(* of the Firestore client.  FIRAuth sets its user on its own work queue   *)
(* and posts a notification on the main queue; the credentials provider    *)
(* counts it and passes it to the client's worker queue; the worker swaps  *)
(* the mutation queue and restarts the write stream, which asks FIRAuth    *)
(* for a token again.  A refreshed token is announced like a new user, and *)
(* one that the server holds for invalid signs the user out by force.      *)
(* Documents are left out: a write is the user who the provider said was   *)
(* signed in when it was made.  So is the watch stream, which is restarted *)
(* with the write stream, by the same code.                                *)
(***************************************************************************)
EXTENDS Integers, Sequences

CONSTANTS
  Users,              \* who may sign in on this phone
  Nobody,             \* nil: nobody is signed in; has a mutation queue, too
  None,               \* no user at all: not known yet
  kMaxPendingWrites,  \* size of the write pipeline
  MaxFaults,          \* bound: stream failures and app restarts in a behaviour
  MaxRefreshes        \* bound: tokens refreshed or refused in a behaviour

Accounts == Users \cup {Nobody}

ASSUME CredentialsAssumption ==
  /\ Nobody \notin Users
  /\ None \notin Accounts
  /\ kMaxPendingWrites \in Nat \ {0}
  /\ MaxFaults \in Nat
  /\ MaxRefreshes \in Nat

VARIABLES
  user,      \* FIRAuth._currentUser
  saved,     \* the user in the keychain
  loaded,    \* whether FIRAuth has read the keychain since the launch
  object,    \* which FIRUser object _currentUser is: a number, new at each change
  autoRefresh,  \* FIRAuth._autoRefreshTokens: a timer refreshes the token, too
  refreshes, \* tokens refreshed or refused so far
  mainQ,     \* blocks FIRAuth dispatched to the main queue
  told,      \* current_user and token_counter of the credentials provider
  workQ,     \* tasks on the client's worker queue
  client,    \* SyncEngine::current_user_
  queues,    \* user -> MutationQueue, oldest write first (persisted)
  pipeline,  \* how many of the client's queue are in the write pipeline
  stream,    \* write stream: state, user of its token, close_count_
  requests,  \* getToken calls on their way through FIRAuth
  faults     \* faults so far

authVars   == <<user, saved, loaded, object, autoRefresh, refreshes>>
clientVars == <<client, queues, pipeline, stream>>
credVars   == <<authVars, mainQ, told, workQ, clientVars, requests, faults>>

Notification(u) == [kind |-> "notify", user |-> u]
Completion(ok)  == [kind |-> "completion", ok |-> ok]

(* A getToken call: the counter when it was made, the stream's close count,
   and, once FIRAuth has looked, whose token is being fetched and the FIRUser
   object that fetches it. *)
Request(counter, close) ==
  [counter |-> counter, close |-> close, user |-> None, object |-> 0]

(* The answer in its callback, where the object matters no more. *)
Token(r) == [kind |-> "token", request |-> [r EXCEPT !.object = 0]]

NoStream == [state |-> "Initial", user |-> None, close |-> 0]

CredentialsInit ==
  /\ user     = Nobody
  /\ saved    = Nobody
  /\ loaded   = FALSE
  /\ object   = 0
  /\ autoRefresh = FALSE
  /\ refreshes   = 0
  /\ mainQ    = <<>>
  /\ told     = [user |-> None, counter |-> 0]
  /\ workQ    = <<>>
  /\ client   = None
  /\ queues   = [u \in Accounts |-> <<>>]
  /\ pipeline = 0
  /\ stream   = NoStream
  /\ requests = {}
  /\ faults   = 0

---------------------------------------------------------------------------------
(***************************************************************************)
(* FIRAuth.                                                                *)
(***************************************************************************)

(* updateCurrentUser: the user is saved, set and announced; then come the
   blocks of the caller.  Every sign-in brings a new token, so that every
   change is announced. *)
UpdateCurrentUser(u, blocks) ==
  /\ user'   = u
  /\ saved'  = u
  /\ object' = object + 1
  /\ mainQ'  = mainQ \o <<Notification(u)>> \o blocks
  /\ UNCHANGED <<loaded, autoRefresh>>

(* Mutant of LoadUser: the user found in the keychain is not announced. *)
LoadUserSilently ==
  /\ ~loaded
  /\ loaded' = TRUE
  /\ user'   = saved
  /\ UNCHANGED <<saved, object, autoRefresh, refreshes, mainQ, told, workQ,
                 clientVars, requests, faults>>

(* The first task on FIRAuth's work queue after the launch: nothing else there
   runs before it. *)
LoadUser ==
  /\ ~loaded
  /\ loaded' = TRUE
  /\ user'   = saved
  /\ mainQ'  = IF saved = Nobody THEN mainQ ELSE Append(mainQ, Notification(saved))
  /\ UNCHANGED <<saved, object, autoRefresh, refreshes, told, workQ, clientVars,
                 requests, faults>>

(* The end of a sign-in flow that was started by the app. *)
SignedIn(u) ==
  /\ loaded
  /\ UpdateCurrentUser(u, <<Completion(TRUE)>>)
  /\ UNCHANGED <<refreshes, told, workQ, clientVars, requests, faults>>

SignInFailed ==
  /\ loaded
  /\ mainQ' = Append(mainQ, Completion(FALSE))
  /\ UNCHANGED <<authVars, told, workQ, clientVars, requests, faults>>

(* Called on the main thread; waits for FIRAuth's work queue. *)
SignOut ==
  /\ loaded
  /\ IF user = Nobody THEN UNCHANGED <<authVars, mainQ>>
                      ELSE UpdateCurrentUser(Nobody, <<>>) /\ UNCHANGED refreshes

(* getTokenForcingRefresh looks at the current user, and keeps the tokens fresh
   from then on ... *)
AuthTakesRequest ==
  /\ loaded
  /\ autoRefresh' = TRUE
  /\ \E r \in requests :
       LET taken == [r EXCEPT !.user = user, !.object = object]
       IN /\ r.user = None
          /\ \/ /\ mainQ'    = Append(mainQ, Token(taken))  \* nil, or cached
                /\ requests' = requests \ {r}
             \/ /\ user # Nobody                            \* to be refreshed
                /\ requests' = (requests \ {r}) \cup {taken}
                /\ UNCHANGED mainQ
  /\ UNCHANGED <<user, saved, loaded, object, refreshes, told, workQ, clientVars,
                 faults>>

CountRefresh ==
  /\ refreshes < MaxRefreshes
  /\ refreshes' = refreshes + 1

(* ... and its answer comes later: a new token, which is saved and announced
   before it is handed over if its user is still the current one; or the same
   token as before, one for a user who is no longer current, or an error. *)
AuthAnswersRequest ==
  /\ \E r \in requests :
       /\ r.user # None
       /\ requests' = requests \ {r}
       /\ \/ /\ r.object = object
             /\ CountRefresh
             /\ mainQ' = mainQ \o <<Notification(user)>> \o <<Token(r)>>
          \/ /\ mainQ' = Append(mainQ, Token(r))
             /\ UNCHANGED refreshes
  /\ UNCHANGED <<user, saved, loaded, object, autoRefresh, told, workQ, clientVars,
                 faults>>

(* The timer refreshes the current user's token with no request under way. *)
RefreshToken ==
  /\ autoRefresh
  /\ user # Nobody
  /\ CountRefresh
  /\ mainQ' = Append(mainQ, Notification(user))
  /\ UNCHANGED <<user, saved, loaded, object, autoRefresh, told, workQ, clientVars,
                 requests, faults>>

(* Mutant of ForcedSignOut: nobody is told of it. *)
SignOutInSilence ==
  /\ CountRefresh
  /\ autoRefresh
  /\ user # Nobody
  /\ user'   = Nobody
  /\ saved'  = Nobody
  /\ object' = object + 1
  /\ UNCHANGED <<loaded, autoRefresh, mainQ, told, workQ, clientVars, requests,
                 faults>>

(* The server finds the current user's token invalid, or the user disabled or
   deleted: the answer to a request, or to the timer, signs the user out.  The
   app is not told, but by the notification. *)
ForcedSignOut ==
  /\ CountRefresh
  /\ \/ \E r \in requests :
          /\ r.user \in Users
          /\ r.object = object
          /\ UpdateCurrentUser(Nobody, <<Token(r)>>)
          /\ requests' = requests \ {r}
     \/ /\ autoRefresh
        /\ user # Nobody
        /\ UpdateCurrentUser(Nobody, <<>>)
        /\ UNCHANGED requests
  /\ UNCHANGED <<told, workQ, clientVars, faults>>

---------------------------------------------------------------------------------
(***************************************************************************)
(* The credentials provider, on the main queue.                            *)
(***************************************************************************)

(* Firestore.firestore() of the first view model, and the client it creates. *)
CreateClient ==
  /\ told.user = None
  /\ told'  = [user |-> user, counter |-> 0]
  /\ workQ' = Append(workQ, [kind |-> "initialize", user |-> user])
  /\ UNCHANGED <<authVars, mainQ, clientVars, requests, faults>>

HeadIs(kind) == mainQ # <<>> /\ Head(mainQ).kind = kind

AuthStateDidChange ==
  /\ HeadIs("notify")
  /\ mainQ' = Tail(mainQ)
  /\ LET u == Head(mainQ).user
     IN IF told.user = None
          THEN UNCHANGED <<told, workQ>>
          ELSE /\ told'  = [user |-> u, counter |-> told.counter + 1]
               /\ workQ' = Append(workQ, [kind |-> "credential", user |-> u])
  /\ UNCHANGED <<authVars, clientVars, requests, faults>>

Resume(r) == [kind |-> "resume", user |-> r.user, close |-> r.close]

(* Mutant of GetTokenCallback: any token is passed on. *)
GetAnyTokenCallback ==
  /\ HeadIs("token")
  /\ mainQ' = Tail(mainQ)
  /\ workQ' = Append(workQ, Resume(Head(mainQ).request))
  /\ UNCHANGED <<authVars, told, clientVars, requests, faults>>

(* A token asked for before the user changed is thrown away and asked for
   again. *)
GetTokenCallback ==
  /\ HeadIs("token")
  /\ mainQ' = Tail(mainQ)
  /\ LET r == Head(mainQ).request
     IN IF r.counter # told.counter
          THEN /\ requests' = requests \cup {Request(told.counter, r.close)}
               /\ UNCHANGED workQ
          ELSE /\ workQ' = Append(workQ, Resume(r))
               /\ UNCHANGED requests
  /\ UNCHANGED <<authVars, told, clientVars, faults>>

(* A write called on the main thread: its author is who the provider says. *)
CallWrite ==
  /\ told.user # None
  /\ workQ' = Append(workQ, [kind |-> "write", user |-> told.user])
  /\ UNCHANGED <<authVars, mainQ, told, clientVars, requests, faults>>

---------------------------------------------------------------------------------
(***************************************************************************)
(* The client, on its worker queue.                                        *)
(***************************************************************************)

IsStarted(s) == s.state \in {"Starting", "Open", "Backoff"}

(* Mutant of Close: the close count is not incremented. *)
CloseUncounted(s, state) == [s EXCEPT !.state = state, !.user = None]

Close(s, state) ==
  [state |-> state, user |-> None, close |-> s.close + 1]

(* Stop, and InhibitBackoff on a stream that is not started. *)
Stop(s) == IF IsStarted(s) THEN Close(s, "Initial")
                           ELSE [s EXCEPT !.state = "Initial"]

(* Start, if the pipeline holds writes: at once, or after a back-off. *)
StartIfNeeded(s, pending) ==
  IF pending = 0 \/ IsStarted(s) THEN s
  ELSE [s EXCEPT !.state = IF s.state = "Error" THEN "Backoff" ELSE "Starting"]

Fill(q) == IF Len(q) < kMaxPendingWrites THEN Len(q) ELSE kMaxPendingWrites

(* FillWritePipeline with the queue q, on the stream s. *)
FillWritePipeline(q, s) ==
  LET started == StartIfNeeded(s, Fill(q))
  IN /\ pipeline' = Fill(q)
     /\ stream'   = started
     /\ requests' = IF started.state = "Starting" /\ s.state # "Starting"
                      THEN requests \cup {Request(told.counter, s.close)}
                      ELSE requests

(* Mutant of RestartNetwork: the pipeline is cleared and not filled again. *)
RestartEmpty(q) ==
  /\ pipeline' = 0
  /\ stream'   = Stop(stream)
  /\ UNCHANGED requests

(* Mutant of RestartNetwork: the open stream is kept. *)
KeepStream(q) == FillWritePipeline(q, stream)

(* Mutant of RestartNetwork: the previous user's pipeline is kept. *)
KeepPipeline(q) ==
  /\ stream' = Stop(stream)
  /\ UNCHANGED <<pipeline, requests>>

RestartNetwork(q) == FillWritePipeline(q, Stop(stream))

TaskIs(kind) == workQ # <<>> /\ Head(workQ).kind = kind

Initialize ==
  /\ TaskIs("initialize")
  /\ workQ'  = Tail(workQ)
  /\ client' = Head(workQ).user
  /\ FillWritePipeline(queues[client'], stream)
  /\ UNCHANGED <<authVars, mainQ, told, queues, faults>>

HandleCredentialChange ==
  /\ TaskIs("credential")
  /\ workQ'  = Tail(workQ)
  /\ client' = Head(workQ).user
  /\ RestartNetwork(queues[client'])
  /\ UNCHANGED <<authVars, mainQ, told, queues, faults>>

WriteMutations ==
  /\ TaskIs("write")
  /\ workQ'  = Tail(workQ)
  /\ queues' = [queues EXCEPT ![client] = Append(@, Head(workQ).user)]
  /\ FillWritePipeline(queues'[client], stream)
  /\ UNCHANGED <<authVars, mainQ, told, client, faults>>

(* The stream has failed: it is started again when it is still needed. *)
Fail ==
  /\ faults < MaxFaults
  /\ faults' = faults + 1
  /\ stream' = StartIfNeeded(Close(stream, "Error"), pipeline)

(* A token for a stream that was closed meanwhile is dropped; the token may
   also be an error. *)
ResumeStartWithCredentials ==
  /\ TaskIs("resume")
  /\ workQ' = Tail(workQ)
  /\ LET t == Head(workQ)
     IN \/ /\ t.close # stream.close
           /\ UNCHANGED <<stream, faults>>
        \/ /\ t.close = stream.close
           /\ stream' = [stream EXCEPT !.state = "Open", !.user = t.user]
           /\ UNCHANGED faults
        \/ /\ t.close = stream.close
           /\ Fail
  /\ UNCHANGED <<authVars, mainQ, told, client, queues, pipeline, requests>>

(* Mutant of OnWriteStreamMutationResult: what is queued beyond the pipeline does
   not enter it. *)
AnswerOnly ==
  /\ stream.state = "Open"
  /\ pipeline > 0
  /\ queues'   = [queues EXCEPT ![client] = Tail(@)]
  /\ pipeline' = pipeline - 1
  /\ UNCHANGED <<authVars, mainQ, told, workQ, client, stream, requests, faults>>

(* The server acknowledges the oldest write. *)
OnWriteStreamMutationResult ==
  /\ stream.state = "Open"
  /\ pipeline > 0
  /\ queues' = [queues EXCEPT ![client] = Tail(@)]
  /\ FillWritePipeline(queues'[client], stream)
  /\ UNCHANGED <<authVars, mainQ, told, workQ, client, faults>>

(* The server refuses the oldest write: the stream is closed by the error, and
   started again without back-off. *)
HandleWriteError ==
  /\ stream.state = "Open"
  /\ pipeline > 0
  /\ queues' = [queues EXCEPT ![client] = Tail(@)]
  /\ FillWritePipeline(queues'[client], Close(stream, "Initial"))
  /\ UNCHANGED <<authVars, mainQ, told, workQ, client, faults>>

OnStreamFinish ==
  /\ stream.state = "Open"
  /\ Fail
  /\ UNCHANGED <<authVars, mainQ, told, workQ, client, queues, pipeline, requests>>

BackoffElapsed ==
  /\ stream.state = "Backoff"
  /\ stream'   = [stream EXCEPT !.state = "Starting"]
  /\ requests' = requests \cup {Request(told.counter, stream.close)}
  /\ UNCHANGED <<authVars, mainQ, told, workQ, client, queues, pipeline, faults>>

(* The network has become reachable in another way. *)
ConnectivityChanged ==
  /\ client # None
  /\ faults < MaxFaults
  /\ faults' = faults + 1
  /\ RestartNetwork(queues[client])
  /\ UNCHANGED <<authVars, mainQ, told, workQ, client, queues>>

IdleTimeout ==
  /\ stream.state = "Open"
  /\ pipeline = 0
  /\ stream' = Stop(stream)
  /\ UNCHANGED <<authVars, mainQ, told, workQ, client, queues, pipeline,
                 requests, faults>>

---------------------------------------------------------------------------------
(* The app is killed and launched again: the keychain and LevelDB remain. *)
Relaunched ==
  /\ faults < MaxFaults
  /\ faults' = faults + 1
  /\ user'     = Nobody
  /\ loaded'   = FALSE
  /\ object'   = 0
  /\ autoRefresh' = FALSE
  /\ mainQ'    = <<>>
  /\ told'     = [user |-> None, counter |-> 0]
  /\ workQ'    = <<>>
  /\ client'   = None
  /\ pipeline' = 0
  /\ stream'   = NoStream
  /\ requests' = {}
  /\ UNCHANGED <<queues, refreshes>>

(* The app's part of the main queue. *)
RunCompletion ==
  /\ HeadIs("completion")
  /\ mainQ' = Tail(mainQ)
  /\ UNCHANGED <<authVars, told, workQ, clientVars, requests, faults>>

FIRAuth ==
  \/ LoadUser
  \/ AuthTakesRequest
  \/ AuthAnswersRequest
  \/ RefreshToken

Provider ==
  \/ AuthStateDidChange
  \/ GetTokenCallback

Worker ==
  \/ Initialize
  \/ HandleCredentialChange
  \/ WriteMutations
  \/ ResumeStartWithCredentials
  \/ OnWriteStreamMutationResult
  \/ HandleWriteError
  \/ OnStreamFinish
  \/ BackoffElapsed
  \/ ConnectivityChanged
  \/ IdleTimeout

(* What an app may do. *)
App ==
  \/ \E u \in Users : SignedIn(u)
  \/ SignInFailed
  \/ SignOut /\ UNCHANGED <<told, workQ, clientVars, requests, faults>>
  \/ CreateClient
  \/ CallWrite
  \/ RunCompletion
  \/ Relaunched /\ saved' \in {saved, Nobody}

CredentialsNext == FIRAuth \/ ForcedSignOut \/ Provider \/ Worker \/ App

CredentialsSpec == CredentialsInit /\ [][CredentialsNext]_credVars

---------------------------------------------------------------------------------
(***************************************************************************)
(* Properties.                                                             *)
(***************************************************************************)

Requests ==
  [counter : Nat, close : Nat, user : Accounts \cup {None}, object : Nat]

Answered == [counter : Nat, close : Nat, user : Accounts, object : Nat]

Blocks == [kind : {"notify"}, user : Accounts]
          \cup [kind : {"completion"}, ok : BOOLEAN]
          \cup [kind : {"token"}, request : Answered]

Tasks == [kind : {"initialize", "credential", "write"}, user : Accounts]
         \cup [kind : {"resume"}, user : Accounts, close : Nat]

(* The types; and the pipeline is a beginning of the client's own queue. *)
CredentialsTypeOK ==
  /\ user     \in Accounts
  /\ saved    \in Accounts
  /\ loaded   \in BOOLEAN
  /\ object   \in Nat
  /\ autoRefresh \in BOOLEAN
  /\ refreshes   \in 0 .. MaxRefreshes
  /\ mainQ    \in Seq(Blocks)
  /\ told     \in [user : Accounts \cup {None}, counter : Nat]
  /\ workQ    \in Seq(Tasks)
  /\ client   \in Accounts \cup {None}
  /\ queues   \in [Accounts -> Seq(Accounts)]
  /\ pipeline \in 0 .. kMaxPendingWrites
  /\ pipeline > 0 => client # None /\ pipeline <= Len(queues[client])
  /\ stream   \in [state : {"Initial", "Starting", "Open", "Backoff", "Error"},
                   user : Accounts \cup {None}, close : Nat]
  /\ requests \subseteq Requests
  /\ faults   \in 0 .. MaxFaults

(* A write leaves its queue only over a stream that was opened with the token
   of its author, the user the provider named when the write was made: however
   log-out, the next sign-in, token refreshes, forced sign-outs, stream failures
   and relaunches interleave, no write is sent with another user's token
   (HandleCredentialChange swaps the queue and restarts the streams).  It does
   not say who tapped: a tap whose read crosses a log-out is written, and then
   sent, as the next user's. *)
SentAsAuthor ==
  [][\A u \in Accounts :
       Len(queues'[u]) < Len(queues[u]) =>
         /\ stream.state = "Open"
         /\ stream.user = Head(queues[u])]_credVars

(* ResumeStartWithCredentials asserts that the stream is still waiting for its
   token: a token for an earlier life of the stream never passes for one of
   this life, and none arrives twice (stream.cc, "State should still be
   'Starting'"). *)
ResumeFindsStarting ==
  (TaskIs("resume") /\ Head(workQ).close = stream.close)
    => stream.state = "Starting"

(* "Cancel the request since the user changed while the request was outstanding"
   (firebase_credentials_provider_apple.mm): a token that is passed on belongs
   to the user the provider names with it. *)
TokenIsOfTheUser ==
  [][(/\ Len(workQ') > Len(workQ)
      /\ workQ'[Len(workQ')].kind = "resume")
     => workQ'[Len(workQ')].user = told.user]_credVars
=================================================================================
