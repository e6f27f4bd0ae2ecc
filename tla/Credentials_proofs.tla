-------------------------- MODULE Credentials_proofs --------------------------
(***************************************************************************)
(* Theorems about module Credentials: no write is sent with the token of   *)
(* another user than its author.  The argument follows a user through      *)
(* three queues: what FIRAuth has announced on the main queue, what the    *)
(* provider was told, and what the worker will have been told at each of   *)
(* its tasks.  A token that FIRAuth refreshed comes behind the notice of   *)
(* it, so that the provider will throw it away.  And a stream that starts  *)
(* waits for one token: what is under way for it is followed through the   *)
(* same queues.                                                            *)
(***************************************************************************)
EXTENDS Credentials, TLAPS

StreamType == [state : {"Initial", "Starting", "Open", "Backoff", "Error"},
               user : Accounts \cup {None}, close : Nat]

(* Before there is a client there is nothing of it. *)
NoClientYet ==
  told.user = None =>
    /\ workQ = <<>>
    /\ client = None
    /\ requests = {}
    /\ stream = NoStream
    /\ pipeline = 0
    /\ \A i \in DOMAIN mainQ : mainQ[i].kind # "token"

SetsUser(t) == t.kind \in {"initialize", "credential"}

(* Every write and every token reaches the worker when its user is the
   client's, and the next one would: each task carries the user of the task
   before it, unless it is one that sets the client's user. *)
WorkerInv ==
  /\ \A i \in DOMAIN workQ :
       ~SetsUser(workQ[i]) =>
         workQ[i].user = IF i = 1 THEN client ELSE workQ[i - 1].user
  /\ told.user # None =>
       told.user = IF workQ = <<>> THEN client ELSE workQ[Len(workQ)].user

IsNotification(b) == b.kind = "notify"

(* The first n blocks of q tell the provider of no user. *)
Quiet(q, n) == \A i \in 1 .. n : ~IsNotification(q[i])

(* FIRAuth's user is the last one it announced. *)
Announced ==
  /\ \A i \in DOMAIN mainQ :
       (/\ IsNotification(mainQ[i])
        /\ \A j \in i + 1 .. Len(mainQ) : ~IsNotification(mainQ[j]))
       => mainQ[i].user = user
  /\ (told.user # None /\ Quiet(mainQ, Len(mainQ))) => told.user = user

CountersInOrder ==
  /\ \A r \in requests : r.counter <= told.counter
  /\ \A i \in DOMAIN mainQ :
       mainQ[i].kind = "token" => mainQ[i].request.counter <= told.counter

(* A token that will pass the test of its counter belongs to the user the
   provider will have been told then. *)
TokensInv ==
  /\ \A r \in requests :
       (r.user # None /\ r.counter = told.counter /\ Quiet(mainQ, Len(mainQ)))
         => r.user = told.user
  /\ \A i \in DOMAIN mainQ :
       (/\ mainQ[i].kind = "token"
        /\ mainQ[i].request.counter = told.counter
        /\ Quiet(mainQ, i - 1))
       => mainQ[i].request.user = told.user

UserIsLoaded == ~loaded => user = Nobody

(* The client is made once. *)
InitializeIsFirst ==
  \A i \in DOMAIN workQ : workQ[i].kind = "initialize" => i = 1 /\ client = None

QueuesInv == \A u \in Accounts : \A i \in DOMAIN queues[u] : queues[u][i] = u

StreamInv == stream.state = "Open" => stream.user = client /\ client # None

CredInv ==
  /\ CredentialsTypeOK
  /\ NoClientYet
  /\ WorkerInv
  /\ Announced
  /\ CountersInOrder
  /\ TokensInv
  /\ UserIsLoaded
  /\ InitializeIsFirst
  /\ QueuesInv
  /\ StreamInv

---------------------------------------------------------------------------------
(***************************************************************************)
(* Types.                                                                  *)
(***************************************************************************)

LEMMA InitCredInv == CredentialsInit => CredInv
  <1> SUFFICES ASSUME CredentialsInit PROVE CredInv
    OBVIOUS
  <1>1. /\ user = Nobody /\ saved = Nobody /\ loaded = FALSE
        /\ object = 0 /\ autoRefresh = FALSE /\ refreshes = 0
        /\ mainQ = <<>> /\ workQ = <<>> /\ client = None
        /\ told = [user |-> None, counter |-> 0]
        /\ queues = [u \in Accounts |-> <<>>]
        /\ pipeline = 0 /\ requests = {} /\ faults = 0
        /\ stream = [state |-> "Initial", user |-> None, close |-> 0]
    BY DEF CredentialsInit, NoStream
  <1>2. CredentialsTypeOK
    <2>1. /\ user \in Accounts /\ saved \in Accounts /\ loaded \in BOOLEAN
          /\ object \in Nat /\ autoRefresh \in BOOLEAN
      BY <1>1 DEF Accounts
    <2>7. refreshes \in 0 .. MaxRefreshes
      BY <1>1, CredentialsAssumption
    <2>2. mainQ \in Seq(Blocks) /\ workQ \in Seq(Tasks)
      BY <1>1
    <2>3. queues \in [Accounts -> Seq(Accounts)]
      BY <1>1
    <2>4. /\ told \in [user : Accounts \cup {None}, counter : Nat]
          /\ stream \in StreamType
          /\ client \in Accounts \cup {None}
      BY <1>1 DEF StreamType
    <2>5. /\ pipeline \in 0 .. kMaxPendingWrites /\ ~(pipeline > 0)
          /\ faults \in 0 .. MaxFaults
      BY <1>1, CredentialsAssumption
    <2>6. requests \subseteq Requests
      BY <1>1
    <2> QED BY <2>1, <2>2, <2>3, <2>4, <2>5, <2>6, <2>7 DEF CredentialsTypeOK, StreamType
  <1>3. NoClientYet /\ WorkerInv /\ StreamInv /\ UserIsLoaded /\ InitializeIsFirst
    BY <1>1 DEF NoClientYet, WorkerInv, StreamInv, NoStream, UserIsLoaded,
                InitializeIsFirst
  <1>4. QueuesInv
    BY <1>1 DEF QueuesInv
  <1>5. Announced /\ CountersInOrder /\ TokensInv
    BY <1>1 DEF Announced, CountersInOrder, TokensInv
  <1> QED BY <1>2, <1>3, <1>4, <1>5 DEF CredInv

(* Every block and every task is of one of the kinds, with that kind's fields. *)
LEMMA BlockKinds ==
  ASSUME NEW b \in Blocks
  PROVE  /\ b.kind = "notify" => b.user \in Accounts
         /\ b.kind = "token" => b.request \in Answered
  BY DEF Blocks

LEMMA TaskKinds ==
  ASSUME NEW t \in Tasks
  PROVE  /\ t.user \in Accounts
         /\ t.kind = "resume" => t.close \in Nat
         /\ t.kind \in {"initialize", "credential", "write", "resume"}
  BY DEF Tasks

LEMMA BlockTypes ==
  /\ \A u \in Accounts : Notification(u) \in Blocks
  /\ Completion(TRUE) \in Blocks /\ Completion(FALSE) \in Blocks
  /\ \A r \in Answered : Token(r) \in Blocks
  BY DEF Notification, Completion, Token, Blocks, Answered

(* The two ways in which FIRAuth adds to the main queue. *)
LEMMA AppendType ==
  ASSUME NEW S, NEW q \in Seq(S), NEW a \in S, NEW b \in S
  PROVE  /\ Append(q, a) \in Seq(S)
         /\ q \o <<a>> \o <<b>> \in Seq(S)
         /\ q \o <<a>> \o <<>> \in Seq(S)
  OBVIOUS

(* The stream, the pipeline and the requests after FillWritePipeline. *)
LEMMA FillType ==
  ASSUME CredentialsTypeOK, NEW q \in Seq(Accounts),
         NEW s \in StreamType,
         FillWritePipeline(q, s)
  PROVE  /\ pipeline' \in 0 .. kMaxPendingWrites /\ pipeline' <= Len(q)
         /\ stream' \in StreamType
         /\ requests' \subseteq Requests
         /\ stream'.state = "Open" => stream' = s
         /\ \A r \in requests' : \/ r \in requests
                                 \/ r.user = None /\ r.counter = told.counter
  <1>1. Fill(q) \in 0 .. kMaxPendingWrites /\ Fill(q) <= Len(q)
    BY CredentialsAssumption DEF Fill
  <1>2. Request(told.counter, s.close) \in Requests
    BY DEF Request, Requests, CredentialsTypeOK, StreamType
  <1>3. stream' = StartIfNeeded(s, Fill(q))
    BY DEF FillWritePipeline
  <1>4. /\ stream' \in StreamType
        /\ stream'.state = "Open" => stream' = s
    BY <1>3 DEF StartIfNeeded, StreamType
  <1>5. requests' \in {requests, requests \cup {Request(told.counter, s.close)}}
    BY DEF FillWritePipeline
  <1> QED BY <1>1, <1>2, <1>4, <1>5 DEF FillWritePipeline, CredentialsTypeOK, Request

LEMMA RequestTypes ==
  ASSUME NEW r \in Requests, NEW u \in Accounts, NEW o \in Nat
  PROVE  /\ [r EXCEPT !.user = u, !.object = o] \in Answered
         /\ [r EXCEPT !.user = u, !.object = o] \in Requests
         /\ [r EXCEPT !.user = u, !.object = o].counter = r.counter
         /\ [r EXCEPT !.user = u, !.object = o].close = r.close
         /\ [r EXCEPT !.user = u, !.object = o].user = u
         /\ r.user # None => r \in Answered
  BY DEF Requests, Answered

(* What the provider reads of an answer is what FIRAuth made of the request. *)
LEMMA TokenFields ==
  ASSUME NEW r \in Answered
  PROVE  /\ Token(r) \in Blocks /\ Token(r).kind = "token"
         /\ Token(r).request \in Answered
         /\ Token(r).request.counter = r.counter
         /\ Token(r).request.close = r.close
         /\ Token(r).request.user = r.user
  BY DEF Token, Blocks, Answered

(* The types by part of the phone, so that a step shows only what it disturbs. *)
ClientTypes ==
  /\ client   \in Accounts \cup {None}
  /\ queues   \in [Accounts -> Seq(Accounts)]
  /\ pipeline \in 0 .. kMaxPendingWrites
  /\ pipeline > 0 => client # None /\ pipeline <= Len(queues[client])
  /\ stream   \in StreamType

LEMMA TypesByPart ==
  ASSUME user' \in Accounts, saved' \in Accounts, loaded' \in BOOLEAN,
         object' \in Nat, autoRefresh' \in BOOLEAN, refreshes' \in 0 .. MaxRefreshes,
         mainQ' \in Seq(Blocks), workQ' \in Seq(Tasks),
         told' \in [user : Accounts \cup {None}, counter : Nat],
         requests' \subseteq Requests, faults' \in 0 .. MaxFaults,
         ClientTypes'
  PROVE  CredentialsTypeOK'
  BY DEF CredentialsTypeOK, ClientTypes, StreamType

LEMMA PartsOfTypes ==
  ASSUME CredentialsTypeOK
  PROVE  /\ user \in Accounts /\ saved \in Accounts /\ loaded \in BOOLEAN
         /\ object \in Nat /\ autoRefresh \in BOOLEAN /\ refreshes \in 0 .. MaxRefreshes
         /\ mainQ \in Seq(Blocks) /\ workQ \in Seq(Tasks)
         /\ told \in [user : Accounts \cup {None}, counter : Nat]
         /\ requests \subseteq Requests /\ faults \in 0 .. MaxFaults
         /\ ClientTypes
  BY DEF CredentialsTypeOK, ClientTypes, StreamType

(* A step that leaves FIRAuth's variables alone keeps their types. *)
LEMMA AuthTypes ==
  ASSUME CredentialsTypeOK, UNCHANGED authVars
  PROVE  /\ user' \in Accounts /\ saved' \in Accounts /\ loaded' \in BOOLEAN
         /\ object' \in Nat /\ autoRefresh' \in BOOLEAN
         /\ refreshes' \in 0 .. MaxRefreshes
  BY PartsOfTypes DEF authVars

(* A step that leaves the client's variables alone keeps their types. *)
LEMMA ClientUnchanged ==
  ASSUME ClientTypes, UNCHANGED clientVars
  PROVE  ClientTypes'
  <1>1. /\ client' = client /\ queues' = queues
        /\ pipeline' = pipeline /\ stream' = stream
    BY DEF clientVars
  <1> QED BY <1>1 DEF ClientTypes

(* A forced sign-out is a change to nobody, and the end of the request that
   brought it, if one did. *)
LEMMA ForcedParts ==
  ASSUME ForcedSignOut
  PROVE  /\ UNCHANGED <<loaded, autoRefresh, told, workQ, faults>>
         /\ UNCHANGED clientVars
         /\ user' = Nobody /\ saved' = Nobody /\ object' = object + 1 /\ CountRefresh
         /\ \/ \E r \in requests :
                 /\ r.user \in Users
                 /\ mainQ' = mainQ \o <<Notification(Nobody)>> \o <<Token(r)>>
                 /\ requests' = requests \ {r}
            \/ /\ mainQ' = mainQ \o <<Notification(Nobody)>> \o <<>>
               /\ requests' = requests
  BY DEF ForcedSignOut, UpdateCurrentUser

LEMMA CountType ==
  ASSUME CredentialsTypeOK, CountRefresh
  PROVE  refreshes' \in 0 .. MaxRefreshes
  BY PartsOfTypes, CredentialsAssumption DEF CountRefresh

LEMMA FIRAuthType ==
  ASSUME CredentialsTypeOK,
         \/ FIRAuth \/ ForcedSignOut
         \/ (\E u \in Users : SignedIn(u)) \/ SignInFailed
  PROVE  CredentialsTypeOK'
  <1> USE PartsOfTypes
  <1>1. CASE LoadUser
    <2>1. /\ UNCHANGED <<saved, object, autoRefresh, refreshes>>
          /\ UNCHANGED <<told, workQ, requests, faults>>
          /\ user' = saved /\ loaded' = TRUE /\ UNCHANGED clientVars
          /\ mainQ' \in {mainQ, Append(mainQ, Notification(saved))}
      BY <1>1 DEF LoadUser
    <2>2. mainQ' \in Seq(Blocks)
      BY <2>1, BlockTypes
    <2> QED BY <2>1, <2>2, ClientUnchanged, TypesByPart
  <1>2. CASE AuthTakesRequest
    <2>1. /\ UNCHANGED <<user, saved, loaded, object, refreshes, told, workQ, faults>>
          /\ autoRefresh' = TRUE /\ UNCHANGED clientVars
      BY <1>2 DEF AuthTakesRequest
    <2>2. PICK r \in requests :
            \/ /\ mainQ' = Append(mainQ, Token([r EXCEPT !.user = user, !.object = object]))
               /\ requests' = requests \ {r}
            \/ /\ requests' = (requests \ {r})
                               \cup {[r EXCEPT !.user = user, !.object = object]}
               /\ mainQ' = mainQ
      BY <1>2 DEF AuthTakesRequest
    <2> DEFINE taken == [r EXCEPT !.user = user, !.object = object]
    <2>3. taken \in Answered /\ taken \in Requests
      BY RequestTypes
    <2>4. Token(taken) \in Blocks
      BY <2>3, BlockTypes
    <2>5. mainQ' \in Seq(Blocks)
      <3>1. Append(mainQ, Token(taken)) \in Seq(Blocks)
        BY <2>4, AppendType
      <3> QED BY <2>2, <3>1, Zenon
    <2>6. requests' \subseteq Requests
      BY <2>2, <2>3
    <2> QED BY <2>1, <2>5, <2>6, ClientUnchanged, TypesByPart
  <1>3. CASE AuthAnswersRequest
    <2>1. /\ UNCHANGED <<user, saved, loaded, object, autoRefresh, told, workQ, faults>>
          /\ UNCHANGED clientVars
      BY <1>3 DEF AuthAnswersRequest
    <2>2. PICK r \in requests :
            /\ r.user # None
            /\ requests' = requests \ {r}
            /\ \/ /\ CountRefresh
                  /\ mainQ' = mainQ \o <<Notification(user)>> \o <<Token(r)>>
               \/ mainQ' = Append(mainQ, Token(r)) /\ refreshes' = refreshes
      BY <1>3 DEF AuthAnswersRequest
    <2>3. r \in Answered
      BY <2>2, RequestTypes
    <2>4. Token(r) \in Blocks /\ Notification(user) \in Blocks
      BY <2>3, BlockTypes
    <2>5. mainQ' \in Seq(Blocks)
      <3>1. /\ Append(mainQ, Token(r)) \in Seq(Blocks)
            /\ mainQ \o <<Notification(user)>> \o <<Token(r)>> \in Seq(Blocks)
        BY <2>4, AppendType
      <3> QED BY <2>2, <3>1, Zenon
    <2>6. requests' \subseteq Requests
      BY <2>2
    <2>7. refreshes' \in 0 .. MaxRefreshes
      BY <2>2, CountType
    <2> QED BY <2>1, <2>5, <2>6, <2>7, ClientUnchanged, TypesByPart
  <1>6. CASE RefreshToken
    <2>1. /\ UNCHANGED <<user, saved, loaded, object, autoRefresh>>
          /\ UNCHANGED <<told, workQ, requests, faults>>
          /\ UNCHANGED clientVars
          /\ CountRefresh /\ mainQ' = Append(mainQ, Notification(user))
      BY <1>6 DEF RefreshToken
    <2>2. mainQ' \in Seq(Blocks)
      BY <2>1, BlockTypes
    <2>3. refreshes' \in 0 .. MaxRefreshes
      BY <2>1, CountType
    <2> QED BY <2>1, <2>2, <2>3, ClientUnchanged, TypesByPart
  <1>7. CASE ForcedSignOut
    <2>1. Nobody \in Accounts /\ Notification(Nobody) \in Blocks
      BY BlockTypes DEF Accounts
    <2>2. mainQ' \in Seq(Blocks) /\ requests' \subseteq Requests
      <3>1. CASE mainQ' = mainQ \o <<Notification(Nobody)>> \o <<>> /\ requests' = requests
        BY <2>1, <3>1, AppendType
      <3>2. ASSUME NEW r \in requests, r.user \in Users,
                   mainQ' = mainQ \o <<Notification(Nobody)>> \o <<Token(r)>>,
                   requests' = requests \ {r}
            PROVE  mainQ' \in Seq(Blocks) /\ requests' \subseteq Requests
        <4>1. r.user # None
          BY <3>2, CredentialsAssumption DEF Accounts
        <4>2. Token(r) \in Blocks
          BY <4>1, RequestTypes, BlockTypes
        <4>3. mainQ \o <<Notification(Nobody)>> \o <<Token(r)>> \in Seq(Blocks)
          BY <2>1, <4>2, AppendType
        <4> QED BY <3>2, <4>3, Zenon
      <3> QED BY <1>7, <3>1, <3>2, ForcedParts, Zenon
    <2>3. /\ UNCHANGED <<loaded, autoRefresh, told, workQ, faults>>
          /\ UNCHANGED clientVars
          /\ user' = Nobody /\ saved' = Nobody /\ object' = object + 1 /\ CountRefresh
      BY <1>7, ForcedParts
    <2>4. refreshes' \in 0 .. MaxRefreshes
      BY <2>3, CountType
    <2>5. object' \in Nat
      BY <2>3
    <2> QED BY <2>1, <2>2, <2>3, <2>4, <2>5, ClientUnchanged, TypesByPart
  <1>4. CASE \E u \in Users : SignedIn(u)
    <2>1. PICK u \in Users : SignedIn(u)
      BY <1>4
    <2>2. /\ user' = u /\ saved' = u /\ object' = object + 1
          /\ UNCHANGED <<loaded, autoRefresh, refreshes>>
          /\ UNCHANGED <<told, workQ, requests, faults>>
          /\ UNCHANGED clientVars
          /\ mainQ' = mainQ \o <<Notification(u)>> \o <<Completion(TRUE)>>
      BY <2>1 DEF SignedIn, UpdateCurrentUser
    <2>3. u \in Accounts
      BY DEF Accounts
    <2>4. mainQ' \in Seq(Blocks)
      BY <2>2, <2>3, BlockTypes, AppendType, Zenon
    <2>5. object' \in Nat
      BY <2>2
    <2> QED BY <2>2, <2>3, <2>4, <2>5, ClientUnchanged, TypesByPart
  <1>5. CASE SignInFailed
    <2>1. /\ UNCHANGED <<user, saved, loaded, object, autoRefresh, refreshes>>
          /\ UNCHANGED <<told, workQ, requests, faults>>
          /\ UNCHANGED clientVars
          /\ mainQ' = Append(mainQ, Completion(FALSE))
      BY <1>5 DEF SignInFailed, authVars
    <2>2. mainQ' \in Seq(Blocks)
      BY <2>1, BlockTypes, AppendType, Zenon
    <2> QED BY <2>1, <2>2, ClientUnchanged, TypesByPart
  <1> QED BY <1>1, <1>2, <1>3, <1>4, <1>5, <1>6, <1>7 DEF FIRAuth

LEMMA AppType ==
  ASSUME CredentialsTypeOK,
         \/ SignOut /\ UNCHANGED <<told, workQ, clientVars, requests, faults>>
         \/ CreateClient \/ CallWrite \/ RunCompletion
         \/ Relaunched /\ saved' \in {saved, Nobody}
  PROVE  CredentialsTypeOK'
  <1> USE PartsOfTypes
  <1>0. Nobody \in Accounts
    BY DEF Accounts
  <1>1. CASE SignOut /\ UNCHANGED <<told, workQ, clientVars, requests, faults>>
    <2>1. /\ UNCHANGED <<loaded, autoRefresh, refreshes>>
          /\ UNCHANGED <<told, workQ, requests, faults>>
          /\ UNCHANGED clientVars
          /\ object' \in {object, object + 1}
          /\ \/ user' = user /\ saved' = saved /\ mainQ' = mainQ
             \/ /\ user' = Nobody /\ saved' = Nobody
                /\ mainQ' = mainQ \o <<Notification(Nobody)>> \o <<>>
      BY <1>1 DEF SignOut, UpdateCurrentUser, authVars
    <2>2. mainQ' \in Seq(Blocks)
      <3>1. Notification(Nobody) \in Blocks /\ mainQ \in Seq(Blocks)
        BY <1>0, BlockTypes
      <3>2. mainQ \o <<Notification(Nobody)>> \o <<>> \in Seq(Blocks)
        BY <3>1, AppendType
      <3> QED BY <2>1, <3>1, <3>2, Zenon
    <2>3. object' \in Nat
      BY <2>1
    <2> QED BY <1>0, <2>1, <2>2, <2>3, ClientUnchanged, TypesByPart
  <1>2. CASE CreateClient
    <2>1. /\ UNCHANGED <<user, saved, loaded, object, autoRefresh, refreshes>>
          /\ UNCHANGED <<mainQ, requests, faults>>
          /\ UNCHANGED clientVars
          /\ told' = [user |-> user, counter |-> 0]
          /\ workQ' = Append(workQ, [kind |-> "initialize", user |-> user])
      BY <1>2 DEF CreateClient, authVars
    <2>2. [kind |-> "initialize", user |-> user] \in Tasks
      BY DEF Tasks
    <2> QED BY <2>1, <2>2, ClientUnchanged, TypesByPart
  <1>3. CASE CallWrite
    <2>1. /\ UNCHANGED <<user, saved, loaded, object, autoRefresh, refreshes>>
          /\ UNCHANGED <<mainQ, told, requests, faults>>
          /\ UNCHANGED clientVars
          /\ told.user # None
          /\ workQ' = Append(workQ, [kind |-> "write", user |-> told.user])
      BY <1>3 DEF CallWrite, authVars
    <2>2. [kind |-> "write", user |-> told.user] \in Tasks
      BY <2>1 DEF Tasks
    <2> QED BY <2>1, <2>2, ClientUnchanged, TypesByPart
  <1>4. CASE RunCompletion
    <2>1. /\ UNCHANGED <<user, saved, loaded, object, autoRefresh, refreshes>>
          /\ UNCHANGED <<told, workQ, requests, faults>>
          /\ UNCHANGED clientVars
          /\ mainQ # <<>> /\ mainQ' = Tail(mainQ)
      BY <1>4 DEF RunCompletion, authVars, HeadIs
    <2> QED BY <2>1, ClientUnchanged, TypesByPart
  <1>5. CASE Relaunched /\ saved' \in {saved, Nobody}
    <2>1. /\ user' = Nobody /\ saved' \in {saved, Nobody} /\ loaded' = FALSE
          /\ object' = 0 /\ autoRefresh' = FALSE /\ refreshes' = refreshes
          /\ mainQ' = <<>> /\ workQ' = <<>> /\ requests' = {}
          /\ told' = [user |-> None, counter |-> 0]
          /\ faults < MaxFaults /\ faults' = faults + 1
          /\ client' = None /\ pipeline' = 0 /\ UNCHANGED queues
          /\ stream' = [state |-> "Initial", user |-> None, close |-> 0]
      BY <1>5 DEF Relaunched, NoStream
    <2>2. ClientTypes'
      BY <2>1, CredentialsAssumption DEF ClientTypes, StreamType
    <2>3. /\ faults' \in 0 .. MaxFaults
          /\ saved' \in Accounts
          /\ told' \in [user : Accounts \cup {None}, counter : Nat]
      BY <1>0, <2>1, CredentialsAssumption
    <2>4. mainQ' \in Seq(Blocks) /\ workQ' \in Seq(Tasks)
      BY <2>1
    <2> QED BY <1>0, <2>1, <2>2, <2>3, <2>4, TypesByPart
  <1> QED BY <1>1, <1>2, <1>3, <1>4, <1>5

LEMMA ProviderType ==
  ASSUME CredentialsTypeOK, Provider
  PROVE  CredentialsTypeOK'
  <1> USE PartsOfTypes
  <1>1. CASE AuthStateDidChange
    <2>1. /\ UNCHANGED <<user, saved, loaded, object, autoRefresh, refreshes>>
          /\ UNCHANGED <<requests, faults>> /\ UNCHANGED clientVars
          /\ mainQ # <<>> /\ mainQ' = Tail(mainQ)
          /\ Head(mainQ).kind = "notify"
      BY <1>1 DEF AuthStateDidChange, authVars, HeadIs
    <2>2. Head(mainQ).user \in Accounts
      BY <2>1, BlockKinds
    <2>3. \/ told' = told /\ workQ' = workQ
          \/ /\ told' = [user |-> Head(mainQ).user, counter |-> told.counter + 1]
             /\ workQ' = Append(workQ, [kind |-> "credential",
                                        user |-> Head(mainQ).user])
      BY <1>1 DEF AuthStateDidChange
    <2>4. [kind |-> "credential", user |-> Head(mainQ).user] \in Tasks
      BY <2>2 DEF Tasks
    <2>5. told' \in [user : Accounts \cup {None}, counter : Nat]
      BY <2>2, <2>3
    <2>6. workQ' \in Seq(Tasks)
      <3>1. Append(workQ, [kind |-> "credential", user |-> Head(mainQ).user])
              \in Seq(Tasks)
        BY <2>4, AppendType
      <3> QED BY <2>3, <3>1, Zenon
    <2> QED BY <2>1, <2>5, <2>6, ClientUnchanged, TypesByPart
  <1>2. CASE GetTokenCallback
    <2> DEFINE r == Head(mainQ).request
    <2>1. /\ UNCHANGED <<user, saved, loaded, object, autoRefresh, refreshes>>
          /\ UNCHANGED <<told, faults>> /\ UNCHANGED clientVars
          /\ mainQ # <<>> /\ mainQ' = Tail(mainQ)
          /\ Head(mainQ).kind = "token"
      BY <1>2 DEF GetTokenCallback, authVars, HeadIs
    <2>2. r \in Answered
      BY <2>1, BlockKinds
    <2>3. \/ /\ requests' = requests \cup {Request(told.counter, r.close)}
             /\ UNCHANGED workQ
          \/ /\ workQ' = Append(workQ, Resume(r))
             /\ UNCHANGED requests
      BY <1>2 DEF GetTokenCallback
    <2> HIDE DEF r
    <2>4. Request(told.counter, r.close) \in Requests /\ Resume(r) \in Tasks
      BY <2>2 DEF Request, Requests, Resume, Tasks, Answered
    <2>5. workQ' \in Seq(Tasks)
      BY <2>3, <2>4
    <2>6. requests' \subseteq Requests
      BY <2>3, <2>4
    <2> QED BY <2>1, <2>5, <2>6, ClientUnchanged, TypesByPart
  <1> QED BY <1>1, <1>2 DEF Provider

LEMMA StreamTypes ==
  ASSUME NEW s \in StreamType, NEW n \in Nat
  PROVE  /\ Stop(s) \in StreamType /\ Stop(s).state # "Open"
         /\ Close(s, "Initial") \in StreamType
         /\ Close(s, "Initial").state # "Open"
         /\ StartIfNeeded(Close(s, "Error"), n) \in StreamType
         /\ StartIfNeeded(Close(s, "Error"), n).state # "Open"
  BY DEF Stop, Close, StartIfNeeded, IsStarted, StreamType

(* The worker comes to a write or a token when its user is the client's. *)
LEMMA HeadRuns ==
  ASSUME CredentialsTypeOK, WorkerInv, workQ # <<>>, ~SetsUser(Head(workQ))
  PROVE  client \in Accounts /\ Head(workQ).user = client
  <1>1. 1 \in DOMAIN workQ /\ workQ[1] = Head(workQ) /\ Head(workQ) \in Tasks
    BY PartsOfTypes
  <1> QED BY <1>1, TaskKinds DEF WorkerInv

LEMMA WorkerType ==
  ASSUME CredentialsTypeOK, NoClientYet, WorkerInv, StreamInv, Worker
  PROVE  CredentialsTypeOK'
  <1> USE PartsOfTypes
  <1>1. /\ client \in Accounts \cup {None} /\ queues \in [Accounts -> Seq(Accounts)]
        /\ pipeline \in 0 .. kMaxPendingWrites /\ stream \in StreamType
        /\ pipeline > 0 => client # None /\ pipeline <= Len(queues[client])
    BY DEF ClientTypes
  <1>2. \A q \in Seq(Accounts), s \in StreamType :
          FillWritePipeline(q, s) =>
            /\ pipeline' \in 0 .. kMaxPendingWrites /\ pipeline' <= Len(q)
            /\ stream' \in StreamType /\ requests' \subseteq Requests
    BY FillType
  <1>3. /\ Stop(stream) \in StreamType
        /\ Close(stream, "Initial") \in StreamType
    BY <1>1, StreamTypes
  <1>4. CASE Initialize \/ HandleCredentialChange
    <2>1. /\ UNCHANGED authVars /\ UNCHANGED <<mainQ, told, queues, faults>>
          /\ workQ # <<>> /\ workQ' = Tail(workQ) /\ client' = Head(workQ).user
          /\ \/ FillWritePipeline(queues[client'], stream)
             \/ FillWritePipeline(queues[client'], Stop(stream))
      BY <1>4 DEF Initialize, HandleCredentialChange, RestartNetwork, TaskIs
    <2>2. client' \in Accounts
      BY <2>1, TaskKinds
    <2>3. queues[client'] \in Seq(Accounts)
      BY <1>1, <2>2
    <2>4. /\ pipeline' \in 0 .. kMaxPendingWrites
          /\ pipeline' <= Len(queues[client'])
          /\ stream' \in StreamType /\ requests' \subseteq Requests
      BY <1>1, <1>2, <1>3, <2>1, <2>3
    <2>5. client' # None
      BY <2>2, CredentialsAssumption
    <2>6. ClientTypes'
      BY <1>1, <2>1, <2>2, <2>4, <2>5 DEF ClientTypes
    <2> QED BY <2>1, <2>4, <2>6, AuthTypes, TypesByPart
  <1>5. CASE ConnectivityChanged
    <2>1. /\ UNCHANGED authVars /\ UNCHANGED <<mainQ, told, workQ, client, queues>>
          /\ client # None /\ faults < MaxFaults /\ faults' = faults + 1
          /\ FillWritePipeline(queues[client], Stop(stream))
      BY <1>5 DEF ConnectivityChanged, RestartNetwork
    <2>2. queues[client] \in Seq(Accounts)
      BY <1>1, <2>1
    <2>3. /\ pipeline' \in 0 .. kMaxPendingWrites
          /\ pipeline' <= Len(queues[client])
          /\ stream' \in StreamType /\ requests' \subseteq Requests
      BY <1>2, <1>3, <2>1, <2>2
    <2>4. ClientTypes'
      BY <1>1, <2>1, <2>3 DEF ClientTypes
    <2>5. faults' \in 0 .. MaxFaults
      BY <2>1, CredentialsAssumption
    <2> QED BY <2>1, <2>3, <2>4, <2>5, AuthTypes, TypesByPart
  <1>6. CASE WriteMutations
    <2>1. /\ UNCHANGED authVars /\ UNCHANGED <<mainQ, told, client, faults>>
          /\ workQ # <<>> /\ workQ' = Tail(workQ)
          /\ Head(workQ).user \in Accounts
          /\ queues' = [queues EXCEPT ![client] = Append(@, Head(workQ).user)]
          /\ FillWritePipeline(queues'[client], stream)
      BY <1>6, TaskKinds DEF WriteMutations, TaskIs
    <2>2. client \in Accounts
      BY <1>6, <2>1, HeadRuns DEF WriteMutations, TaskIs, SetsUser
    <2>3. queues' \in [Accounts -> Seq(Accounts)]
      BY <1>1, <2>1, <2>2
    <2>4. queues'[client] \in Seq(Accounts)
      BY <2>2, <2>3
    <2>5. /\ pipeline' \in 0 .. kMaxPendingWrites
          /\ pipeline' <= Len(queues'[client])
          /\ stream' \in StreamType /\ requests' \subseteq Requests
      BY <1>1, <1>2, <2>1, <2>4
    <2>6. client # None
      BY <2>2, CredentialsAssumption
    <2>7. ClientTypes'
      BY <2>1, <2>2, <2>3, <2>5, <2>6 DEF ClientTypes
    <2> QED BY <2>1, <2>5, <2>7, AuthTypes, TypesByPart
  <1>7. CASE OnWriteStreamMutationResult \/ HandleWriteError
    <2>1. /\ UNCHANGED authVars /\ UNCHANGED <<mainQ, told, workQ, client, faults>>
          /\ stream.state = "Open" /\ pipeline > 0
          /\ queues' = [queues EXCEPT ![client] = Tail(@)]
          /\ \/ FillWritePipeline(queues'[client], stream)
             \/ FillWritePipeline(queues'[client], Close(stream, "Initial"))
      BY <1>7 DEF OnWriteStreamMutationResult, HandleWriteError
    <2>2. client \in Accounts /\ client # None /\ queues[client] # <<>>
      BY <1>1, <2>1
    <2>3. queues' \in [Accounts -> Seq(Accounts)]
      BY <1>1, <2>1, <2>2
    <2>4. queues'[client] \in Seq(Accounts)
      BY <2>2, <2>3
    <2>5. /\ pipeline' \in 0 .. kMaxPendingWrites
          /\ pipeline' <= Len(queues'[client])
          /\ stream' \in StreamType /\ requests' \subseteq Requests
      BY <1>1, <1>2, <1>3, <2>1, <2>4
    <2>6. ClientTypes'
      BY <2>1, <2>2, <2>3, <2>5 DEF ClientTypes
    <2> QED BY <2>1, <2>5, <2>6, AuthTypes, TypesByPart
  <1>8. CASE ResumeStartWithCredentials \/ OnStreamFinish \/ BackoffElapsed \/ IdleTimeout
    <2>1. UNCHANGED authVars /\ UNCHANGED <<mainQ, told, client, queues, pipeline>>
      BY <1>8 DEF ResumeStartWithCredentials, OnStreamFinish, BackoffElapsed,
                  IdleTimeout
    <2>2. workQ' \in Seq(Tasks)
      <3>1. workQ' = workQ \/ (workQ # <<>> /\ workQ' = Tail(workQ))
        BY <1>8 DEF ResumeStartWithCredentials, OnStreamFinish, BackoffElapsed,
                    IdleTimeout, TaskIs
      <3>2. workQ \in Seq(Tasks)
        OBVIOUS
      <3>3. workQ # <<>> => Tail(workQ) \in Seq(Tasks)
        BY <3>2
      <3> QED BY <3>1, <3>2, <3>3, Zenon
    <2>3. stream' \in StreamType
      <3>1. CASE ResumeStartWithCredentials
        <4>1. Head(workQ).user \in Accounts
          BY <3>1, TaskKinds DEF ResumeStartWithCredentials, TaskIs
        <4>2. stream' \in {stream, StartIfNeeded(Close(stream, "Error"), pipeline),
                            [stream EXCEPT !.state = "Open", !.user = Head(workQ).user]}
          BY <3>1 DEF ResumeStartWithCredentials, Fail
        <4>3. [stream EXCEPT !.state = "Open", !.user = Head(workQ).user] \in StreamType
          BY <1>1, <4>1 DEF StreamType
        <4>4. StartIfNeeded(Close(stream, "Error"), pipeline) \in StreamType
          BY <1>1, StreamTypes
        <4> QED BY <1>1, <4>2, <4>3, <4>4
      <3>2. CASE OnStreamFinish
        <4>1. StartIfNeeded(Close(stream, "Error"), pipeline) \in StreamType
          BY <1>1, StreamTypes
        <4> QED BY <3>2, <4>1 DEF OnStreamFinish, Fail
      <3>3. CASE BackoffElapsed
        BY <1>1, <3>3 DEF BackoffElapsed, StreamType
      <3>4. CASE IdleTimeout
        BY <1>3, <3>4 DEF IdleTimeout
      <3> QED BY <1>8, <3>1, <3>2, <3>3, <3>4
    <2>4. requests' \subseteq Requests
      <3>1. Request(told.counter, stream.close) \in Requests
        BY <1>1 DEF Request, Requests, StreamType
      <3> QED BY <1>8, <3>1 DEF ResumeStartWithCredentials, OnStreamFinish,
                                BackoffElapsed, IdleTimeout
    <2>5. faults' \in 0 .. MaxFaults
      BY <1>8, CredentialsAssumption DEF ResumeStartWithCredentials, OnStreamFinish,
                                         BackoffElapsed, IdleTimeout, Fail
    <2>6. ClientTypes'
      BY <1>1, <2>1, <2>3 DEF ClientTypes
    <2> QED BY <2>1, <2>2, <2>3, <2>4, <2>5, <2>6, AuthTypes, TypesByPart
  <1> QED BY <1>4, <1>5, <1>6, <1>7, <1>8 DEF Worker

---------------------------------------------------------------------------------
(***************************************************************************)
(* The worker queue.                                                       *)
(***************************************************************************)

(* The worker takes a task: the client's user is now the task's. *)
LEMMA WorkerTakes ==
  ASSUME CredentialsTypeOK, WorkerInv, InitializeIsFirst, workQ # <<>>,
         workQ' = Tail(workQ), client' = Head(workQ).user, UNCHANGED told
  PROVE  WorkerInv' /\ InitializeIsFirst'
  <1>1. workQ \in Seq(Tasks)
    BY PartsOfTypes
  <1>2. /\ Len(workQ') = Len(workQ) - 1
        /\ \A i \in 1 .. Len(workQ') : workQ'[i] = workQ[i + 1]
        /\ workQ[1] = Head(workQ)
    BY <1>1
  <1>3. \A i \in DOMAIN workQ' : ~SetsUser(workQ'[i]) =>
          workQ'[i].user = IF i = 1 THEN client' ELSE workQ'[i - 1].user
    <2> SUFFICES ASSUME NEW i \in 1 .. Len(workQ'), ~SetsUser(workQ'[i])
                 PROVE  workQ'[i].user = IF i = 1 THEN client' ELSE workQ'[i - 1].user
      BY <1>1
    <2>1. workQ'[i] = workQ[i + 1] /\ i + 1 \in 1 .. Len(workQ)
      BY <1>1, <1>2
    <2>2. workQ[i + 1].user = workQ[i].user
      BY <1>1, <2>1 DEF WorkerInv
    <2>3. i # 1 => workQ'[i - 1] = workQ[i]
      BY <1>1, <1>2
    <2> QED BY <1>2, <2>1, <2>2, <2>3
  <1>4. told'.user # None =>
          told'.user = IF workQ' = <<>> THEN client' ELSE workQ'[Len(workQ')].user
    BY <1>1, <1>2 DEF WorkerInv
  <1>5. InitializeIsFirst'
    BY <1>1, <1>2 DEF InitializeIsFirst
  <1> QED BY <1>3, <1>4, <1>5 DEF WorkerInv

(* A task is added: one that sets the user, or one for the user in force. *)
LEMMA WorkerIsAsked ==
  ASSUME CredentialsTypeOK, WorkerInv, InitializeIsFirst, UNCHANGED client,
         NEW t \in Tasks, workQ' = Append(workQ, t), told'.user = t.user,
         SetsUser(t) \/ t.user = told.user,
         t.kind = "initialize" => workQ = <<>> /\ client = None
  PROVE  WorkerInv' /\ InitializeIsFirst'
  <1>1. workQ \in Seq(Tasks)
    BY PartsOfTypes
  <1>2. /\ Len(workQ') = Len(workQ) + 1
        /\ \A i \in 1 .. Len(workQ) : workQ'[i] = workQ[i]
        /\ workQ'[Len(workQ')] = t
    BY <1>1
  <1>3. t.user # None
    BY TaskKinds, CredentialsAssumption
  <1>4. \A i \in DOMAIN workQ' : ~SetsUser(workQ'[i]) =>
          workQ'[i].user = IF i = 1 THEN client' ELSE workQ'[i - 1].user
    <2> SUFFICES ASSUME NEW i \in 1 .. Len(workQ'), ~SetsUser(workQ'[i])
                 PROVE  workQ'[i].user = IF i = 1 THEN client' ELSE workQ'[i - 1].user
      BY <1>1
    <2>1. CASE i = Len(workQ')
      <3>1. t.user = IF workQ = <<>> THEN client ELSE workQ[Len(workQ)].user
        BY <1>2, <1>3, <2>1 DEF WorkerInv
      <3> QED BY <1>1, <1>2, <2>1, <3>1
    <2>2. CASE i # Len(workQ')
      <3>1. i \in 1 .. Len(workQ) /\ workQ'[i] = workQ[i]
        BY <1>1, <1>2, <2>2
      <3>2. i # 1 => workQ'[i - 1] = workQ[i - 1]
        BY <1>1, <1>2, <3>1
      <3> QED BY <1>1, <3>1, <3>2 DEF WorkerInv
    <2> QED BY <2>1, <2>2
  <1>5. told'.user = workQ'[Len(workQ')].user /\ workQ' # <<>>
    BY <1>1, <1>2
  <1>6. InitializeIsFirst'
    BY <1>1, <1>2 DEF InitializeIsFirst
  <1> QED BY <1>4, <1>5, <1>6 DEF WorkerInv

LEMMA WorkerUnchanged ==
  ASSUME WorkerInv, InitializeIsFirst, UNCHANGED <<workQ, client, told>>
  PROVE  WorkerInv' /\ InitializeIsFirst'
  BY DEF WorkerInv, InitializeIsFirst

---------------------------------------------------------------------------------
(***************************************************************************)
(* The main queue.                                                         *)
(***************************************************************************)

(* A request the main queue's invariants hold of. *)
InOrder(r) ==
  /\ r.counter <= told.counter
  /\ (r.user # None /\ r.counter = told.counter /\ Quiet(mainQ, Len(mainQ)))
       => r.user = told.user

MainInv == Announced /\ CountersInOrder /\ TokensInv

LEMMA RequestsInOrder ==
  ASSUME CredentialsTypeOK, MainInv
  PROVE  /\ \A r \in requests : InOrder(r)
         /\ \A r : (r.user = None /\ r.counter = told.counter) => InOrder(r)
  <1>1. told.counter \in Nat
    BY PartsOfTypes
  <1> QED BY <1>1 DEF MainInv, CountersInOrder, TokensInv, InOrder

(* Only the requests change. *)
LEMMA MainRequests ==
  ASSUME MainInv, UNCHANGED <<user, mainQ, told>>, \A r \in requests' : InOrder(r)
  PROVE  MainInv'
  <1>1. Announced'
    BY DEF MainInv, Announced, Quiet
  <1>2. CountersInOrder'
    BY DEF MainInv, CountersInOrder, InOrder
  <1>3. TokensInv'
    BY DEF MainInv, TokensInv, InOrder, Quiet
  <1> QED BY <1>1, <1>2, <1>3 DEF MainInv

(* FIRAuth announces its user, and a block comes after. *)
LEMMA MainAnnounces ==
  ASSUME CredentialsTypeOK, MainInv, UNCHANGED told, requests' \subseteq requests,
         user' \in Accounts,
         NEW q \in Seq(Blocks), q = Append(mainQ, Notification(user')),
         NEW b \in Blocks, b.kind # "notify",
         b.kind = "token" => b.request.counter <= told.counter,
         mainQ' = q \/ mainQ' = Append(q, b)
  PROVE  MainInv'
  <1>1. mainQ \in Seq(Blocks)
    BY PartsOfTypes
  <1>0. PICK n \in Nat : n = Len(mainQ)
    BY PartsOfTypes
  <1>2. /\ Len(q) = n + 1 /\ q[n + 1] = Notification(user')
        /\ \A i \in 1 .. n : q[i] = mainQ[i]
    BY <1>0, <1>1
  <1>3. PICK m \in Nat :
          /\ m = Len(mainQ') /\ m >= n + 1 /\ m <= n + 2
          /\ DOMAIN mainQ' = 1 .. m /\ DOMAIN mainQ = 1 .. n
          /\ \A i \in 1 .. n + 1 : mainQ'[i] = q[i]
          /\ m = n + 2 => mainQ'[n + 2] = b
    <2>1. CASE mainQ' = q
      BY <1>0, <1>1, <1>2, <2>1
    <2>2. CASE mainQ' = Append(q, b)
      BY <1>0, <1>1, <1>2, <2>2
    <2> QED BY <2>1, <2>2
  <1>4. /\ \A i \in 1 .. n : mainQ'[i] = mainQ[i]
        /\ IsNotification(mainQ'[n + 1]) /\ mainQ'[n + 1].user = user'
        /\ m = n + 2 => mainQ'[n + 2] = b
    <2>1. \A i \in 1 .. n : mainQ'[i] = mainQ[i]
      BY <1>1, <1>2, <1>3
    <2>2. IsNotification(mainQ'[n + 1]) /\ mainQ'[n + 1].user = user'
      BY <1>1, <1>2, <1>3 DEF IsNotification, Notification
    <2>3. m = n + 2 => mainQ'[n + 2] = b
      BY <1>3
    <2> QED BY <2>1, <2>2, <2>3
  <1>5. ~Quiet(mainQ', Len(mainQ'))
    BY <1>3, <1>4 DEF Quiet
  <1>6. Announced'
    <2>1. ASSUME NEW i \in DOMAIN mainQ', IsNotification(mainQ'[i]),
                 \A j \in i + 1 .. Len(mainQ') : ~IsNotification(mainQ'[j])
          PROVE  mainQ'[i].user = user'
      <3>1. i = n + 1
        <4>1. i # n + 2
          BY <1>3, <1>4, <2>1 DEF IsNotification
        <4>2. ~(i < n + 1)
          BY <1>3, <1>4, <2>1
        <4> QED BY <1>3, <1>4, <4>1, <4>2
      <3> QED BY <1>4, <3>1
    <2> QED BY <1>5, <2>1 DEF Announced
  <1>7. \A i \in DOMAIN mainQ' : mainQ'[i].kind = "token" =>
          \/ i \in 1 .. n /\ mainQ'[i] = mainQ[i]
          \/ i = n + 2 /\ mainQ'[i] = b /\ ~Quiet(mainQ', i - 1)
    BY <1>3, <1>4 DEF IsNotification, Quiet
  <1>8. CountersInOrder'
    BY <1>3, <1>4, <1>7 DEF MainInv, CountersInOrder
  <1>9. TokensInv'
    <2>1. ASSUME NEW i \in 1 .. n, Quiet(mainQ', i - 1)
          PROVE  Quiet(mainQ, i - 1)
      BY <1>3, <1>4, <2>1 DEF Quiet
    <2> QED BY <1>3, <1>4, <1>5, <1>7, <2>1 DEF MainInv, TokensInv
  <1> QED BY <1>6, <1>8, <1>9 DEF MainInv

(* A block that is no notification is added. *)
LEMMA MainAppends ==
  ASSUME CredentialsTypeOK, MainInv, UNCHANGED <<user, told>>,
         NEW b \in Blocks, mainQ' = Append(mainQ, b), b.kind # "notify",
         b.kind = "token" => InOrder(b.request) /\ b.request.user # None,
         \A r \in requests' : InOrder(r)
  PROVE  MainInv'
  <1>0. PICK n \in Nat : n = Len(mainQ)
    BY PartsOfTypes
  <1>1. /\ DOMAIN mainQ' = 1 .. n + 1 /\ DOMAIN mainQ = 1 .. n /\ n \in Nat
        /\ Len(mainQ') = n + 1 /\ mainQ'[n + 1] = b
        /\ \A i \in 1 .. n : mainQ'[i] = mainQ[i]
    BY <1>0, PartsOfTypes
  <1>2. \A i \in 0 .. n : Quiet(mainQ', i) <=> Quiet(mainQ, i)
    BY <1>1 DEF Quiet
  <1>3. Quiet(mainQ', n + 1) <=> Quiet(mainQ, n)
    BY <1>1 DEF Quiet, IsNotification
  <1>4. Announced'
    <2>1. ASSUME NEW i \in DOMAIN mainQ', IsNotification(mainQ'[i]),
                 \A j \in i + 1 .. Len(mainQ') : ~IsNotification(mainQ'[j])
          PROVE  mainQ'[i].user = user'
      <3>1. i \in 1 .. n
        BY <1>1, <2>1 DEF IsNotification
      <3>2. \A j \in i + 1 .. n : ~IsNotification(mainQ[j])
        BY <1>1, <2>1, <3>1
      <3> QED BY <1>0, <1>1, <2>1, <3>1, <3>2 DEF MainInv, Announced
    <2>2. (told.user # None /\ Quiet(mainQ', Len(mainQ'))) => told.user = user
      BY <1>0, <1>1, <1>3 DEF MainInv, Announced
    <2> QED BY <2>1, <2>2 DEF Announced
  <1>5. CountersInOrder'
    BY <1>1 DEF MainInv, CountersInOrder, InOrder
  <1>6. TokensInv'
    <2>1. ASSUME NEW r \in requests', r.user # None, r.counter = told.counter,
                 Quiet(mainQ', Len(mainQ'))
          PROVE  r.user = told.user
      BY <1>0, <1>1, <1>3, <2>1 DEF InOrder
    <2>2. ASSUME NEW i \in DOMAIN mainQ', mainQ'[i].kind = "token",
                 mainQ'[i].request.counter = told.counter, Quiet(mainQ', i - 1)
          PROVE  mainQ'[i].request.user = told.user
      <3>1. CASE i = n + 1
        BY <1>0, <1>1, <1>2, <2>2, <3>1 DEF InOrder
      <3>2. CASE i # n + 1
        BY <1>1, <1>2, <2>2, <3>2 DEF MainInv, TokensInv
      <3> QED BY <3>1, <3>2
    <2> QED BY <2>1, <2>2 DEF TokensInv
  <1> QED BY <1>4, <1>5, <1>6 DEF MainInv

(* The main thread runs a block that is no notification. *)
LEMMA MainRuns ==
  ASSUME CredentialsTypeOK, MainInv, UNCHANGED <<user, told>>,
         mainQ # <<>>, mainQ' = Tail(mainQ), Head(mainQ).kind # "notify",
         \A r \in requests' : r \in requests \/ (r.user = None /\ r.counter = told.counter)
  PROVE  MainInv'
  <1>a. mainQ \in Seq(Blocks)
    BY PartsOfTypes
  <1>0. PICK n \in Nat : n = Len(mainQ')
    BY <1>a
  <1>1. /\ DOMAIN mainQ = 1 .. n + 1 /\ DOMAIN mainQ' = 1 .. n /\ Len(mainQ) = n + 1
        /\ mainQ[1] = Head(mainQ)
        /\ \A i \in 1 .. n : mainQ'[i] = mainQ[i + 1]
    BY <1>0, <1>a
  <1>2. ~IsNotification(mainQ[1])
    BY <1>1 DEF IsNotification
  <1>3. ASSUME NEW i \in 0 .. n, Quiet(mainQ', i)
        PROVE  Quiet(mainQ, i + 1)
    <2> SUFFICES ASSUME NEW k \in 1 .. i + 1 PROVE ~IsNotification(mainQ[k])
      BY DEF Quiet
    <2>1. CASE k = 1
      BY <1>2, <2>1
    <2>2. CASE k # 1
      <3>1. k - 1 \in 1 .. i /\ k - 1 \in 1 .. n /\ (k - 1) + 1 = k
        BY <2>2
      <3>2. ~IsNotification(mainQ'[k - 1]) /\ mainQ'[k - 1] = mainQ[k]
        BY <1>1, <1>3, <3>1 DEF Quiet
      <3> QED BY <3>2
    <2> QED BY <2>1, <2>2
  <1>4. Announced'
    <2>1. ASSUME NEW i \in 1 .. n, IsNotification(mainQ'[i]),
                 \A j \in i + 1 .. n : ~IsNotification(mainQ'[j])
          PROVE  mainQ'[i].user = user
      <3>1. \A j \in i + 2 .. n + 1 : ~IsNotification(mainQ[j])
        <4> TAKE j \in i + 2 .. n + 1
        <4>1. j - 1 \in i + 1 .. n /\ j - 1 \in 1 .. n /\ (j - 1) + 1 = j
          OBVIOUS
        <4>2. mainQ'[j - 1] = mainQ[j]
          BY <1>1, <4>1
        <4> QED BY <2>1, <4>1, <4>2
      <3>2. i + 1 \in 1 .. n + 1 /\ mainQ'[i] = mainQ[i + 1]
        BY <1>1
      <3> QED BY <1>1, <2>1, <3>1, <3>2 DEF MainInv, Announced
    <2>2. (told.user # None /\ Quiet(mainQ', n)) => told.user = user
      BY <1>1, <1>3 DEF MainInv, Announced
    <2> QED BY <1>0, <1>1, <2>1, <2>2 DEF Announced
  <1>5. CountersInOrder'
    <2>1. told.counter \in Nat
      BY PartsOfTypes
    <2>2. \A r \in requests' : r.counter <= told.counter
      BY <2>1 DEF MainInv, CountersInOrder
    <2>3. \A i \in 1 .. n : mainQ'[i].kind = "token" =>
            mainQ'[i].request.counter <= told.counter
      BY <1>1 DEF MainInv, CountersInOrder
    <2> QED BY <1>1, <2>2, <2>3 DEF CountersInOrder
  <1>6. TokensInv'
    <2>1. ASSUME NEW r \in requests', r.user # None, r.counter = told.counter,
                 Quiet(mainQ', n)
          PROVE  r.user = told.user
      BY <1>1, <1>3, <2>1 DEF MainInv, TokensInv
    <2>2. ASSUME NEW i \in 1 .. n, mainQ'[i].kind = "token",
                 mainQ'[i].request.counter = told.counter, Quiet(mainQ', i - 1)
          PROVE  mainQ'[i].request.user = told.user
      <3>1. Quiet(mainQ, (i + 1) - 1)
        BY <1>3, <2>2
      <3> QED BY <1>1, <2>2, <3>1 DEF MainInv, TokensInv
    <2> QED BY <1>0, <1>1, <2>1, <2>2 DEF TokensInv
  <1> QED BY <1>4, <1>5, <1>6 DEF MainInv

(* The provider is told of a user: every token of before is out of date. *)
LEMMA MainTells ==
  ASSUME CredentialsTypeOK, MainInv, NoClientYet, UNCHANGED <<user, requests>>,
         mainQ # <<>>, mainQ' = Tail(mainQ), Head(mainQ).kind = "notify",
         IF told.user = None
           THEN told' = told
           ELSE told' = [user |-> Head(mainQ).user, counter |-> told.counter + 1]
  PROVE  MainInv'
  <1>0. PICK n \in Nat : n = Len(mainQ')
    BY PartsOfTypes
  <1>1. /\ DOMAIN mainQ = 1 .. n + 1 /\ DOMAIN mainQ' = 1 .. n /\ Len(mainQ) = n + 1
        /\ mainQ[1] = Head(mainQ)
        /\ \A i \in 1 .. n : mainQ'[i] = mainQ[i + 1]
    BY <1>0, PartsOfTypes
  <1>2. IsNotification(mainQ[1])
    BY <1>1 DEF IsNotification
  <1>3. Announced'
    <2>1. ASSUME NEW i \in 1 .. n, IsNotification(mainQ'[i]),
                 \A j \in i + 1 .. n : ~IsNotification(mainQ'[j])
          PROVE  mainQ'[i].user = user
      <3>1. \A j \in i + 2 .. n + 1 : ~IsNotification(mainQ[j])
        <4> TAKE j \in i + 2 .. n + 1
        <4>1. j - 1 \in i + 1 .. n /\ j - 1 \in 1 .. n /\ (j - 1) + 1 = j
          OBVIOUS
        <4>2. mainQ'[j - 1] = mainQ[j]
          BY <1>1, <4>1
        <4> QED BY <2>1, <4>1, <4>2
      <3>2. i + 1 \in 1 .. n + 1 /\ mainQ'[i] = mainQ[i + 1]
        BY <1>1
      <3> QED BY <1>1, <2>1, <3>1, <3>2 DEF MainInv, Announced
    <2>2. ASSUME told'.user # None, Quiet(mainQ', n)
          PROVE  told'.user = user
      <3>1. told.user # None /\ told'.user = mainQ[1].user
        <4>1. CASE told.user = None
          BY <2>2, <4>1
        <4>2. CASE told.user # None
          <5>1. told' = [user |-> Head(mainQ).user, counter |-> told.counter + 1]
            BY <4>2
          <5> QED BY <1>1, <4>2, <5>1
        <4> QED BY <4>1, <4>2
      <3>2. \A j \in 2 .. n + 1 : ~IsNotification(mainQ[j])
        <4> TAKE j \in 2 .. n + 1
        <4>1. j - 1 \in 1 .. n /\ (j - 1) + 1 = j
          OBVIOUS
        <4>2. mainQ'[j - 1] = mainQ[j]
          BY <1>1, <4>1
        <4> QED BY <2>2, <4>1, <4>2 DEF Quiet
      <3>3. mainQ[1].user = user
        BY <1>1, <1>2, <3>2 DEF MainInv, Announced
      <3> QED BY <3>1, <3>3
    <2> QED BY <1>0, <1>1, <2>1, <2>2 DEF Announced
  <1>4. \A i \in 1 .. n : mainQ'[i].kind = "token" =>
          /\ mainQ'[i].request.counter <= told'.counter
          /\ mainQ'[i].request.counter # told'.counter
    <2> TAKE i \in 1 .. n
    <2> HAVE mainQ'[i].kind = "token"
    <2>1. i + 1 \in DOMAIN mainQ /\ mainQ[i + 1].kind = "token" /\ mainQ'[i] = mainQ[i + 1]
      BY <1>1
    <2>2. told.user # None
      BY <2>1 DEF NoClientYet
    <2>3. mainQ[i + 1].request \in Answered
      <3>1. mainQ[i + 1] \in Blocks
        BY <2>1, PartsOfTypes
      <3> QED BY <2>1, <3>1, BlockKinds
    <2>4. mainQ[i + 1].request.counter \in Nat /\ told.counter \in Nat
      BY <2>3, PartsOfTypes DEF Answered
    <2>5. mainQ[i + 1].request.counter <= told.counter
      BY <2>1 DEF MainInv, CountersInOrder
    <2>6. told'.counter = told.counter + 1
      <3>1. told' = [user |-> Head(mainQ).user, counter |-> told.counter + 1]
        BY <2>2
      <3> QED BY <3>1
    <2>7. PICK c \in Nat : c = mainQ[i + 1].request.counter
      BY <2>4
    <2>8. c <= told'.counter /\ c # told'.counter
      BY <2>4, <2>5, <2>6, <2>7
    <2>9. mainQ'[i].request.counter = c
      BY <2>1, <2>7
    <2> QED BY <2>8, <2>9
  <1>5. \A r \in requests' : r.counter <= told'.counter /\ r.counter # told'.counter
    <2> TAKE r \in requests'
    <2>1. told.user # None
      BY DEF NoClientYet
    <2>2. r.counter \in Nat /\ told.counter \in Nat /\ r.counter <= told.counter
      BY PartsOfTypes DEF MainInv, CountersInOrder, Requests
    <2>3. told' = [user |-> Head(mainQ).user, counter |-> told.counter + 1]
      BY <2>1
    <2> QED BY <2>2, <2>3
  <1>6. CountersInOrder' /\ TokensInv'
    BY <1>1, <1>4, <1>5 DEF CountersInOrder, TokensInv
  <1> QED BY <1>3, <1>6 DEF MainInv

---------------------------------------------------------------------------------
(***************************************************************************)
(* The steps.                                                              *)
(***************************************************************************)

(* An empty main queue of tokens stays one when other blocks are added to it. *)
LEMMA NoTokens ==
  ASSUME NEW q \in Seq(Blocks), \A i \in DOMAIN q : q[i].kind # "token",
         NEW b \in Blocks, b.kind # "token", NEW c \in Blocks, c.kind # "token"
  PROVE  /\ \A i \in DOMAIN Append(q, b) : Append(q, b)[i].kind # "token"
         /\ \A i \in DOMAIN (q \o <<b>> \o <<c>>) : (q \o <<b>> \o <<c>>)[i].kind # "token"
         /\ \A i \in DOMAIN (q \o <<b>> \o <<>>) : (q \o <<b>> \o <<>>)[i].kind # "token"
         /\ q # <<>> => \A i \in DOMAIN Tail(q) : Tail(q)[i].kind # "token"
  <1>1. \A i \in DOMAIN Append(q, b) : Append(q, b)[i].kind # "token"
    OBVIOUS
  <1>2. \A i \in DOMAIN (q \o <<b>> \o <<c>>) : (q \o <<b>> \o <<c>>)[i].kind # "token"
    OBVIOUS
  <1>3. \A i \in DOMAIN (q \o <<b>> \o <<>>) : (q \o <<b>> \o <<>>)[i].kind # "token"
    OBVIOUS
  <1>4. q # <<>> => \A i \in DOMAIN Tail(q) : Tail(q)[i].kind # "token"
    OBVIOUS
  <1> QED BY <1>1, <1>2, <1>3, <1>4

LEMMA BlocksOfKind ==
  /\ \A u \in Accounts : Notification(u).kind = "notify"
  /\ Completion(TRUE).kind = "completion" /\ Completion(FALSE).kind = "completion"
  BY DEF Notification, Completion

LEMMA NoClientStep ==
  ASSUME CredInv, CredentialsNext
  PROVE  NoClientYet'
  <1> SUFFICES ASSUME told'.user = None
               PROVE  /\ workQ' = <<>> /\ client' = None /\ requests' = {}
                      /\ stream' = NoStream /\ pipeline' = 0
                      /\ \A i \in DOMAIN mainQ' : mainQ'[i].kind # "token"
    BY DEF NoClientYet
  <1>0. CredentialsTypeOK /\ NoClientYet
    BY DEF CredInv
  <1>1. CASE Relaunched
    BY <1>1 DEF Relaunched
  <1>2. CASE ~Relaunched
    <2>1. told' = told
      <3>1. CASE AuthStateDidChange
        <4>1. Head(mainQ).user \in Accounts
          BY <1>0, <3>1, BlockKinds, PartsOfTypes DEF AuthStateDidChange, HeadIs
        <4>2. Head(mainQ).user # None
          BY <4>1, CredentialsAssumption
        <4> QED BY <3>1, <4>2 DEF AuthStateDidChange
      <3>2. CASE CreateClient
        BY <1>0, <3>2, PartsOfTypes, CredentialsAssumption DEF CreateClient
      <3>3. CASE FIRAuth \/ ForcedSignOut \/ GetTokenCallback
        BY <3>3 DEF FIRAuth, LoadUser, AuthTakesRequest, AuthAnswersRequest,
                    RefreshToken, ForcedSignOut, GetTokenCallback
      <3>4. CASE Worker
        BY <3>4 DEF Worker, Initialize, HandleCredentialChange, WriteMutations,
                    ResumeStartWithCredentials, OnWriteStreamMutationResult,
                    HandleWriteError, OnStreamFinish, BackoffElapsed,
                    ConnectivityChanged, IdleTimeout
      <3>5. CASE App /\ ~CreateClient
        BY <1>2, <3>5 DEF App, SignedIn, SignInFailed, CallWrite, RunCompletion
      <3> QED BY <3>1, <3>2, <3>3, <3>4, <3>5 DEF CredentialsNext, Provider
    <2>2. /\ workQ = <<>> /\ client = None /\ requests = {} /\ stream = NoStream
          /\ pipeline = 0 /\ \A i \in DOMAIN mainQ : mainQ[i].kind # "token"
      BY <1>0, <2>1 DEF NoClientYet
    <2>3. ~Worker
      BY <2>2 DEF Worker, Initialize, HandleCredentialChange, WriteMutations,
                  ResumeStartWithCredentials, OnWriteStreamMutationResult,
                  HandleWriteError, OnStreamFinish, BackoffElapsed,
                  ConnectivityChanged, IdleTimeout, TaskIs, NoStream
    <2>4. ~GetTokenCallback /\ ~AuthTakesRequest /\ ~AuthAnswersRequest /\ ~CallWrite
      <3>1. ~HeadIs("token")
        BY <1>0, <2>2, PartsOfTypes DEF HeadIs
      <3> QED BY <2>1, <2>2, <3>1 DEF GetTokenCallback, AuthTakesRequest,
                                      AuthAnswersRequest, CallWrite
    <2>5. \/ LoadUser \/ AuthStateDidChange \/ (\E u \in Users : SignedIn(u))
          \/ SignInFailed \/ RunCompletion \/ CreateClient \/ RefreshToken \/ ForcedSignOut
          \/ SignOut /\ UNCHANGED <<told, workQ, clientVars, requests, faults>>
      BY <1>2, <2>3, <2>4 DEF CredentialsNext, FIRAuth, Provider, App
    <2>6. ~CreateClient
      BY <1>0, <2>1, PartsOfTypes, CredentialsAssumption DEF CreateClient
    <2>7. UNCHANGED <<workQ, requests>> /\ UNCHANGED clientVars
      BY <2>1, <2>2, <2>5, <2>6 DEF LoadUser, AuthStateDidChange, SignedIn, SignInFailed,
                                    RunCompletion, RefreshToken, ForcedSignOut
    <2>8. \A i \in DOMAIN mainQ' : mainQ'[i].kind # "token"
      <3>1. mainQ \in Seq(Blocks) /\ user \in Accounts /\ saved \in Accounts
        BY <1>0, PartsOfTypes
      <3>2. Nobody \in Accounts /\ Users \subseteq Accounts
        BY DEF Accounts
      <3>3. \/ mainQ' = mainQ
            \/ mainQ # <<>> /\ mainQ' = Tail(mainQ)
            \/ mainQ' = Append(mainQ, Notification(saved))
            \/ mainQ' = Append(mainQ, Notification(user))
            \/ mainQ' = Append(mainQ, Completion(FALSE))
            \/ mainQ' = mainQ \o <<Notification(Nobody)>> \o <<>>
            \/ \E u \in Users : mainQ' = mainQ \o <<Notification(u)>> \o <<Completion(TRUE)>>
        BY <2>2, <2>5, <2>6 DEF LoadUser, AuthStateDidChange, SignedIn, SignInFailed,
                                RunCompletion, SignOut, UpdateCurrentUser, HeadIs,
                                RefreshToken, ForcedSignOut, authVars
      <3>4. /\ Completion(TRUE) \in Blocks /\ Completion(FALSE) \in Blocks
            /\ \A u \in Accounts : Notification(u) \in Blocks
            /\ \A u \in Accounts : Notification(u).kind # "token"
            /\ Completion(TRUE).kind # "token" /\ Completion(FALSE).kind # "token"
        BY BlockTypes, BlocksOfKind
      <3>5. CASE mainQ # <<>> /\ mainQ' = Tail(mainQ)
        BY <2>2, <3>1, <3>4, <3>5, NoTokens
      <3>6. CASE mainQ' = Append(mainQ, Notification(saved))
        BY <2>2, <3>1, <3>4, <3>6, NoTokens
      <3>10. CASE mainQ' = Append(mainQ, Notification(user))
        BY <2>2, <3>1, <3>4, <3>10, NoTokens
      <3>7. CASE mainQ' = Append(mainQ, Completion(FALSE))
        BY <2>2, <3>1, <3>4, <3>7, NoTokens, Zenon
      <3>8. CASE mainQ' = mainQ \o <<Notification(Nobody)>> \o <<>>
        BY <2>2, <3>1, <3>2, <3>4, <3>8, NoTokens
      <3>9. ASSUME NEW u \in Users,
                   mainQ' = mainQ \o <<Notification(u)>> \o <<Completion(TRUE)>>
            PROVE  \A i \in DOMAIN mainQ' : mainQ'[i].kind # "token"
        <4>1. Notification(u) \in Blocks /\ Notification(u).kind # "token"
          BY <3>2, <3>4
        <4> QED BY <2>2, <3>1, <3>4, <3>9, <4>1, NoTokens, Zenon
      <3> QED BY <2>2, <3>3, <3>5, <3>6, <3>7, <3>8, <3>9, <3>10
    <2> QED BY <2>2, <2>7, <2>8 DEF clientVars
  <1> QED BY <1>1, <1>2

LEMMA TypeStep ==
  ASSUME CredInv, CredentialsNext
  PROVE  CredentialsTypeOK'
  BY FIRAuthType, AppType, ProviderType, WorkerType
  DEF CredInv, CredentialsNext, App

(* The next token the provider passes on belongs to the user it was told. *)
LEMMA TokenPasses ==
  ASSUME CredInv, HeadIs("token"), Head(mainQ).request.counter = told.counter
  PROVE  /\ Head(mainQ).request \in Answered
         /\ Head(mainQ).request.user = told.user
  <1>1. /\ 1 \in DOMAIN mainQ /\ mainQ[1] = Head(mainQ) /\ Head(mainQ) \in Blocks
        /\ Head(mainQ).kind = "token"
    BY PartsOfTypes DEF CredInv, HeadIs
  <1>2. Quiet(mainQ, 1 - 1)
    BY DEF Quiet
  <1> QED BY <1>1, <1>2, BlockKinds DEF CredInv, TokensInv

LEMMA WorkerStep ==
  ASSUME CredInv, CredentialsNext
  PROVE  WorkerInv' /\ InitializeIsFirst'
  <1>0. CredentialsTypeOK /\ NoClientYet /\ WorkerInv /\ InitializeIsFirst
    BY DEF CredInv
  <1>1. CASE Relaunched
    BY <1>1 DEF Relaunched, WorkerInv, InitializeIsFirst
  <1>2. CASE \/ FIRAuth \/ ForcedSignOut
             \/ SignInFailed \/ RunCompletion \/ (\E u \in Users : SignedIn(u))
             \/ SignOut /\ UNCHANGED <<told, workQ, clientVars, requests, faults>>
    <2>1. UNCHANGED <<told, workQ>> /\ UNCHANGED clientVars
      BY <1>2 DEF FIRAuth, LoadUser, AuthTakesRequest, AuthAnswersRequest,
                  RefreshToken, ForcedSignOut, SignInFailed, RunCompletion, SignedIn
    <2> QED BY <1>0, <2>1, WorkerUnchanged DEF clientVars
  <1>3. CASE AuthStateDidChange
    <2>1. CASE told.user = None
      <3>1. UNCHANGED <<told, workQ>> /\ UNCHANGED clientVars
        BY <1>3, <2>1 DEF AuthStateDidChange
      <3> QED BY <1>0, <3>1, WorkerUnchanged DEF clientVars
    <2>2. CASE told.user # None
      <3> DEFINE t == [kind |-> "credential", user |-> Head(mainQ).user]
      <3>1. /\ told' = [user |-> Head(mainQ).user, counter |-> told.counter + 1]
            /\ workQ' = Append(workQ, t) /\ UNCHANGED clientVars
        BY <1>3, <2>2 DEF AuthStateDidChange
      <3>2. Head(mainQ).user \in Accounts
        BY <1>0, <1>3, BlockKinds, PartsOfTypes DEF AuthStateDidChange, HeadIs
      <3>3. t \in Tasks
        BY <3>2 DEF Tasks
      <3>4. SetsUser(t) /\ t.kind # "initialize" /\ told'.user = t.user /\ client' = client
        BY <3>1 DEF SetsUser, clientVars
      <3> HIDE DEF t
      <3> QED BY <1>0, <3>1, <3>3, <3>4, WorkerIsAsked
    <2> QED BY <2>1, <2>2
  <1>4. CASE GetTokenCallback
    <2> DEFINE r == Head(mainQ).request
    <2>1. CASE r.counter # told.counter
      <3>1. UNCHANGED <<told, workQ>> /\ UNCHANGED clientVars
        BY <1>4, <2>1 DEF GetTokenCallback
      <3> QED BY <1>0, <3>1, WorkerUnchanged DEF clientVars
    <2>2. CASE r.counter = told.counter
      <3>1. /\ workQ' = Append(workQ, Resume(r)) /\ UNCHANGED told
            /\ UNCHANGED clientVars /\ HeadIs("token")
        BY <1>4, <2>2 DEF GetTokenCallback
      <3>2. r \in Answered /\ r.user = told.user
        BY <2>2, <3>1, TokenPasses
      <3> HIDE DEF r
      <3>3. /\ Resume(r) \in Tasks /\ Resume(r).user = told.user
            /\ Resume(r).kind = "resume"
        BY <3>2 DEF Resume, Tasks, Answered
      <3>4. told'.user = Resume(r).user /\ client' = client
        BY <3>1, <3>3 DEF clientVars
      <3> QED BY <1>0, <3>1, <3>3, <3>4, WorkerIsAsked
    <2> QED BY <2>1, <2>2
  <1>5. CASE CreateClient
    <2> DEFINE t == [kind |-> "initialize", user |-> user]
    <2>1. /\ told' = [user |-> user, counter |-> 0] /\ told.user = None
          /\ workQ' = Append(workQ, t) /\ UNCHANGED clientVars
      BY <1>5 DEF CreateClient
    <2>2. t \in Tasks
      BY <1>0, PartsOfTypes DEF Tasks
    <2>3. SetsUser(t) /\ told'.user = t.user /\ client' = client
      BY <2>1 DEF SetsUser, clientVars
    <2>4. workQ = <<>> /\ client = None
      BY <1>0, <2>1 DEF NoClientYet
    <2> HIDE DEF t
    <2> QED BY <1>0, <2>1, <2>2, <2>3, <2>4, WorkerIsAsked
  <1>6. CASE CallWrite
    <2> DEFINE t == [kind |-> "write", user |-> told.user]
    <2>1. /\ told.user # None /\ UNCHANGED told
          /\ workQ' = Append(workQ, t) /\ UNCHANGED clientVars
      BY <1>6 DEF CallWrite
    <2>2. t \in Tasks
      BY <1>0, <2>1, PartsOfTypes DEF Tasks
    <2>3. t.kind # "initialize" /\ t.user = told.user /\ told'.user = t.user
      BY <2>1
    <2>4. client' = client
      BY <2>1 DEF clientVars
    <2> HIDE DEF t
    <2> QED BY <1>0, <2>1, <2>2, <2>3, <2>4, WorkerIsAsked
  <1>7. CASE Initialize \/ HandleCredentialChange
    <2>1. /\ workQ # <<>> /\ workQ' = Tail(workQ)
          /\ client' = Head(workQ).user /\ UNCHANGED told
      BY <1>7 DEF Initialize, HandleCredentialChange, TaskIs
    <2> QED BY <1>0, <2>1, WorkerTakes
  <1>8. CASE WriteMutations \/ ResumeStartWithCredentials
    <2>1. /\ workQ # <<>> /\ workQ' = Tail(workQ) /\ UNCHANGED <<client, told>>
          /\ ~SetsUser(Head(workQ))
      BY <1>8 DEF WriteMutations, ResumeStartWithCredentials, TaskIs, SetsUser
    <2>2. client' = Head(workQ).user
      BY <1>0, <2>1, HeadRuns
    <2> QED BY <1>0, <2>1, <2>2, WorkerTakes
  <1>9. CASE \/ OnWriteStreamMutationResult \/ HandleWriteError \/ OnStreamFinish
             \/ BackoffElapsed \/ ConnectivityChanged \/ IdleTimeout
    <2>1. UNCHANGED <<workQ, client, told>>
      BY <1>9 DEF OnWriteStreamMutationResult, HandleWriteError, OnStreamFinish,
                  BackoffElapsed, ConnectivityChanged, IdleTimeout
    <2> QED BY <1>0, <2>1, WorkerUnchanged
  <1> QED BY <1>1, <1>2, <1>3, <1>4, <1>5, <1>6, <1>7, <1>8, <1>9
          DEF CredentialsNext, Provider, Worker, App

LEMMA MainAuthStep ==
  ASSUME CredInv,
         \/ FIRAuth \/ ForcedSignOut \/ SignInFailed \/ (\E u \in Users : SignedIn(u))
         \/ SignOut /\ UNCHANGED <<told, workQ, clientVars, requests, faults>>
  PROVE  MainInv'
  <1>0. /\ CredentialsTypeOK /\ MainInv /\ NoClientYet /\ UserIsLoaded
        /\ mainQ \in Seq(Blocks) /\ user \in Accounts /\ saved \in Accounts
        /\ requests \subseteq Requests
    BY PartsOfTypes DEF CredInv, MainInv
  <1>a. /\ Completion(TRUE) \in Blocks /\ Completion(FALSE) \in Blocks
        /\ Completion(TRUE).kind = "completion" /\ Completion(FALSE).kind = "completion"
    BY BlockTypes, BlocksOfKind
  <1>b. Nobody \in Accounts /\ Users \subseteq Accounts
    BY DEF Accounts
  <1>c. ASSUME NEW u \in Accounts, user' = u, UNCHANGED told, requests' \subseteq requests,
               NEW b \in Blocks, b.kind # "notify",
               b.kind = "token" => b.request.counter <= told.counter,
               \/ mainQ' = Append(mainQ, Notification(u))
               \/ mainQ' = mainQ \o <<Notification(u)>> \o <<>>
               \/ mainQ' = mainQ \o <<Notification(u)>> \o <<b>>
        PROVE  MainInv'
    <2> DEFINE q == Append(mainQ, Notification(u))
    <2>1. Notification(u) \in Blocks
      BY BlockTypes
    <2>2. q \in Seq(Blocks)
      BY <1>0, <2>1, AppendType
    <2>3. q = Append(mainQ, Notification(user'))
      BY <1>c
    <2>4. mainQ' = q \/ mainQ' = Append(q, b)
      <3>1. mainQ \o <<Notification(u)>> \o <<>> = q
        BY <1>0, <2>1
      <3>2. ASSUME NEW e \in Blocks
            PROVE  mainQ \o <<Notification(u)>> \o <<e>> = Append(q, e)
        BY <1>0, <2>1
      <3>3. mainQ \o <<Notification(u)>> \o <<b>> = Append(q, b)
        BY <2>2, <3>2
      <3> QED BY <1>c, <3>1, <3>3, Zenon
    <2> HIDE DEF q
    <2> QED BY <1>0, <1>c, <2>2, <2>3, <2>4, MainAnnounces
  <1>d. /\ Completion(TRUE).kind # "notify" /\ Completion(TRUE).kind # "token"
        /\ requests \subseteq requests
    BY <1>a
  <1>e. ASSUME NEW r \in requests, r.user # None
        PROVE  /\ Token(r) \in Blocks /\ Token(r).kind = "token"
               /\ Token(r).request.user = r.user
               /\ Token(r).request.counter = r.counter
               /\ r.counter <= told.counter
    <2>1. r \in Answered
      BY <1>0, <1>e, RequestTypes
    <2> QED BY <1>0, <2>1, TokenFields DEF MainInv, CountersInOrder
  <1>f. \A r \in requests : InOrder(r)
    BY <1>0, RequestsInOrder
  <1>1. CASE LoadUser
    <2>1. CASE saved = Nobody
      <3>1. UNCHANGED <<user, mainQ, told, requests>>
        BY <1>0, <1>1, <2>1 DEF LoadUser, UserIsLoaded
      <3> QED BY <1>0, <3>1, MainRequests, RequestsInOrder
    <2>2. CASE saved # Nobody
      <3>1. /\ user' = saved /\ UNCHANGED <<told, requests>>
            /\ mainQ' = Append(mainQ, Notification(saved))
        BY <1>1, <2>2 DEF LoadUser
      <3> QED BY <1>0, <1>a, <1>c, <1>d, <3>1
    <2> QED BY <2>1, <2>2
  <1>2. CASE \E u \in Users : SignedIn(u)
    <2>1. PICK u \in Users : SignedIn(u)
      BY <1>2
    <2>2. /\ user' = u /\ UNCHANGED <<told, requests>>
          /\ mainQ' = mainQ \o <<Notification(u)>> \o <<Completion(TRUE)>>
      BY <2>1 DEF SignedIn, UpdateCurrentUser
    <2> QED BY <1>a, <1>b, <1>c, <1>d, <2>2, Zenon
  <1>3. CASE SignOut /\ UNCHANGED <<told, workQ, clientVars, requests, faults>>
    <2>1. CASE user = Nobody
      <3>1. UNCHANGED <<user, mainQ, told, requests>>
        BY <1>3, <2>1 DEF SignOut, authVars
      <3> QED BY <1>0, <3>1, MainRequests, RequestsInOrder
    <2>2. CASE user # Nobody
      <3>1. /\ user' = Nobody /\ UNCHANGED <<told, requests>>
            /\ mainQ' = mainQ \o <<Notification(Nobody)>> \o <<>>
        BY <1>3, <2>2 DEF SignOut, UpdateCurrentUser
      <3> QED BY <1>a, <1>b, <1>c, <1>d, <3>1
    <2> QED BY <2>1, <2>2
  <1>4. CASE SignInFailed
    <2> DEFINE b == Completion(FALSE)
    <2>1. UNCHANGED <<user, told, requests>> /\ mainQ' = Append(mainQ, b)
      BY <1>4 DEF SignInFailed, authVars
    <2>2. b \in Blocks /\ b.kind # "notify" /\ b.kind # "token"
      BY <1>a
    <2> HIDE DEF b
    <2> QED BY <1>0, <2>1, <2>2, MainAppends, RequestsInOrder
  <1>5. CASE AuthTakesRequest
    <2>1. PICK r \in requests :
            /\ r.user = None
            /\ \/ /\ mainQ' = Append(mainQ, Token([r EXCEPT !.user = user, !.object = object]))
                  /\ requests' = requests \ {r}
               \/ /\ requests' = (requests \ {r})
                                  \cup {[r EXCEPT !.user = user, !.object = object]}
                  /\ mainQ' = mainQ
      BY <1>5 DEF AuthTakesRequest
    <2> DEFINE taken == [r EXCEPT !.user = user, !.object = object]
    <2>2. /\ taken \in Answered /\ taken.counter = r.counter /\ taken.user = user
      <3>1. object \in Nat /\ r \in Requests
        BY <1>0, PartsOfTypes
      <3>2. user \in Accounts
        BY <1>0
      <3> QED BY <3>1, <3>2 DEF Requests, Answered
    <2>3. told.user # None
      BY <1>0, <2>1 DEF NoClientYet
    <2>4. UNCHANGED <<user, told>>
      BY <1>5 DEF AuthTakesRequest
    <2> DEFINE b == Token(taken)
    <2>5. /\ \/ mainQ' = Append(mainQ, b) /\ requests' = requests \ {r}
             \/ requests' = (requests \ {r}) \cup {taken} /\ mainQ' = mainQ
      BY <2>1
    <2>6. /\ b \in Blocks /\ b.kind = "token"
          /\ b.request.counter = taken.counter /\ b.request.user = taken.user
      BY <2>2, TokenFields
    <2> HIDE DEF taken, b
    <2>7. InOrder(taken) /\ taken.user # None
      <3>1. r.counter <= told.counter
        BY <1>0 DEF MainInv, CountersInOrder
      <3>2. Quiet(mainQ, Len(mainQ)) => told.user = user
        BY <1>0, <2>3 DEF MainInv, Announced
      <3> QED BY <1>0, <2>2, <3>1, <3>2, CredentialsAssumption DEF InOrder
    <2>8. \A r2 \in requests : InOrder(r2)
      BY <1>0, RequestsInOrder
    <2>9. CASE mainQ' = Append(mainQ, b) /\ requests' = requests \ {r}
      <3>1. InOrder(b.request) /\ b.request.user # None
        BY <2>6, <2>7 DEF InOrder
      <3> QED BY <1>0, <2>4, <2>6, <2>8, <2>9, <3>1, MainAppends
    <2>10. CASE requests' = (requests \ {r}) \cup {taken} /\ mainQ' = mainQ
      BY <1>0, <2>4, <2>7, <2>8, <2>10, MainRequests
    <2> QED BY <2>5, <2>9, <2>10
  <1>6. CASE AuthAnswersRequest
    <2>1. PICK r \in requests :
            /\ r.user # None
            /\ requests' = requests \ {r}
            /\ \/ mainQ' = mainQ \o <<Notification(user)>> \o <<Token(r)>>
               \/ mainQ' = Append(mainQ, Token(r))
      BY <1>6 DEF AuthAnswersRequest
    <2>2. UNCHANGED <<user, told>> /\ requests' \subseteq requests
      BY <1>6, <2>1 DEF AuthAnswersRequest
    <2> DEFINE b == Token(r)
    <2>3. /\ b \in Blocks /\ b.kind = "token"
          /\ b.request.user = r.user /\ b.request.counter = r.counter
          /\ r.counter <= told.counter
      BY <1>e, <2>1
    <2>4. \/ mainQ' = mainQ \o <<Notification(user)>> \o <<b>>
          \/ mainQ' = Append(mainQ, b)
      BY <2>1
    <2> HIDE DEF b
    <2>5. CASE mainQ' = mainQ \o <<Notification(user)>> \o <<b>>
      BY <1>0, <1>c, <2>2, <2>3, <2>5
    <2>6. CASE mainQ' = Append(mainQ, b)
      <3>1. InOrder(b.request) /\ b.request.user # None
        BY <1>f, <2>1, <2>3 DEF InOrder
      <3> QED BY <1>0, <1>f, <2>2, <2>3, <2>6, <3>1, MainAppends
    <2> QED BY <2>4, <2>5, <2>6
  <1>7. CASE RefreshToken
    <2>1. UNCHANGED <<user, told, requests>> /\ mainQ' = Append(mainQ, Notification(user))
      BY <1>7 DEF RefreshToken
    <2> QED BY <1>0, <1>a, <1>c, <1>d, <2>1
  <1>8. CASE ForcedSignOut
    <2>1. UNCHANGED told /\ user' = Nobody
      BY <1>8, ForcedParts
    <2>2. CASE /\ mainQ' = mainQ \o <<Notification(Nobody)>> \o <<>>
               /\ requests' = requests
      BY <1>a, <1>b, <1>c, <1>d, <2>1, <2>2
    <2>3. ASSUME NEW r \in requests, r.user \in Users,
                 mainQ' = mainQ \o <<Notification(Nobody)>> \o <<Token(r)>>,
                 requests' = requests \ {r}
          PROVE  MainInv'
      <3> DEFINE b == Token(r)
      <3>1. r.user # None
        BY <2>3, CredentialsAssumption DEF Accounts
      <3>2. /\ b \in Blocks /\ b.kind = "token"
            /\ b.request.counter = r.counter /\ r.counter <= told.counter
        BY <1>e, <3>1
      <3>3. mainQ' = mainQ \o <<Notification(Nobody)>> \o <<b>>
        BY <2>3
      <3>4. requests' \subseteq requests
        BY <2>3
      <3> HIDE DEF b
      <3> QED BY <1>b, <1>c, <2>1, <3>2, <3>3, <3>4
    <2> QED BY <1>8, <2>2, <2>3, ForcedParts, Zenon
  <1> QED BY <1>1, <1>2, <1>3, <1>4, <1>5, <1>6, <1>7, <1>8 DEF FIRAuth

LEMMA MainStep ==
  ASSUME CredInv, CredentialsNext
  PROVE  MainInv'
  <1>0. CredentialsTypeOK /\ MainInv /\ NoClientYet
    BY DEF CredInv, MainInv
  <1>a. /\ \A r \in requests : InOrder(r)
        /\ \A r : (r.user = None /\ r.counter = told.counter) => InOrder(r)
    BY <1>0, RequestsInOrder
  <1>1. CASE Relaunched
    BY <1>1 DEF Relaunched, MainInv, Announced, CountersInOrder, TokensInv
  <1>2. CASE AuthStateDidChange
    <2>1. /\ UNCHANGED <<user, requests>> /\ mainQ # <<>> /\ mainQ' = Tail(mainQ)
          /\ Head(mainQ).kind = "notify"
      BY <1>2 DEF AuthStateDidChange, HeadIs, authVars
    <2>2. IF told.user = None
            THEN told' = told
            ELSE told' = [user |-> Head(mainQ).user, counter |-> told.counter + 1]
      BY <1>2 DEF AuthStateDidChange
    <2> QED BY <1>0, <2>1, <2>2, MainTells
  <1>3. CASE GetTokenCallback \/ RunCompletion
    <2>1. /\ UNCHANGED <<user, told>> /\ mainQ # <<>> /\ mainQ' = Tail(mainQ)
          /\ Head(mainQ).kind # "notify"
      BY <1>3 DEF GetTokenCallback, RunCompletion, HeadIs, authVars
    <2>2. \A r \in requests' : r \in requests \/ (r.user = None /\ r.counter = told.counter)
      BY <1>3 DEF GetTokenCallback, RunCompletion, Request
    <2> QED BY <1>0, <2>1, <2>2, MainRuns
  <1>4. CASE CreateClient
    <2>1. /\ told.user = None /\ told' = [user |-> user, counter |-> 0]
          /\ UNCHANGED <<user, mainQ, requests>>
      BY <1>4 DEF CreateClient, authVars
    <2>2. requests = {} /\ \A i \in DOMAIN mainQ : mainQ[i].kind # "token"
      BY <1>0, <2>1 DEF NoClientYet
    <2>3. Announced'
      BY <1>0, <2>1 DEF MainInv, Announced
    <2>4. CountersInOrder' /\ TokensInv'
      BY <2>1, <2>2 DEF CountersInOrder, TokensInv
    <2> QED BY <2>3, <2>4 DEF MainInv
  <1>5. CASE CallWrite
    <2>1. UNCHANGED <<user, mainQ, told, requests>>
      BY <1>5 DEF CallWrite, authVars
    <2> QED BY <1>0, <1>a, <2>1, MainRequests
  <1>6. CASE Worker
    <2>1. UNCHANGED <<user, mainQ, told>>
      BY <1>6 DEF Worker, Initialize, HandleCredentialChange, WriteMutations,
                  ResumeStartWithCredentials, OnWriteStreamMutationResult,
                  HandleWriteError, OnStreamFinish, BackoffElapsed,
                  ConnectivityChanged, IdleTimeout, authVars
    <2>2. \A r \in requests' : r \in requests \/ (r.user = None /\ r.counter = told.counter)
      BY <1>6 DEF Worker, Initialize, HandleCredentialChange, WriteMutations,
                  ResumeStartWithCredentials, OnWriteStreamMutationResult,
                  HandleWriteError, OnStreamFinish, BackoffElapsed, RestartNetwork,
                  ConnectivityChanged, IdleTimeout, FillWritePipeline, Request
    <2> QED BY <1>0, <1>a, <2>1, <2>2, MainRequests
  <1> QED BY <1>1, <1>2, <1>3, <1>4, <1>5, <1>6, MainAuthStep
          DEF CredentialsNext, Provider, App

(* A stream that is open after the pipeline was filled was open before. *)
LEMMA FillKeepsOpen ==
  ASSUME NEW q, NEW s, FillWritePipeline(q, s), stream'.state = "Open"
  PROVE  stream' = s
  BY DEF FillWritePipeline, StartIfNeeded

LEMMA StreamStep ==
  ASSUME CredInv, CredentialsNext
  PROVE  StreamInv'
  <1> SUFFICES ASSUME stream'.state = "Open"
               PROVE  stream'.user = client' /\ client' # None
    BY DEF StreamInv
  <1>0. CredentialsTypeOK /\ WorkerInv /\ StreamInv /\ InitializeIsFirst
    BY DEF CredInv
  <1>a. stream \in StreamType /\ pipeline \in Nat
    BY <1>0, PartsOfTypes, CredentialsAssumption DEF ClientTypes
  <1>b. /\ Stop(stream).state # "Open" /\ Close(stream, "Initial").state # "Open"
        /\ StartIfNeeded(Close(stream, "Error"), pipeline).state # "Open"
    BY <1>a, StreamTypes
  <1>1. CASE Relaunched
    BY <1>1 DEF Relaunched, NoStream
  <1>2. CASE UNCHANGED <<client, stream>>
    BY <1>0, <1>2 DEF StreamInv
  <1>3. CASE Initialize
    <2>1. /\ workQ # <<>> /\ Head(workQ).kind = "initialize"
          /\ FillWritePipeline(queues[client'], stream)
      BY <1>3 DEF Initialize, TaskIs
    <2>2. client = None
      BY <1>0, <2>1, PartsOfTypes DEF InitializeIsFirst
    <2>3. stream' = stream
      BY <2>1, FillKeepsOpen
    <2> QED BY <1>0, <2>2, <2>3 DEF StreamInv
  <1>4. CASE HandleCredentialChange \/ ConnectivityChanged
    <2>1. \E q : FillWritePipeline(q, Stop(stream))
      BY <1>4 DEF HandleCredentialChange, ConnectivityChanged, RestartNetwork
    <2> QED BY <1>b, <2>1, FillKeepsOpen
  <1>5. CASE WriteMutations \/ OnWriteStreamMutationResult \/ HandleWriteError
    <2>1. /\ UNCHANGED client
          /\ \E q : \/ FillWritePipeline(q, stream)
                   \/ FillWritePipeline(q, Close(stream, "Initial"))
      BY <1>5 DEF WriteMutations, OnWriteStreamMutationResult, HandleWriteError
    <2>2. stream' = stream
      BY <1>b, <2>1, FillKeepsOpen
    <2> QED BY <1>0, <2>1, <2>2 DEF StreamInv
  <1>6. CASE ResumeStartWithCredentials
    <2>1. /\ workQ # <<>> /\ ~SetsUser(Head(workQ)) /\ UNCHANGED client
          /\ stream' \in {stream, StartIfNeeded(Close(stream, "Error"), pipeline),
                          [stream EXCEPT !.state = "Open", !.user = Head(workQ).user]}
      BY <1>6 DEF ResumeStartWithCredentials, TaskIs, SetsUser, Fail
    <2>2. client \in Accounts /\ Head(workQ).user = client
      BY <1>0, <2>1, HeadRuns
    <2>3. [stream EXCEPT !.state = "Open", !.user = Head(workQ).user].user = client
      BY <1>a, <2>2 DEF StreamType
    <2>4. client # None
      BY <2>2, CredentialsAssumption
    <2>5. stream' = stream => stream'.user = client
      BY <1>0 DEF StreamInv
    <2> QED BY <1>b, <2>1, <2>3, <2>4, <2>5
  <1>7. CASE OnStreamFinish \/ BackoffElapsed \/ IdleTimeout
    BY <1>a, <1>b, <1>7 DEF OnStreamFinish, BackoffElapsed, IdleTimeout, Fail, StreamType
  <1>8. \/ Worker \/ Relaunched \/ UNCHANGED clientVars
    BY DEF CredentialsNext, FIRAuth, LoadUser, AuthTakesRequest, AuthAnswersRequest,
           RefreshToken, ForcedSignOut, Provider, AuthStateDidChange, GetTokenCallback, App, SignedIn,
           SignInFailed, CreateClient, CallWrite, RunCompletion
  <1> QED BY <1>1, <1>2, <1>3, <1>4, <1>5, <1>6, <1>7, <1>8 DEF Worker, clientVars

(* How a step changes the queues of writes. *)
LEMMA QueuesChange ==
  ASSUME CredInv, CredentialsNext
  PROVE  \/ UNCHANGED queues
         \/ /\ client \in Accounts /\ stream.state = "Open"
            /\ queues[client] # <<>>
            /\ queues' = [queues EXCEPT ![client] = Tail(@)]
         \/ /\ client \in Accounts
            /\ queues' = [queues EXCEPT ![client] = Append(@, client)]
  <1>0. /\ CredentialsTypeOK /\ WorkerInv
        /\ queues \in [Accounts -> Seq(Accounts)]
        /\ client \in Accounts \cup {None} /\ pipeline \in 0 .. kMaxPendingWrites
        /\ pipeline > 0 => client # None /\ pipeline <= Len(queues[client])
    BY PartsOfTypes DEF CredInv, ClientTypes
  <1>1. CASE WriteMutations
    <2>1. /\ workQ # <<>> /\ ~SetsUser(Head(workQ))
          /\ queues' = [queues EXCEPT ![client] = Append(@, Head(workQ).user)]
      BY <1>1 DEF WriteMutations, TaskIs, SetsUser
    <2> QED BY <1>0, <2>1, HeadRuns
  <1>2. CASE OnWriteStreamMutationResult \/ HandleWriteError
    <2>1. /\ stream.state = "Open" /\ pipeline > 0
          /\ queues' = [queues EXCEPT ![client] = Tail(@)]
      BY <1>2 DEF OnWriteStreamMutationResult, HandleWriteError
    <2>2. client \in Accounts /\ queues[client] # <<>>
      BY <1>0, <2>1
    <2> QED BY <2>1, <2>2
  <1> QED BY <1>1, <1>2
          DEF CredentialsNext, FIRAuth, LoadUser, AuthTakesRequest, AuthAnswersRequest,
              RefreshToken, ForcedSignOut, Provider, AuthStateDidChange, GetTokenCallback, App, SignedIn,
              SignInFailed, CreateClient, CallWrite, RunCompletion, Relaunched,
              Worker, Initialize, HandleCredentialChange, ResumeStartWithCredentials,
              OnStreamFinish, BackoffElapsed, ConnectivityChanged, IdleTimeout,
              clientVars

LEMMA QueuesStep ==
  ASSUME CredInv, CredentialsNext
  PROVE  QueuesInv'
  <1>0. QueuesInv /\ queues \in [Accounts -> Seq(Accounts)]
    BY PartsOfTypes DEF CredInv, ClientTypes
  <1> SUFFICES ASSUME NEW u \in Accounts, NEW i \in DOMAIN queues'[u]
               PROVE  queues'[u][i] = u
    BY DEF QueuesInv
  <1>1. CASE queues'[u] = queues[u]
    BY <1>0, <1>1 DEF QueuesInv
  <1>2. CASE queues'[u] = Append(queues[u], u)
    <2>1. CASE i \in DOMAIN queues[u]
      BY <1>0, <1>2, <2>1 DEF QueuesInv
    <2>2. CASE i \notin DOMAIN queues[u]
      BY <1>0, <1>2, <2>2
    <2> QED BY <2>1, <2>2
  <1>3. CASE queues[u] # <<>> /\ queues'[u] = Tail(queues[u])
    <2>1. i + 1 \in DOMAIN queues[u] /\ queues'[u][i] = queues[u][i + 1]
      BY <1>0, <1>3
    <2> QED BY <1>0, <2>1 DEF QueuesInv
  <1>4. \/ queues'[u] = queues[u] \/ queues'[u] = Append(queues[u], u)
        \/ queues[u] # <<>> /\ queues'[u] = Tail(queues[u])
    BY <1>0, QueuesChange
  <1> QED BY <1>1, <1>2, <1>3, <1>4

LEMMA LoadedStep ==
  ASSUME CredInv, CredentialsNext
  PROVE  UserIsLoaded'
  <1>0. UserIsLoaded
    BY DEF CredInv
  <1>1. CASE UNCHANGED <<user, loaded>> \/ loaded' = TRUE \/ user' = Nobody
    BY <1>0, <1>1 DEF UserIsLoaded
  <1>2. \/ UNCHANGED <<user, loaded>> \/ loaded' = TRUE \/ user' = Nobody
    BY DEF CredentialsNext, FIRAuth, LoadUser, AuthTakesRequest, AuthAnswersRequest,
           RefreshToken, ForcedSignOut, Provider, AuthStateDidChange, GetTokenCallback, App, SignedIn,
           SignInFailed, CreateClient, CallWrite, RunCompletion, Relaunched, SignOut,
           UpdateCurrentUser, Worker, Initialize, HandleCredentialChange,
           WriteMutations, ResumeStartWithCredentials, OnWriteStreamMutationResult,
           HandleWriteError, OnStreamFinish, BackoffElapsed, ConnectivityChanged,
           IdleTimeout, authVars
  <1> QED BY <1>1, <1>2

---------------------------------------------------------------------------------
(***************************************************************************)
(* Theorems.                                                               *)
(***************************************************************************)

LEMMA CredInvStep == CredInv /\ [CredentialsNext]_credVars => CredInv'
  <1>1. ASSUME CredInv, CredentialsNext
        PROVE  CredInv'
    BY <1>1, TypeStep, NoClientStep, WorkerStep, MainStep, StreamStep, QueuesStep,
       LoadedStep
    DEF CredInv, MainInv
  <1>2. ASSUME CredInv, UNCHANGED credVars
        PROVE  CredInv'
    <2>1. /\ UNCHANGED <<user, saved, loaded, object, autoRefresh, refreshes>>
          /\ UNCHANGED <<mainQ, told, workQ, client, queues>>
          /\ UNCHANGED <<pipeline, stream, requests, faults>>
      BY <1>2 DEF credVars, authVars, clientVars
    <2>2. CredentialsTypeOK' /\ NoClientYet' /\ WorkerInv'
      BY <1>2, <2>1 DEF CredInv, CredentialsTypeOK, NoClientYet, WorkerInv
    <2>3. Announced' /\ CountersInOrder' /\ TokensInv'
      BY <1>2, <2>1 DEF CredInv, Announced, CountersInOrder, TokensInv, Quiet
    <2>4. UserIsLoaded' /\ InitializeIsFirst' /\ QueuesInv' /\ StreamInv'
      BY <1>2, <2>1 DEF CredInv, UserIsLoaded, InitializeIsFirst, QueuesInv, StreamInv
    <2> QED BY <2>2, <2>3, <2>4 DEF CredInv
  <1> QED BY <1>1, <1>2

(* The user is followed rightly from FIRAuth to the stream, whatever the app
   does. *)
THEOREM CredentialsInvariant == CredentialsSpec => []CredInv
  BY InitCredInv, CredInvStep, PTL DEF CredentialsSpec

(* The types hold, and the pipeline never holds a write that the client's own
   queue does not. *)
THEOREM CredentialsTypeCorrect == CredentialsSpec => []CredentialsTypeOK
  <1>1. CredInv => CredentialsTypeOK
    BY DEF CredInv
  <1> QED BY <1>1, CredentialsInvariant, PTL

(* A write leaves its queue only over a stream opened with the token of its
   author, the user the provider named when it was made, also across refreshed
   tokens and forced sign-outs (HandleCredentialChange in sync_engine.cc and
   remote_store.cc). *)
THEOREM WritesAreSentAsAuthor == CredentialsSpec => SentAsAuthor
  <1>1. CredInv /\ [CredentialsNext]_credVars =>
          [\A u \in Accounts :
             Len(queues'[u]) < Len(queues[u]) =>
               /\ stream.state = "Open"
               /\ stream.user = Head(queues[u])]_credVars
    <2> SUFFICES ASSUME CredInv, CredentialsNext, NEW u \in Accounts,
                        Len(queues'[u]) < Len(queues[u])
                 PROVE  stream.state = "Open" /\ stream.user = Head(queues[u])
      OBVIOUS
    <2>1. queues \in [Accounts -> Seq(Accounts)] /\ StreamInv /\ QueuesInv
      BY PartsOfTypes DEF CredInv, ClientTypes
    <2>2. queues'[u] # queues[u]
      BY <2>1
    <2>3. ASSUME client \in Accounts,
                 queues' = [queues EXCEPT ![client] = Append(@, client)]
          PROVE  FALSE
      BY <2>1, <2>2, <2>3
    <2>4. /\ stream.state = "Open" /\ queues[client] # <<>> /\ u = client
      BY <2>1, <2>2, <2>3, QueuesChange
    <2>5. Head(queues[u]) = u
      BY <2>1, <2>4 DEF QueuesInv
    <2> QED BY <2>1, <2>4, <2>5 DEF StreamInv
  <1> QED BY <1>1, CredentialsInvariant, PTL DEF CredentialsSpec, SentAsAuthor

(* A token that is passed on to the client belongs to the user whom the
   provider names (the counter test of firebase_credentials_provider_apple.mm). *)
THEOREM TokensAreOfTheUser == CredentialsSpec => TokenIsOfTheUser
  <1>1. CredInv /\ [CredentialsNext]_credVars =>
          [(/\ Len(workQ') > Len(workQ)
            /\ workQ'[Len(workQ')].kind = "resume")
           => workQ'[Len(workQ')].user = told.user]_credVars
    <2> SUFFICES ASSUME CredInv, CredentialsNext, Len(workQ') > Len(workQ),
                        workQ'[Len(workQ')].kind = "resume"
                 PROVE  workQ'[Len(workQ')].user = told.user
      OBVIOUS
    <2>1. workQ \in Seq(Tasks) /\ workQ' \in Seq(Tasks)
      BY PartsOfTypes, TypeStep DEF CredInv, CredentialsTypeOK
    <2>2. CASE GetTokenCallback
      <3>1. /\ workQ' = Append(workQ, Resume(Head(mainQ).request)) /\ HeadIs("token")
            /\ Head(mainQ).request.counter = told.counter
        BY <2>1, <2>2 DEF GetTokenCallback
      <3>2. workQ'[Len(workQ')] = Resume(Head(mainQ).request)
        BY <2>1, <3>1
      <3> QED BY <3>1, <3>2, TokenPasses DEF Resume
    <2>3. CASE AuthStateDidChange \/ CreateClient \/ CallWrite
      <3>1. \E t : workQ' = Append(workQ, t) /\ t.kind # "resume"
        BY <2>3 DEF AuthStateDidChange, CreateClient, CallWrite
      <3>2. \A t : workQ' = Append(workQ, t) => workQ'[Len(workQ')] = t
        BY <2>1
      <3> QED BY <3>1, <3>2
    <2>4. CASE workQ' = workQ \/ workQ' = <<>> \/ (workQ # <<>> /\ workQ' = Tail(workQ))
      BY <2>1, <2>4
    <2>5. \/ GetTokenCallback \/ AuthStateDidChange \/ CreateClient \/ CallWrite
          \/ workQ' = workQ \/ workQ' = <<>> \/ (workQ # <<>> /\ workQ' = Tail(workQ))
      BY DEF CredentialsNext, FIRAuth, LoadUser, AuthTakesRequest, AuthAnswersRequest,
             RefreshToken, ForcedSignOut, Provider, App, SignedIn, SignInFailed, RunCompletion, Relaunched,
             Worker, Initialize, HandleCredentialChange, WriteMutations,
             ResumeStartWithCredentials, OnWriteStreamMutationResult,
             HandleWriteError, OnStreamFinish, BackoffElapsed, ConnectivityChanged,
             IdleTimeout, TaskIs
    <2> QED BY <2>2, <2>3, <2>4, <2>5
  <1> QED BY <1>1, CredentialsInvariant, PTL DEF CredentialsSpec, TokenIsOfTheUser
---------------------------------------------------------------------------------
(***************************************************************************)
(* A stream waits for one token.                                           *)
(***************************************************************************)

(* A token, or a resumption with one, for life c of the stream is at place i. *)
TokenAt(q, i, c) ==
  /\ i \in DOMAIN q
  /\ q[i].kind = "token" /\ q[i].request.close = c

ResumeAt(w, i, c) ==
  /\ i \in DOMAIN w
  /\ w[i].kind = "resume" /\ w[i].close = c

(* Of the requests R, the main queue q and the worker queue w nothing is for
   life c of the stream, ... *)
NoneFor(R, q, w, c) ==
  /\ \A r \in R : r.close # c
  /\ \A i \in Nat : ~TokenAt(q, i, c)
  /\ \A i \in Nat : ~ResumeAt(w, i, c)

(* ... or there is one thing at most. *)
OneFor(R, q, w, c) ==
  /\ \A r1, r2 \in R : r1.close = c /\ r2.close = c => r1 = r2
  /\ \A i, j \in Nat : TokenAt(q, i, c) /\ TokenAt(q, j, c) => i = j
  /\ \A i, j \in Nat : ResumeAt(w, i, c) /\ ResumeAt(w, j, c) => i = j
  /\ \A r \in R, i \in Nat : ~(r.close = c /\ TokenAt(q, i, c))
  /\ \A r \in R, i \in Nat : ~(r.close = c /\ ResumeAt(w, i, c))
  /\ \A i, j \in Nat : ~(TokenAt(q, i, c) /\ ResumeAt(w, j, c))

(* Nothing is under way for a later life of the stream s, nor for this one
   unless it is starting, and then one thing. *)
Waits(s, R, q, w) ==
  /\ \A c \in Nat : (\/ c > s.close
                     \/ c = s.close /\ s.state # "Starting") => NoneFor(R, q, w, c)
  /\ OneFor(R, q, w, s.close)

StreamWaits == Waits(stream, requests, mainQ, workQ)

LEMMA NoneIsOne ==
  ASSUME NEW R, NEW q, NEW w, NEW c, NoneFor(R, q, w, c)
  PROVE  OneFor(R, q, w, c)
  BY DEF NoneFor, OneFor

(* The stream moves on: to another life, or to another state of one that waits
   for nothing. *)
LEMMA WaitsOn ==
  ASSUME NEW s \in StreamType, NEW t \in StreamType, NEW R, NEW q, NEW w,
         Waits(s, R, q, w),
         \/ t.close > s.close
         \/ t.close = s.close /\ (s.state # "Starting" \/ t.state = "Starting")
  PROVE  Waits(t, R, q, w)
  <1>0. s.close \in Nat /\ t.close \in Nat
    BY DEF StreamType
  <1>1. CASE t.close = s.close /\ t.state = "Starting"
    BY <1>0, <1>1 DEF Waits
  <1>2. CASE t.close > s.close \/ (t.close = s.close /\ s.state # "Starting")
    <2>1. \A c \in Nat : c >= t.close => NoneFor(R, q, w, c)
      BY <1>0, <1>2 DEF Waits
    <2>2. OneFor(R, q, w, t.close)
      BY <1>0, <2>1, NoneIsOne
    <2> QED BY <1>0, <2>1, <2>2 DEF Waits
  <1> QED BY <1>1, <1>2

(* The stream comes to wait, with a request of its own. *)
LEMMA WaitsForRequest ==
  ASSUME NEW s \in StreamType, NEW t \in StreamType, NEW R, NEW q, NEW w, NEW r,
         Waits(s, R, q, w), s.state # "Starting",
         t.close = s.close, t.state = "Starting", r.close = s.close
  PROVE  Waits(t, R \cup {r}, q, w)
  <1>0. s.close \in Nat
    BY DEF StreamType
  <1>1. NoneFor(R, q, w, s.close)
    BY <1>0 DEF Waits
  <1>2. OneFor(R \cup {r}, q, w, s.close)
    BY <1>1 DEF OneFor, NoneFor
  <1>3. ASSUME NEW c \in Nat, c > s.close
        PROVE  NoneFor(R \cup {r}, q, w, c)
    <2>1. NoneFor(R, q, w, c)
      BY <1>3 DEF Waits
    <2>2. r.close # c
      BY <1>0, <1>3
    <2> QED BY <2>1, <2>2 DEF NoneFor
  <1> QED BY <1>0, <1>2, <1>3 DEF Waits

LEMMA WaitsFilled ==
  ASSUME CredentialsTypeOK, NEW s \in StreamType, NEW q \in Seq(Accounts), NEW w,
         Waits(s, requests, mainQ, w), FillWritePipeline(q, s)
  PROVE  Waits(stream', requests', mainQ, w)
  <1>1. stream' = StartIfNeeded(s, Fill(q)) /\ stream' \in StreamType
    BY FillType DEF FillWritePipeline
  <1>2. stream'.close = s.close
    BY <1>1 DEF StartIfNeeded, StreamType
  <1>3. CASE stream'.state = "Starting" /\ s.state # "Starting"
    <2>1. requests' = requests \cup {Request(told.counter, s.close)}
      BY <1>1, <1>3 DEF FillWritePipeline
    <2>2. Request(told.counter, s.close).close = s.close
      BY DEF Request
    <2> QED BY <1>1, <1>2, <1>3, <2>1, <2>2, WaitsForRequest
  <1>4. CASE stream'.state # "Starting" \/ s.state = "Starting"
    <2>1. requests' = requests
      BY <1>1, <1>4 DEF FillWritePipeline
    <2>2. s.state = "Starting" => stream'.state = "Starting"
      BY <1>1 DEF StartIfNeeded, IsStarted
    <2> QED BY <1>1, <1>2, <1>4, <2>1, <2>2, WaitsOn
  <1> QED BY <1>3, <1>4

(* What is under way moves on, without becoming more. *)
LEMMA WaitsMoves ==
  ASSUME NEW s \in StreamType, NEW R, NEW q, NEW w, NEW R2, NEW q2, NEW w2,
         Waits(s, R, q, w),
         \A c \in Nat : /\ NoneFor(R, q, w, c) => NoneFor(R2, q2, w2, c)
                        /\ OneFor(R, q, w, c) => OneFor(R2, q2, w2, c)
  PROVE  Waits(s, R2, q2, w2)
  <1>0. s.close \in Nat
    BY DEF StreamType
  <1> QED BY <1>0 DEF Waits

(* What the queues hold after an Append or a Tail. *)
LEMMA TokensAppended ==
  ASSUME NEW q \in Seq(Blocks), NEW b \in Blocks
  PROVE  /\ Len(q) + 1 \in Nat
         /\ \A i \in Nat, c \in Nat :
              TokenAt(Append(q, b), i, c) <=>
                \/ TokenAt(q, i, c)
                \/ i = Len(q) + 1 /\ b.kind = "token" /\ b.request.close = c
         /\ \A c \in Nat : ~TokenAt(q, Len(q) + 1, c)
  BY DEF TokenAt

LEMMA ResumesAppended ==
  ASSUME NEW w \in Seq(Tasks), NEW t \in Tasks
  PROVE  /\ Len(w) + 1 \in Nat
         /\ \A i \in Nat, c \in Nat :
              ResumeAt(Append(w, t), i, c) <=>
                \/ ResumeAt(w, i, c)
                \/ i = Len(w) + 1 /\ t.kind = "resume" /\ t.close = c
         /\ \A c \in Nat : ~ResumeAt(w, Len(w) + 1, c)
  BY DEF ResumeAt

LEMMA TokensTail ==
  ASSUME NEW q \in Seq(Blocks), q # <<>>
  PROVE  /\ \A i \in Nat, c \in Nat : TokenAt(Tail(q), i, c) => TokenAt(q, i + 1, c)
         /\ \A i \in Nat, c \in Nat : TokenAt(Tail(q), i, c) => i + 1 # 1
         /\ \A c \in Nat :
              TokenAt(q, 1, c) <=> Head(q).kind = "token" /\ Head(q).request.close = c
  <1>1. \A i \in DOMAIN Tail(q) : i + 1 \in DOMAIN q /\ Tail(q)[i] = q[i + 1] /\ i >= 1
    OBVIOUS
  <1>2. 1 \in DOMAIN q /\ q[1] = Head(q)
    OBVIOUS
  <1> QED BY <1>1, <1>2 DEF TokenAt

LEMMA ResumesTail ==
  ASSUME NEW w \in Seq(Tasks), w # <<>>
  PROVE  /\ \A i \in Nat, c \in Nat : ResumeAt(Tail(w), i, c) => ResumeAt(w, i + 1, c)
         /\ \A i \in Nat, c \in Nat : ResumeAt(Tail(w), i, c) => i + 1 # 1
         /\ \A c \in Nat :
              ResumeAt(w, 1, c) <=> Head(w).kind = "resume" /\ Head(w).close = c
  <1>1. \A i \in DOMAIN Tail(w) : i + 1 \in DOMAIN w /\ Tail(w)[i] = w[i + 1] /\ i >= 1
    OBVIOUS
  <1>2. 1 \in DOMAIN w /\ w[1] = Head(w)
    OBVIOUS
  <1> QED BY <1>1, <1>2 DEF ResumeAt

(* Less is under way, or the same at other places. *)
LEMMA WaitsForLess ==
  ASSUME NEW s \in StreamType, NEW R, NEW q, NEW w, NEW q2, NEW w2,
         Waits(s, R, q, w),
         NEW k \in {0, 1}, NEW l \in {0, 1},
         \A i \in Nat, c \in Nat : TokenAt(q2, i, c) => TokenAt(q, i + k, c),
         \A i \in Nat, c \in Nat : ResumeAt(w2, i, c) => ResumeAt(w, i + l, c)
  PROVE  Waits(s, R, q2, w2)
  <1>1. \A i \in Nat : i + k \in Nat /\ i + l \in Nat
    OBVIOUS
  <1>2. \A i, j \in Nat : (i + k = j + k => i = j) /\ (i + l = j + l => i = j)
    OBVIOUS
  <1>3. ASSUME NEW c \in Nat
        PROVE  /\ NoneFor(R, q, w, c) => NoneFor(R, q2, w2, c)
               /\ OneFor(R, q, w, c) => OneFor(R, q2, w2, c)
    <2>1. NoneFor(R, q, w, c) => NoneFor(R, q2, w2, c)
      BY <1>1 DEF NoneFor
    <2>2. OneFor(R, q, w, c) => OneFor(R, q2, w2, c)
      BY <1>1, <1>2 DEF OneFor
    <2> QED BY <2>1, <2>2
  <1> QED BY <1>3, WaitsMoves

(* A block or a task that is not for the stream is put into a queue. *)
LEMMA WaitsForBlock ==
  ASSUME NEW s \in StreamType, NEW R, NEW q \in Seq(Blocks), NEW w,
         Waits(s, R, q, w), NEW b \in Blocks, b.kind # "token"
  PROVE  Waits(s, R, Append(q, b), w)
  <1>1. \A i \in Nat, c \in Nat : TokenAt(Append(q, b), i, c) => TokenAt(q, i + 0, c)
    BY TokensAppended
  <1>2. \A i \in Nat, c \in Nat : ResumeAt(w, i, c) => ResumeAt(w, i + 0, c)
    OBVIOUS
  <1> QED BY <1>1, <1>2, WaitsForLess

LEMMA WaitsForTask ==
  ASSUME NEW s \in StreamType, NEW R, NEW q, NEW w \in Seq(Tasks),
         Waits(s, R, q, w), NEW t \in Tasks, t.kind # "resume"
  PROVE  Waits(s, R, q, Append(w, t))
  <1>1. \A i \in Nat, c \in Nat : ResumeAt(Append(w, t), i, c) => ResumeAt(w, i + 0, c)
    BY ResumesAppended
  <1>2. \A i \in Nat, c \in Nat : TokenAt(q, i, c) => TokenAt(q, i + 0, c)
    OBVIOUS
  <1> QED BY <1>1, <1>2, WaitsForLess

(* The head of a queue is taken out of it. *)
LEMMA WaitsBehindBlock ==
  ASSUME NEW s \in StreamType, NEW R, NEW q \in Seq(Blocks), NEW w,
         Waits(s, R, q, w), q # <<>>
  PROVE  Waits(s, R, Tail(q), w)
  <1>1. \A i \in Nat, c \in Nat : TokenAt(Tail(q), i, c) => TokenAt(q, i + 1, c)
    BY TokensTail
  <1>2. \A i \in Nat, c \in Nat : ResumeAt(w, i, c) => ResumeAt(w, i + 0, c)
    OBVIOUS
  <1> QED BY <1>1, <1>2, WaitsForLess

LEMMA WaitsBehindTask ==
  ASSUME NEW s \in StreamType, NEW R, NEW q, NEW w \in Seq(Tasks),
         Waits(s, R, q, w), w # <<>>
  PROVE  Waits(s, R, q, Tail(w))
  <1>1. \A i \in Nat, c \in Nat : ResumeAt(Tail(w), i, c) => ResumeAt(w, i + 1, c)
    BY ResumesTail
  <1>2. \A i \in Nat, c \in Nat : TokenAt(q, i, c) => TokenAt(q, i + 0, c)
    OBVIOUS
  <1> QED BY <1>1, <1>2, WaitsForLess

(* FIRAuth looks at the user: the request is the same one. *)
LEMMA WaitsForTaken ==
  ASSUME NEW s \in StreamType, NEW R, NEW q, NEW w, Waits(s, R, q, w),
         NEW r \in R, NEW r2, r2.close = r.close
  PROVE  Waits(s, (R \ {r}) \cup {r2}, q, w)
  <1>1. ASSUME NEW c \in Nat
        PROVE  /\ NoneFor(R, q, w, c) => NoneFor((R \ {r}) \cup {r2}, q, w, c)
               /\ OneFor(R, q, w, c) => OneFor((R \ {r}) \cup {r2}, q, w, c)
    BY DEF NoneFor, OneFor
  <1> QED BY <1>1, WaitsMoves

(* The answer to a request is put into the main queue. *)
LEMMA WaitsForAnswer ==
  ASSUME NEW s \in StreamType, NEW R, NEW q \in Seq(Blocks), NEW w,
         Waits(s, R, q, w),
         NEW r \in R, NEW b \in Blocks, b.kind = "token", b.request.close = r.close
  PROVE  Waits(s, R \ {r}, Append(q, b), w)
  <1> DEFINE n == Len(q) + 1
  <1>1. /\ n \in Nat
        /\ \A i \in Nat, c \in Nat :
             TokenAt(Append(q, b), i, c) <=> TokenAt(q, i, c) \/ (i = n /\ r.close = c)
    BY TokensAppended
  <1> HIDE DEF n
  <1>2. ASSUME NEW c \in Nat
        PROVE  /\ NoneFor(R, q, w, c) => NoneFor(R \ {r}, Append(q, b), w, c)
               /\ OneFor(R, q, w, c) => OneFor(R \ {r}, Append(q, b), w, c)
    <2>1. NoneFor(R, q, w, c) => NoneFor(R \ {r}, Append(q, b), w, c)
      BY <1>1 DEF NoneFor
    <2>2. OneFor(R, q, w, c) => OneFor(R \ {r}, Append(q, b), w, c)
      BY <1>1 DEF OneFor
    <2> QED BY <2>1, <2>2
  <1> QED BY <1>2, WaitsMoves

(* A token is asked for again ... *)
LEMMA WaitsForAnother ==
  ASSUME NEW s \in StreamType, NEW R, NEW q \in Seq(Blocks), NEW w,
         Waits(s, R, q, w), q # <<>>, Head(q).kind = "token",
         NEW r, r.close = Head(q).request.close
  PROVE  Waits(s, R \cup {r}, Tail(q), w)
  <1>1. /\ \A i \in Nat, c \in Nat : TokenAt(Tail(q), i, c) => TokenAt(q, i + 1, c)
        /\ \A i \in Nat, c \in Nat : TokenAt(Tail(q), i, c) => i + 1 # 1
        /\ \A c \in Nat : TokenAt(q, 1, c) <=> r.close = c
    BY TokensTail
  <1>2. \A i \in Nat : i + 1 \in Nat /\ 1 \in Nat
    OBVIOUS
  <1>3. \A i, j \in Nat : i + 1 = j + 1 => i = j
    OBVIOUS
  <1>4. ASSUME NEW c \in Nat
        PROVE  /\ NoneFor(R, q, w, c) => NoneFor(R \cup {r}, Tail(q), w, c)
               /\ OneFor(R, q, w, c) => OneFor(R \cup {r}, Tail(q), w, c)
    <2>1. NoneFor(R, q, w, c) => NoneFor(R \cup {r}, Tail(q), w, c)
      BY <1>1, <1>2 DEF NoneFor
    <2>2. OneFor(R, q, w, c) => OneFor(R \cup {r}, Tail(q), w, c)
      BY <1>1, <1>2, <1>3 DEF OneFor
    <2> QED BY <2>1, <2>2
  <1> QED BY <1>4, WaitsMoves

(* ... or passed on to the worker. *)
LEMMA WaitsForResume ==
  ASSUME NEW s \in StreamType, NEW R, NEW q \in Seq(Blocks), NEW w \in Seq(Tasks),
         Waits(s, R, q, w), q # <<>>, Head(q).kind = "token",
         NEW t \in Tasks, t.kind = "resume", t.close = Head(q).request.close
  PROVE  Waits(s, R, Tail(q), Append(w, t))
  <1> DEFINE n == Len(w) + 1
  <1>1. /\ \A i \in Nat, c \in Nat : TokenAt(Tail(q), i, c) => TokenAt(q, i + 1, c)
        /\ \A i \in Nat, c \in Nat : TokenAt(Tail(q), i, c) => i + 1 # 1
        /\ \A c \in Nat : TokenAt(q, 1, c) <=> t.close = c
    BY TokensTail
  <1>2. /\ n \in Nat
        /\ \A i \in Nat, c \in Nat :
             ResumeAt(Append(w, t), i, c) <=> ResumeAt(w, i, c) \/ (i = n /\ t.close = c)
    BY ResumesAppended
  <1> HIDE DEF n
  <1>3. \A i \in Nat : i + 1 \in Nat /\ 1 \in Nat
    OBVIOUS
  <1>4. \A i, j \in Nat : i + 1 = j + 1 => i = j
    OBVIOUS
  <1>5. ASSUME NEW c \in Nat
        PROVE  /\ NoneFor(R, q, w, c) => NoneFor(R, Tail(q), Append(w, t), c)
               /\ OneFor(R, q, w, c) => OneFor(R, Tail(q), Append(w, t), c)
    <2>1. NoneFor(R, q, w, c) => NoneFor(R, Tail(q), Append(w, t), c)
      BY <1>1, <1>2, <1>3 DEF NoneFor
    <2>2. OneFor(R, q, w, c) => OneFor(R, Tail(q), Append(w, t), c)
      BY <1>1, <1>2, <1>3, <1>4 DEF OneFor
    <2> QED BY <2>1, <2>2
  <1> QED BY <1>5, WaitsMoves

(* The task that resumes the stream was all there was for this life of it. *)
LEMMA WaitsNoMore ==
  ASSUME NEW s \in StreamType, NEW R, NEW q, NEW w \in Seq(Tasks),
         Waits(s, R, q, w),
         w # <<>>, Head(w).kind = "resume", Head(w).close = s.close
  PROVE  /\ s.state = "Starting"
         /\ \A t \in StreamType : t.close = s.close => Waits(t, R, q, Tail(w))
  <1>0. s.close \in Nat
    BY DEF StreamType
  <1>1. /\ \A i \in Nat, c \in Nat : ResumeAt(Tail(w), i, c) => ResumeAt(w, i + 1, c)
        /\ \A i \in Nat, c \in Nat : ResumeAt(Tail(w), i, c) => i + 1 # 1
        /\ ResumeAt(w, 1, s.close)
    BY <1>0, ResumesTail
  <1>2. 1 \in Nat /\ \A i \in Nat : i + 1 \in Nat
    OBVIOUS
  <1>3. s.state = "Starting"
    BY <1>0, <1>1, <1>2 DEF Waits, NoneFor
  <1>4. NoneFor(R, q, Tail(w), s.close)
    BY <1>0, <1>1, <1>2 DEF Waits, OneFor, NoneFor
  <1>5. \A c \in Nat : c > s.close => NoneFor(R, q, Tail(w), c)
    BY <1>0, <1>1, <1>2 DEF Waits, NoneFor
  <1>6. OneFor(R, q, Tail(w), s.close)
    BY <1>4, NoneIsOne
  <1>7. ASSUME NEW t \in StreamType, t.close = s.close
        PROVE  Waits(t, R, q, Tail(w))
    BY <1>0, <1>4, <1>5, <1>6, <1>7 DEF Waits
  <1> QED BY <1>3, <1>7

(* The two blocks of a sign-in. *)
LEMMA AppendedTwice ==
  ASSUME NEW q \in Seq(Blocks), NEW a \in Blocks, NEW b \in Blocks
  PROVE  q \o <<a>> \o <<b>> = Append(Append(q, a), b)
  <1>1. q \o <<a>> = Append(q, a)
    OBVIOUS
  <1>2. Append(q, a) \in Seq(Blocks)
    OBVIOUS
  <1>3. \A p \in Seq(Blocks) : p \o <<b>> = Append(p, b)
    OBVIOUS
  <1> QED BY <1>1, <1>2, <1>3, Zenon

(* FIRAuth, and what the app asks of it. *)
LEMMA AuthWaits ==
  ASSUME CredentialsTypeOK, StreamWaits,
         \/ FIRAuth \/ ForcedSignOut \/ SignInFailed \/ (\E u \in Users : SignedIn(u))
         \/ SignOut /\ UNCHANGED <<told, workQ, clientVars, requests, faults>>
  PROVE  StreamWaits'
  <1>0. /\ stream \in StreamType /\ mainQ \in Seq(Blocks) /\ requests \subseteq Requests
        /\ user \in Accounts /\ saved \in Accounts
        /\ Waits(stream, requests, mainQ, workQ)
    BY PartsOfTypes DEF ClientTypes, StreamWaits
  <1>a. stream' = stream /\ workQ' = workQ
    BY DEF FIRAuth, LoadUser, AuthTakesRequest, AuthAnswersRequest, RefreshToken,
           ForcedSignOut, SignInFailed, SignedIn, clientVars
  <1>b. ASSUME Waits(stream, requests', mainQ', workQ)
        PROVE  StreamWaits'
    BY <1>a, <1>b DEF StreamWaits
  <1>c. /\ \A u \in Accounts : Notification(u) \in Blocks /\ Notification(u).kind # "token"
        /\ Completion(TRUE) \in Blocks /\ Completion(TRUE).kind # "token"
        /\ Completion(FALSE) \in Blocks /\ Completion(FALSE).kind # "token"
    BY BlockTypes, BlocksOfKind
  <1>d. ASSUME NEW u \in Accounts
        PROVE  /\ Append(mainQ, Notification(u)) \in Seq(Blocks)
               /\ Waits(stream, requests, Append(mainQ, Notification(u)), workQ)
    BY <1>0, <1>c, WaitsForBlock, AppendType
  <1>1. CASE LoadUser
    <2>1. /\ requests' = requests
          /\ mainQ' = mainQ \/ mainQ' = Append(mainQ, Notification(saved))
      BY <1>1 DEF LoadUser
    <2> QED BY <1>0, <1>b, <1>d, <2>1
  <1>2. CASE AuthTakesRequest
    <2>1. PICK r \in requests :
            \/ /\ mainQ' = Append(mainQ, Token([r EXCEPT !.user = user, !.object = object]))
               /\ requests' = requests \ {r}
            \/ /\ requests' = (requests \ {r})
                               \cup {[r EXCEPT !.user = user, !.object = object]}
               /\ mainQ' = mainQ
      BY <1>2 DEF AuthTakesRequest
    <2> DEFINE taken == [r EXCEPT !.user = user, !.object = object]
    <2>2. taken \in Answered /\ taken.close = r.close
      <3>1. object \in Nat /\ r \in Requests
        BY <1>0, PartsOfTypes
      <3>2. user \in Accounts
        BY <1>0
      <3> QED BY <3>1, <3>2 DEF Requests, Answered
    <2>3. \/ requests' = (requests \ {r}) \cup {taken} /\ mainQ' = mainQ
          \/ requests' = requests \ {r} /\ mainQ' = Append(mainQ, Token(taken))
      BY <2>1
    <2> HIDE DEF taken
    <2>4. /\ Token(taken) \in Blocks /\ Token(taken).kind = "token"
          /\ Token(taken).request.close = r.close
      BY <2>2, TokenFields
    <2>5. /\ Waits(stream, (requests \ {r}) \cup {taken}, mainQ, workQ)
          /\ Waits(stream, requests \ {r}, Append(mainQ, Token(taken)), workQ)
      BY <1>0, <2>2, <2>4, WaitsForTaken, WaitsForAnswer
    <2> QED BY <1>b, <2>3, <2>5
  <1>e. ASSUME NEW r \in requests, r.user # None, NEW u \in Accounts
        PROVE  /\ Waits(stream, requests \ {r}, Append(mainQ, Token(r)), workQ)
               /\ Waits(stream, requests \ {r},
                        mainQ \o <<Notification(u)>> \o <<Token(r)>>, workQ)
    <2>1. r \in Answered
      BY <1>0, <1>e, RequestTypes
    <2>2. /\ Token(r) \in Blocks /\ Token(r).kind = "token"
          /\ Token(r).request.close = r.close
      BY <2>1, TokenFields
    <2>3. Waits(stream, requests \ {r}, Append(mainQ, Token(r)), workQ)
      BY <1>0, <2>2, WaitsForAnswer
    <2>4. Waits(stream, requests \ {r}, Append(Append(mainQ, Notification(u)), Token(r)),
                workQ)
      BY <1>0, <1>d, <2>2, WaitsForAnswer
    <2>5. mainQ \o <<Notification(u)>> \o <<Token(r)>>
            = Append(Append(mainQ, Notification(u)), Token(r))
      BY <1>0, <1>c, <2>2, AppendedTwice, Zenon
    <2> QED BY <2>3, <2>4, <2>5, Zenon
  <1>3. CASE AuthAnswersRequest
    <2>1. PICK r \in requests :
            /\ r.user # None
            /\ requests' = requests \ {r}
            /\ \/ mainQ' = mainQ \o <<Notification(user)>> \o <<Token(r)>>
               \/ mainQ' = Append(mainQ, Token(r))
      BY <1>3 DEF AuthAnswersRequest
    <2> QED BY <1>0, <1>b, <1>e, <2>1, Zenon
  <1>7. CASE RefreshToken
    <2>1. requests' = requests /\ mainQ' = Append(mainQ, Notification(user))
      BY <1>7 DEF RefreshToken
    <2> QED BY <1>0, <1>b, <1>d, <2>1
  <1>8. CASE ForcedSignOut
    <2>1. Nobody \in Accounts
      BY DEF Accounts
    <2>2. CASE /\ mainQ' = mainQ \o <<Notification(Nobody)>> \o <<>>
               /\ requests' = requests
      <3>1. mainQ \o <<Notification(Nobody)>> \o <<>> = Append(mainQ, Notification(Nobody))
        BY <1>0, <1>c, <2>1
      <3> QED BY <1>b, <1>d, <2>1, <2>2, <3>1
    <2>3. ASSUME NEW r \in requests, r.user \in Users,
                 mainQ' = mainQ \o <<Notification(Nobody)>> \o <<Token(r)>>,
                 requests' = requests \ {r}
          PROVE  StreamWaits'
      <3>1. r.user # None
        BY <2>3, CredentialsAssumption DEF Accounts
      <3> QED BY <1>b, <1>e, <2>1, <2>3, <3>1, Zenon
    <2> QED BY <1>8, <2>2, <2>3, ForcedParts, Zenon
  <1>4. CASE \E u \in Users : SignedIn(u)
    <2>1. PICK u \in Users :
            /\ requests' = requests
            /\ mainQ' = mainQ \o <<Notification(u)>> \o <<Completion(TRUE)>>
      BY <1>4 DEF SignedIn, UpdateCurrentUser
    <2>2. u \in Accounts
      BY DEF Accounts
    <2>3. mainQ' = Append(Append(mainQ, Notification(u)), Completion(TRUE))
      <3>1. Notification(u) \in Blocks /\ Completion(TRUE) \in Blocks
        BY <1>c, <2>2
      <3>2. mainQ \o <<Notification(u)>> \o <<Completion(TRUE)>>
              = Append(Append(mainQ, Notification(u)), Completion(TRUE))
        BY <1>0, <3>1, AppendedTwice, Zenon
      <3> QED BY <2>1, <3>2, Zenon
    <2>4. Waits(stream, requests, Append(Append(mainQ, Notification(u)), Completion(TRUE)),
                workQ)
      BY <1>0, <1>c, <1>d, <2>2, WaitsForBlock
    <2> QED BY <1>b, <2>1, <2>3, <2>4
  <1>5. CASE SignInFailed
    <2>1. requests' = requests /\ mainQ' = Append(mainQ, Completion(FALSE))
      BY <1>5 DEF SignInFailed
    <2>2. Waits(stream, requests, Append(mainQ, Completion(FALSE)), workQ)
      BY <1>0, <1>c, WaitsForBlock
    <2> QED BY <1>b, <2>1, <2>2
  <1>6. CASE SignOut /\ UNCHANGED <<told, workQ, clientVars, requests, faults>>
    <2>1. /\ requests' = requests
          /\ mainQ' = mainQ \/ mainQ' = mainQ \o <<Notification(Nobody)>> \o <<>>
      BY <1>6 DEF SignOut, UpdateCurrentUser, authVars
    <2>2. Nobody \in Accounts
      BY DEF Accounts
    <2>3. mainQ \o <<Notification(Nobody)>> \o <<>> = Append(mainQ, Notification(Nobody))
      BY <1>0, <1>c, <2>2
    <2> QED BY <1>0, <1>b, <1>d, <2>1, <2>2, <2>3
  <1> QED BY <1>1, <1>2, <1>3, <1>4, <1>5, <1>6, <1>7, <1>8 DEF FIRAuth

(* The provider, and what the app asks of it. *)
LEMMA ProviderWaits ==
  ASSUME CredentialsTypeOK, StreamWaits,
         Provider \/ CreateClient \/ CallWrite \/ RunCompletion
  PROVE  StreamWaits'
  <1>0. /\ stream \in StreamType /\ mainQ \in Seq(Blocks) /\ workQ \in Seq(Tasks)
        /\ user \in Accounts /\ told.user \in Accounts \cup {None}
        /\ Waits(stream, requests, mainQ, workQ)
    BY PartsOfTypes DEF ClientTypes, StreamWaits
  <1>a. stream' = stream
    BY DEF Provider, AuthStateDidChange, GetTokenCallback, CreateClient, CallWrite,
           RunCompletion, clientVars
  <1>b. ASSUME Waits(stream, requests', mainQ', workQ')
        PROVE  StreamWaits'
    BY <1>a, <1>b DEF StreamWaits
  <1>c. mainQ # <<>> => Waits(stream, requests, Tail(mainQ), workQ)
    BY <1>0, WaitsBehindBlock
  <1>1. CASE AuthStateDidChange
    <2> DEFINE t == [kind |-> "credential", user |-> Head(mainQ).user]
    <2>1. /\ mainQ # <<>> /\ mainQ' = Tail(mainQ) /\ requests' = requests
          /\ workQ' = workQ \/ workQ' = Append(workQ, t)
      BY <1>1 DEF AuthStateDidChange, HeadIs
    <2>2. Head(mainQ).user \in Accounts
      BY <1>0, <1>1, BlockKinds DEF AuthStateDidChange, HeadIs
    <2>3. t \in Tasks /\ t.kind # "resume"
      BY <2>2 DEF Tasks
    <2> HIDE DEF t
    <2>4. Waits(stream, requests, Tail(mainQ), Append(workQ, t))
      BY <1>0, <1>c, <2>1, <2>3, WaitsForTask
    <2> QED BY <1>b, <1>c, <2>1, <2>4
  <1>2. CASE GetTokenCallback
    <2> DEFINE r == Head(mainQ).request
    <2>1. /\ mainQ # <<>> /\ Head(mainQ).kind = "token" /\ mainQ' = Tail(mainQ)
          /\ \/ requests' = requests \cup {Request(told.counter, r.close)} /\ workQ' = workQ
             \/ requests' = requests /\ workQ' = Append(workQ, Resume(r))
      BY <1>2 DEF GetTokenCallback, HeadIs
    <2>2. r \in Answered
      BY <1>0, <2>1, BlockKinds
    <2>3. r.close = Head(mainQ).request.close
      OBVIOUS
    <2> HIDE DEF r
    <2>4. /\ Resume(r) \in Tasks /\ Resume(r).kind = "resume" /\ Resume(r).close = r.close
          /\ Request(told.counter, r.close).close = r.close
      BY <2>2 DEF Resume, Tasks, Answered, Request
    <2>5. Waits(stream, requests \cup {Request(told.counter, r.close)}, Tail(mainQ), workQ)
      BY <1>0, <2>1, <2>3, <2>4, WaitsForAnother
    <2>6. Waits(stream, requests, Tail(mainQ), Append(workQ, Resume(r)))
      BY <1>0, <2>1, <2>3, <2>4, WaitsForResume
    <2> QED BY <1>b, <2>1, <2>5, <2>6
  <1>3. CASE CreateClient \/ CallWrite
    <2>1. PICK t : /\ workQ' = Append(workQ, t) /\ t.kind # "resume" /\ t \in Tasks
                   /\ UNCHANGED <<mainQ, requests>>
      BY <1>0, <1>3 DEF CreateClient, CallWrite, Tasks
    <2>2. Waits(stream, requests, mainQ, Append(workQ, t))
      BY <1>0, <2>1, WaitsForTask
    <2> QED BY <1>b, <2>1, <2>2
  <1>4. CASE RunCompletion
    <2>1. /\ mainQ # <<>> /\ mainQ' = Tail(mainQ)
          /\ UNCHANGED <<workQ, requests>>
      BY <1>4 DEF RunCompletion, HeadIs
    <2> QED BY <1>b, <1>c, <2>1
  <1> QED BY <1>1, <1>2, <1>3, <1>4 DEF Provider

(* What becomes of the stream without a task that resumes it. *)
LEMMA CloseWaits ==
  ASSUME NEW s \in StreamType, NEW n \in Nat, NEW R, NEW q, NEW w, Waits(s, R, q, w)
  PROVE  /\ Waits(Stop(s), R, q, w)
         /\ Waits(Close(s, "Initial"), R, q, w)
         /\ Waits(StartIfNeeded(Close(s, "Error"), n), R, q, w)
  <1>1. /\ Stop(s) \in StreamType /\ Close(s, "Initial") \in StreamType
        /\ StartIfNeeded(Close(s, "Error"), n) \in StreamType
    BY StreamTypes
  <1>2. /\ s.close \in Nat /\ Close(s, "Initial").close > s.close
        /\ StartIfNeeded(Close(s, "Error"), n).close > s.close
    BY DEF StreamType, Close, StartIfNeeded
  <1>3. \/ Stop(s).close > s.close
        \/ Stop(s).close = s.close /\ s.state # "Starting"
    BY DEF StreamType, Stop, Close, IsStarted
  <1> QED BY <1>1, <1>2, <1>3, WaitsOn

(* The worker. *)
LEMMA WorkerWaits ==
  ASSUME CredInv, StreamWaits, Worker
  PROVE  StreamWaits'
  <1>0. /\ CredentialsTypeOK /\ stream \in StreamType /\ workQ \in Seq(Tasks)
        /\ pipeline \in Nat /\ queues \in [Accounts -> Seq(Accounts)]
        /\ client \in Accounts \cup {None}
        /\ pipeline > 0 => client # None
        /\ Waits(stream, requests, mainQ, workQ)
    BY PartsOfTypes, CredentialsAssumption DEF CredInv, ClientTypes, StreamWaits
  <1>a. mainQ' = mainQ
    BY DEF Worker, Initialize, HandleCredentialChange, WriteMutations,
           ResumeStartWithCredentials, OnWriteStreamMutationResult, HandleWriteError,
           OnStreamFinish, BackoffElapsed, ConnectivityChanged, IdleTimeout
  <1>b. ASSUME Waits(stream', requests', mainQ, workQ')
        PROVE  StreamWaits'
    BY <1>a, <1>b DEF StreamWaits
  <1>c. workQ # <<>> => Waits(stream, requests, mainQ, Tail(workQ))
    BY <1>0, WaitsBehindTask
  <1>d. /\ Stop(stream) \in StreamType /\ Close(stream, "Initial") \in StreamType
        /\ StartIfNeeded(Close(stream, "Error"), pipeline) \in StreamType
    BY <1>0, StreamTypes
  <1>1. CASE Initialize
    <2>1. /\ workQ # <<>> /\ workQ' = Tail(workQ) /\ Head(workQ) \in Tasks
          /\ FillWritePipeline(queues[Head(workQ).user], stream)
      BY <1>0, <1>1 DEF Initialize, TaskIs
    <2>2. queues[Head(workQ).user] \in Seq(Accounts)
      BY <1>0, <2>1, TaskKinds
    <2> QED BY <1>0, <1>b, <1>c, <2>1, <2>2, WaitsFilled
  <1>2. CASE HandleCredentialChange
    <2>1. /\ workQ # <<>> /\ workQ' = Tail(workQ) /\ Head(workQ) \in Tasks
          /\ FillWritePipeline(queues[Head(workQ).user], Stop(stream))
      BY <1>0, <1>2 DEF HandleCredentialChange, TaskIs, RestartNetwork
    <2>2. queues[Head(workQ).user] \in Seq(Accounts)
      BY <1>0, <2>1, TaskKinds
    <2>3. Waits(Stop(stream), requests, mainQ, Tail(workQ))
      BY <1>0, <1>c, <2>1, CloseWaits
    <2> QED BY <1>0, <1>b, <1>d, <2>1, <2>2, <2>3, WaitsFilled
  <1>3. CASE WriteMutations
    <2>1. /\ workQ # <<>> /\ workQ' = Tail(workQ)
          /\ FillWritePipeline(queues'[client], stream) /\ client' = client
      BY <1>3 DEF WriteMutations, TaskIs
    <2>2. client \in Accounts /\ queues'[client] \in Seq(Accounts)
      <3>1. ~SetsUser(Head(workQ))
        BY <1>3 DEF WriteMutations, TaskIs, SetsUser
      <3>2. client \in Accounts
        BY <2>1, <3>1, HeadRuns DEF CredInv
      <3>3. queues' \in [Accounts -> Seq(Accounts)]
        BY <1>3, TypeStep, PartsOfTypes DEF CredentialsNext, CredentialsTypeOK
      <3> QED BY <3>2, <3>3
    <2> QED BY <1>0, <1>b, <1>c, <2>1, <2>2, WaitsFilled
  <1>4. CASE ResumeStartWithCredentials
    <2>1. /\ workQ # <<>> /\ workQ' = Tail(workQ) /\ requests' = requests
          /\ Head(workQ).kind = "resume"
      BY <1>4 DEF ResumeStartWithCredentials, TaskIs
    <2>2. CASE stream' = stream
      BY <1>b, <1>c, <2>1, <2>2
    <2>3. CASE stream' = StartIfNeeded(Close(stream, "Error"), pipeline)
      <3>1. Waits(StartIfNeeded(Close(stream, "Error"), pipeline), requests, mainQ,
                  Tail(workQ))
        BY <1>0, <1>c, <2>1, CloseWaits
      <3> QED BY <1>b, <2>1, <2>3, <3>1
    <2>4. CASE /\ Head(workQ).close = stream.close
               /\ stream' = [stream EXCEPT !.state = "Open", !.user = Head(workQ).user]
      <3>1. Head(workQ).user \in Accounts
        BY <1>0, <2>1, TaskKinds
      <3>2. stream' \in StreamType /\ stream'.close = stream.close
        BY <1>0, <2>4, <3>1 DEF StreamType
      <3>3. Waits(stream', requests, mainQ, Tail(workQ))
        BY <1>0, <2>1, <2>4, <3>2, WaitsNoMore
      <3> QED BY <1>b, <2>1, <3>3
    <2>5. \/ stream' = stream
          \/ stream' = StartIfNeeded(Close(stream, "Error"), pipeline)
          \/ /\ Head(workQ).close = stream.close
             /\ stream' = [stream EXCEPT !.state = "Open", !.user = Head(workQ).user]
      BY <1>4 DEF ResumeStartWithCredentials, Fail
    <2> QED BY <2>2, <2>3, <2>4, <2>5
  <1>5. CASE OnWriteStreamMutationResult \/ HandleWriteError
    <2>1. /\ pipeline > 0 /\ workQ' = workQ /\ client' = client
          /\ \/ FillWritePipeline(queues'[client], stream)
             \/ FillWritePipeline(queues'[client], Close(stream, "Initial"))
      BY <1>5 DEF OnWriteStreamMutationResult, HandleWriteError
    <2>2. queues'[client] \in Seq(Accounts)
      <3>1. queues' \in [Accounts -> Seq(Accounts)]
        BY <1>5, TypeStep, PartsOfTypes DEF CredentialsNext, CredentialsTypeOK
      <3> QED BY <1>0, <2>1, <3>1
    <2>3. Waits(Close(stream, "Initial"), requests, mainQ, workQ)
      BY <1>0, CloseWaits
    <2> QED BY <1>0, <1>b, <1>d, <2>1, <2>2, <2>3, WaitsFilled
  <1>6. CASE ConnectivityChanged
    <2>1. /\ client \in Accounts /\ workQ' = workQ
          /\ FillWritePipeline(queues[client], Stop(stream))
      BY <1>0, <1>6 DEF ConnectivityChanged, RestartNetwork
    <2>2. Waits(Stop(stream), requests, mainQ, workQ)
      BY <1>0, CloseWaits
    <2> QED BY <1>0, <1>b, <1>d, <2>1, <2>2, WaitsFilled
  <1>7. CASE OnStreamFinish \/ IdleTimeout
    <2>1. /\ UNCHANGED <<workQ, requests>>
          /\ \/ stream' = Stop(stream)
             \/ stream' = StartIfNeeded(Close(stream, "Error"), pipeline)
      BY <1>7 DEF OnStreamFinish, IdleTimeout, Fail
    <2> QED BY <1>0, <1>b, <2>1, CloseWaits
  <1>8. CASE BackoffElapsed
    <2>1. /\ stream.state = "Backoff" /\ workQ' = workQ
          /\ stream' = [stream EXCEPT !.state = "Starting"]
          /\ requests' = requests \cup {Request(told.counter, stream.close)}
      BY <1>8 DEF BackoffElapsed
    <2>2. /\ stream' \in StreamType /\ stream'.close = stream.close
          /\ stream'.state = "Starting"
          /\ Request(told.counter, stream.close).close = stream.close
      BY <1>0, <2>1 DEF StreamType, Request
    <2>3. Waits(stream', requests \cup {Request(told.counter, stream.close)}, mainQ, workQ)
      BY <1>0, <2>1, <2>2, WaitsForRequest
    <2> QED BY <1>b, <2>1, <2>3
  <1> QED BY <1>1, <1>2, <1>3, <1>4, <1>5, <1>6, <1>7, <1>8 DEF Worker

LEMMA StreamWaitsStep == CredInv /\ StreamWaits /\ [CredentialsNext]_credVars => StreamWaits'
  <1> SUFFICES ASSUME CredInv, StreamWaits, [CredentialsNext]_credVars
               PROVE  StreamWaits'
    OBVIOUS
  <1>1. CASE Relaunched
    BY <1>1 DEF Relaunched, StreamWaits, Waits, NoneFor, OneFor, TokenAt, ResumeAt
  <1>2. CASE UNCHANGED credVars
    BY <1>2 DEF credVars, clientVars, StreamWaits
  <1>3. CASE CredentialsNext
    BY <1>1, <1>3, AuthWaits, ProviderWaits, WorkerWaits DEF CredInv, CredentialsNext, App
  <1> QED BY <1>2, <1>3

(* The assertion of ResumeStartWithCredentials (stream.cc): a token for this
   life of the stream finds it still waiting for one, because there is never a
   second one under way, neither with FIRAuth nor in a queue. *)
THEOREM ResumesFindStarting == CredentialsSpec => []ResumeFindsStarting
  <1>1. CredentialsInit => StreamWaits
    BY DEF CredentialsInit, StreamWaits, Waits, NoneFor, OneFor, TokenAt, ResumeAt
  <1>2. CredentialsSpec => []StreamWaits
    BY <1>1, CredentialsInvariant, StreamWaitsStep, PTL DEF CredentialsSpec
  <1>3. CredInv /\ StreamWaits => ResumeFindsStarting
    <2> SUFFICES ASSUME CredInv, StreamWaits, TaskIs("resume"),
                        Head(workQ).close = stream.close
                 PROVE  stream.state = "Starting"
      BY DEF ResumeFindsStarting
    <2>1. /\ stream \in StreamType /\ workQ \in Seq(Tasks)
          /\ Waits(stream, requests, mainQ, workQ)
      BY PartsOfTypes DEF CredInv, ClientTypes, StreamWaits
    <2> QED BY <2>1, WaitsNoMore DEF TaskIs
  <1> QED BY <1>2, <1>3, CredentialsInvariant, PTL
====================================================================
