-------------------- MODULE EntityConfigurationEndpoint ---------------------
(***************************************************************************)
(* The Entity Configuration endpoint (endpoint/entity_configuration.rs):   *)
(* concurrent requests, one tokio Mutex around the cached configuration, a *)
(* signer that answers late, fails or is slower than the configuration     *)
(* lives, and callers that go away, which drops the handler at an await.   *)
(*                                                                         *)
(* tokio's Mutex is fair: it is granted in the order of the lock() calls.  *)
(* Between the grant and the next await the handler reads the clock and    *)
(* the cache and decides, so that is one step.                             *)
(***************************************************************************)
EXTENDS Integers, Sequences

CONSTANTS
  Requests,   \* the callers
  Settings,   \* the lifetimes and refresh margins an application may choose
  NoConfig,   \* nothing was signed yet
  NoAnswer,   \* the caller has no answer
  Error,      \* the caller was told that the configuration cannot be signed
  NoRequest,  \* nobody holds the lock
  MaxTime     \* bound of the model: the clock stops here

\* A signed configuration, and an answer that holds one.
Config == [iat : Int, exp : Int]

Served == [config : Config, at : Int]

ASSUME EndpointAssumption ==
  /\ NoRequest \notin Requests
  /\ Settings \subseteq [lifetime : Int, margin : Int]
  /\ MaxTime \in Nat
  /\ NoConfig \notin Config
  /\ {NoAnswer, Error} \cap Served = {}

VARIABLES
  now,      \* the clock, in whole seconds
  settings, \* [lifetime, margin] of this endpoint
  cached,   \* the signed configuration the lock protects, or NoConfig
  answer,   \* what each caller was answered last
  waiting,  \* the requests that called lock(), in that order
  holder,   \* the request that holds the lock while it signs
  iat       \* the iat of the configuration being signed

vars == <<now, settings, cached, answer, waiting, holder, iat>>

SettingsOk == settings.lifetime > 0 /\ settings.margin >= 0

\* A configuration answered at time `at`.
Answered(config, at) == [config |-> config, at |-> at]

\* The cached configuration does not expire within the refresh margin.
Fresh == cached # NoConfig /\ now + settings.margin < cached.exp

Waits(r) == \E i \in DOMAIN waiting : waiting[i] = r

Running(r) == Waits(r) \/ holder = r

Init ==
  /\ now = 0
  /\ settings \in Settings
  /\ cached = NoConfig
  /\ answer = [r \in Requests |-> NoAnswer]
  /\ waiting = << >>
  /\ holder = NoRequest
  /\ iat = 0

-----------------------------------------------------------------------------

Tick ==
  /\ now < MaxTime
  /\ now' = now + 1
  /\ UNCHANGED <<settings, cached, answer, waiting, holder, iat>>

\* A request passes the checks of the settings and asks for the lock.
Arrive(r) ==
  /\ ~Running(r)
  /\ SettingsOk
  /\ answer' = [answer EXCEPT ![r] = NoAnswer]
  /\ waiting' = Append(waiting, r)
  /\ UNCHANGED <<now, settings, cached, holder, iat>>

\* With a lifetime under a second or a negative margin every request fails.
Refuse(r) ==
  /\ ~SettingsOk
  /\ answer' = [answer EXCEPT ![r] = Error]
  /\ UNCHANGED <<now, settings, cached, waiting, holder, iat>>

IsNext(r) == holder = NoRequest /\ waiting # << >> /\ Head(waiting) = r

ServeCached(r) ==
  /\ IsNext(r)
  /\ Fresh
  /\ answer' = [answer EXCEPT ![r] = Answered(cached, now)]
  /\ waiting' = Tail(waiting)
  /\ UNCHANGED <<now, settings, cached, holder, iat>>

\* Mistake: a request that waited for the lock does not look at the cache again.
StartSigningUnchecked(r) ==
  /\ IsNext(r)
  /\ waiting' = Tail(waiting)
  /\ holder' = r
  /\ iat' = now
  /\ UNCHANGED <<now, settings, cached, answer>>

\* The request signs and keeps the lock over the signer's await.
StartSigning(r) ==
  /\ IsNext(r)
  /\ ~Fresh
  /\ waiting' = Tail(waiting)
  /\ holder' = r
  /\ iat' = now
  /\ UNCHANGED <<now, settings, cached, answer>>

\* sign verifies its own result: a configuration that expired while it was
\* being signed is an error, like a failure of the signer.
SelfVerifies == now <= iat + settings.lifetime

FinishSigning(r) ==
  /\ holder = r
  /\ SelfVerifies
  /\ cached' = [iat |-> iat, exp |-> iat + settings.lifetime]
  /\ answer' = [answer EXCEPT ![r] = Answered(cached', now)]
  /\ holder' = NoRequest
  /\ UNCHANGED <<now, settings, waiting, iat>>

\* Mistake: a failure of the signer leaves the lock locked.
FailSigningLocked(r) ==
  /\ holder = r
  /\ answer' = [answer EXCEPT ![r] = Error]
  /\ UNCHANGED <<now, settings, cached, waiting, holder, iat>>

FailSigning(r) ==
  /\ holder = r
  /\ answer' = [answer EXCEPT ![r] = Error]
  /\ holder' = NoRequest
  /\ UNCHANGED <<now, settings, cached, waiting, iat>>

\* The caller goes away and its handler is dropped at an await: at lock(), or
\* at the signer, which gives the lock back.
LeaveQueue(r) ==
  /\ \E i \in DOMAIN waiting :
       /\ waiting[i] = r
       /\ waiting' = SubSeq(waiting, 1, i - 1) \o SubSeq(waiting, i + 1, Len(waiting))
  /\ UNCHANGED <<now, settings, cached, answer, holder, iat>>

DropSigning(r) ==
  /\ holder = r
  /\ holder' = NoRequest
  /\ UNCHANGED <<now, settings, cached, answer, waiting, iat>>

Next ==
  \/ Tick
  \/ \E r \in Requests :
       \/ Arrive(r) \/ Refuse(r)
       \/ ServeCached(r) \/ StartSigning(r)
       \/ FinishSigning(r) \/ FailSigning(r)
       \/ LeaveQueue(r) \/ DropSigning(r)

Spec == Init /\ [][Next]_vars

\* The runtime polls a task that was granted the lock, and the signer answers
\* in the end: the endpoint itself sets no timeout.
Fairness ==
  \A r \in Requests :
    /\ WF_vars(ServeCached(r) \/ StartSigning(r))
    /\ WF_vars(FinishSigning(r) \/ FailSigning(r))

FairSpec == Spec /\ Fairness

-----------------------------------------------------------------------------
(* Properties.                                                             *)

\* Every variable has its type.
TypeOK ==
  /\ now \in Nat
  /\ settings \in Settings
  /\ cached \in Config \cup {NoConfig}
  /\ answer \in [Requests -> Served \cup {NoAnswer, Error}]
  /\ waiting \in Seq(Requests)
  /\ holder \in Requests \cup {NoRequest}
  /\ iat \in Int

\* "It never serves an expired configuration", however late the signer answers
\* and however long the request waited for the lock.
NeverServesExpired ==
  \A r \in Requests :
    answer[r] \notin {NoAnswer, Error} => answer[r].at <= answer[r].config.exp

\* "A burst of requests signs once": two callers are answered with different
\* configurations only if the older one was within the refresh margin of its
\* expiry when the newer one was signed.
OneConfigurationAtATime ==
  \A r, q \in Requests :
    /\ answer[r] \notin {NoAnswer, Error}
    /\ answer[q] \notin {NoAnswer, Error}
    /\ answer[r].config.iat < answer[q].config.iat
    => answer[r].config.exp <= answer[q].config.iat + settings.margin

\* The service's callers see the cached configuration as the one signed last.
Service == INSTANCE ConfigurationService WITH latest <- cached

\* The endpoint keeps the promise of ConfigurationService: lock, queue, slow
\* and failing signers and dropped handlers do not show.
ImplementsService == Service!Spec

\* Every request that waits for the lock is answered or given up: no failure,
\* no caller that goes away and no later request keeps it waiting for ever.
NoStarvation == \A r \in Requests : Waits(r) ~> ~Running(r)
=============================================================================
