------------------------ MODULE ConfigurationService ------------------------
(***************************************************************************)
(* What the Entity Configuration endpoint promises its callers, without    *)
(* the lock and the signer behind it: every answer is the configuration    *)
(* signed last, still valid; a new one is signed only when there is none,  *)
(* or when the last one expires within the refresh margin.                 *)
(***************************************************************************)
EXTENDS Integers

CONSTANTS
  Requests,   \* the callers
  Settings,   \* the lifetimes and refresh margins an application may choose
  NoConfig,   \* no configuration was signed yet
  NoAnswer,   \* the caller has no answer
  Error       \* the caller was told that the configuration cannot be signed

VARIABLES
  now,        \* the clock, in whole seconds
  settings,   \* [lifetime, margin] of this endpoint
  latest,     \* the configuration signed last, or NoConfig
  answer      \* what each caller was answered last

vars == <<now, settings, latest, answer>>

SettingsOk == settings.lifetime > 0 /\ settings.margin >= 0

\* A configuration answered at time `at`.
Answered(config, at) == [config |-> config, at |-> at]

\* The latest configuration does not expire within the refresh margin.
Fresh == latest # NoConfig /\ now + settings.margin < latest.exp

Init ==
  /\ now = 0
  /\ settings \in Settings
  /\ latest = NoConfig
  /\ answer = [r \in Requests |-> NoAnswer]

\* Time passes.
Passes == now' = now + 1 /\ UNCHANGED <<settings, latest, answer>>

AnswerLatest(r) ==
  /\ SettingsOk /\ Fresh
  /\ answer' = [answer EXCEPT ![r] = Answered(latest, now)]
  /\ UNCHANGED <<now, settings, latest>>

\* The configuration was signed as of `iat`, at a time the last one was not
\* fresh, and has not expired while it was being signed.
AnswerSigned(r, iat) ==
  /\ SettingsOk
  /\ iat <= now /\ now <= iat + settings.lifetime
  /\ latest # NoConfig => iat + settings.margin >= latest.exp
  /\ latest' = [iat |-> iat, exp |-> iat + settings.lifetime]
  /\ answer' = [answer EXCEPT ![r] = Answered(latest', now)]
  /\ UNCHANGED <<now, settings>>

AnswerError(r) ==
  /\ answer' = [answer EXCEPT ![r] = Error]
  /\ UNCHANGED <<now, settings, latest>>

\* A caller asks again.
Asks(r) ==
  /\ answer' = [answer EXCEPT ![r] = NoAnswer]
  /\ UNCHANGED <<now, settings, latest>>

Next ==
  \/ Passes
  \/ \E r \in Requests :
       \/ AnswerLatest(r) \/ AnswerError(r) \/ Asks(r)
       \/ \E iat \in 0..now : AnswerSigned(r, iat)

Spec == Init /\ [][Next]_vars
=============================================================================
