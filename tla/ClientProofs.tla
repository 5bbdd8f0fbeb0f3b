---------------------------- MODULE ClientProofs ----------------------------
(***************************************************************************)
(* The web client: its session, its restore wizard and its query cache.    *)
(*                                                                         *)
(* For any files, any number of requests and of calls in flight: the page  *)
(* that is shown waits for one call to Cognito at most, nobody but the     *)
(* user takes a valid session back, and the ledger is replaced by the file *)
(* whose summary was shown. Every step of the wizard leaves the session    *)
(* alone, so that the first two are facts about SignInNext.                *)
(*                                                                         *)
(* For any set of queries, pages and requests: nothing from before an      *)
(* import survives while it is under way, and what the client holds when   *)
(* everything is answered is up to date or known to be invalid. The second *)
(* rests on an invariant over the time in between: what is out of date and *)
(* neither invalid nor fetched anew is owed to a request whose answer is   *)
(* still to come, and that answer invalidates it.                          *)
(***************************************************************************)
EXTENDS RestoreWizard, FinanceCache, TLAPS

LEMMA StepOfSession ==
  ASSUME [Next]_vars
  PROVE  SignInNext \/ UNCHANGED tab
BY DEF Next, SignInStep, NextFrom1, NextStep, Confirm, RestoreAnother, Unconfirm, Back, ServerStep,
       Reject, Accept, GatewayTimeout, JobSucceeds, JobFails, ClickAbort, AbortStep, AbortDone,
       AbortRetries, AbortFails, Pick, ReadFile, Start, Answer, signInVars, vars

----------------------------------------------------------------------------
(* The session                                                             *)

SessionType ==
    /\ session \in {"none", "valid"}
    /\ ready \in BOOLEAN /\ authed \in BOOLEAN /\ submitting \in BOOLEAN
    /\ mode \in Modes
    /\ awaited \in [Modes -> Nat] /\ abandoned \in [Modes -> Nat]

\* The form that is shown waits for the call that its page has made, and for
\* none if its buttons are enabled.
WaitsForMine ==
    \/ ~submitting /\ awaited = NoCalls
    \/ submitting /\ \E m \in Modes : awaited = [NoCalls EXCEPT ![m] = 1]

\* Before the session has been looked for, nobody is signed in or about to be.
NobodyYet == ~ready => ~authed /\ awaited = NoCalls /\ abandoned = NoCalls

SessionInv == SessionType /\ WaitsForMine /\ NobodyYet

LEMMA CallAnswered ==
  ASSUME SessionInv, NEW f \in Modes, NEW m \in Modes, Answered(f, m)
  PROVE  /\ WaitsForMine' /\ submitting' \in BOOLEAN /\ mode' \in Modes /\ ready
         /\ awaited' \in [Modes -> Nat] /\ abandoned' \in [Modes -> Nat]
<1> USE DEF SessionInv, SessionType, WaitsForMine, Answered
<1>1. CASE awaited[f] > 0 /\ UNCHANGED abandoned
  <2>1. awaited' = [awaited EXCEPT ![f] = @ - 1] /\ submitting' = FALSE /\ mode' = m
    BY <1>1
  <2>2. PICK n \in Modes : awaited = [NoCalls EXCEPT ![n] = 1]
    BY <1>1 DEF NoCalls
  <2>3. n = f
    BY <1>1, <2>2 DEF NoCalls
  <2>4. awaited' = NoCalls
    BY <2>1, <2>2, <2>3 DEF NoCalls
  <2>5. NoCalls \in [Modes -> Nat] /\ ready
    BY <1>1 DEF NoCalls, NobodyYet
  <2> QED
    BY <1>1, <2>1, <2>4, <2>5
<1>2. CASE abandoned[f] > 0 /\ UNCHANGED <<awaited, submitting, mode>>
  <2>1. ready
    BY <1>2 DEF NobodyYet, NoCalls
  <2>2. abandoned' \in [Modes -> Nat]
    BY <1>2
  <2> QED
    BY <1>2, <2>1, <2>2
<1> QED
  BY <1>1, <1>2

LEMMA FormLeft ==
  ASSUME SessionInv, LeaveForm
  PROVE  WaitsForMine' /\ (UNCHANGED <<session, ready, authed>> => SessionType')
<1>1. WaitsForMine'
  BY DEF LeaveForm, ClearForm, WaitsForMine, NoCalls
<1>2. awaited' \in [Modes -> Nat] /\ abandoned' \in [Modes -> Nat]
  BY DEF LeaveForm, SessionInv, SessionType, NoCalls
<1>3. mode' \in Modes /\ submitting' \in BOOLEAN
  BY DEF LeaveForm, ClearForm, Modes
<1> QED
  BY <1>1, <1>2, <1>3 DEF SessionInv, SessionType

LEMMA SessionInductive ==
  ASSUME SessionInv, SignInNext \/ UNCHANGED tab
  PROVE  SessionInv'
<1> USE DEF SessionInv, SessionType, NobodyYet
<1>1. CASE LookUp \/ GateRefuses \/ (\E p \in Pages : Navigate(p)) \/ Expire \/ Logout
  <2>1. UNCHANGED <<ready, mode, submitting, awaited, abandoned>>
    BY <1>1 DEF LookUp, GateRefuses, Navigate, Expire, Logout, login, provider, calls
  <2>2. session' \in {"none", "valid"} /\ authed' \in {authed, FALSE}
    BY <1>1 DEF LookUp, GateRefuses, Navigate, Expire, Logout, provider
  <2>3. WaitsForMine' /\ SessionType'
    BY <2>1, <2>2 DEF WaitsForMine, NoCalls
  <2>4. NobodyYet'
    BY <2>1, <2>2 DEF NoCalls
  <2> QED
    BY <2>3, <2>4
<1>2. CASE Bootstrap
  BY <1>2 DEF Bootstrap, login, calls, WaitsForMine, NoCalls
<1>3. CASE Redirect
  BY <1>3, FormLeft DEF Redirect, provider
<1>4. ASSUME NEW p \in Pages, BrowserBack(p) PROVE SessionInv'
  BY <1>4, FormLeft DEF BrowserBack, provider
<1>5. CASE Reload
  <2>1. WaitsForMine' /\ NobodyYet'
    BY <1>5 DEF Reload, ClearForm, WaitsForMine, NoCalls
  <2>2. SessionType'
    BY <1>5 DEF Reload, ClearForm, NoCalls, Modes
  <2> QED
    BY <2>1, <2>2
<1>6. CASE ToSend \/ GoSignIn
  BY <1>6 DEF ToSend, GoSignIn, FormShown, provider, calls, WaitsForMine, NoCalls, Modes
<1>7. CASE Submit
  <2>1. awaited = NoCalls /\ ready
    BY <1>7 DEF Submit, FormShown, WaitsForMine
  <2>2. awaited' = [NoCalls EXCEPT ![mode] = 1]
    BY <1>7, <2>1 DEF Submit, NoCalls
  <2>3. UNCHANGED <<session, ready, authed, mode, abandoned>> /\ submitting' = TRUE
    BY <1>7 DEF Submit, provider
  <2>4. WaitsForMine'
    BY <2>2, <2>3 DEF WaitsForMine, NoCalls
  <2>5. awaited' \in [Modes -> Nat]
    BY <2>2 DEF NoCalls
  <2> QED
    BY <2>1, <2>3, <2>4, <2>5
<1>8. ASSUME SignedIn \/ CodeSent \/ PasswordSet \/ \E f \in Modes : Refused(f)
      PROVE  SessionInv'
  <2>1. PICK f \in Modes, m \in Modes : Answered(f, m)
    BY <1>8 DEF SignedIn, CodeSent, PasswordSet, Refused, Modes
  <2>2. session' \in {"none", "valid"} /\ authed' \in BOOLEAN /\ ready' = ready
    BY <1>8 DEF SignedIn, CodeSent, PasswordSet, Refused, provider
  <2> QED
    BY <2>1, <2>2, CallAnswered
<1>9. CASE UNCHANGED tab
  BY <1>9 DEF tab, provider, login, calls, WaitsForMine, NoCalls
<1> QED
  BY <1>1, <1>2, <1>3, <1>4, <1>5, <1>6, <1>7, <1>8, <1>9 DEF SignInNext

LEMMA SessionHolds == Spec => []SessionInv
<1>1. Init => SessionInv
  <2> SUFFICES ASSUME Init PROVE SessionInv
    OBVIOUS
  <2> QED
    BY DEF Init, SignInInit, SessionInv, SessionType, WaitsForMine, NobodyYet, NoCalls, Modes
<1> QED
  BY <1>1, StepOfSession, SessionInductive, PTL DEF Spec

\* The login page waits for one call at most, and its buttons are disabled
\* exactly as long (the three submits of LoginPage.tsx).
THEOREM OneCall == Spec => []OneCallAtATime
<1>1. SessionInv => OneCallAtATime
  <2> SUFFICES ASSUME SessionInv PROVE Total(awaited) = IF submitting THEN 1 ELSE 0
    BY DEF OneCallAtATime
  <2>1. CASE ~submitting
    BY <2>1 DEF SessionInv, WaitsForMine, NoCalls, Total, Modes
  <2>2. CASE submitting
    <3>1. PICK m \in Modes : awaited = [NoCalls EXCEPT ![m] = 1]
      BY <2>2 DEF SessionInv, WaitsForMine
    <3> QED
      BY <2>2, <3>1 DEF NoCalls, Total, Modes
  <2> QED
    BY <2>1, <2>2 DEF SessionInv, SessionType
<1> QED
  BY <1>1, SessionHolds, PTL

\* Who is signed in and holds a session that is worth a token stays signed in
\* until he signs out or loads the page anew (AuthProvider.tsx, LoginPage.tsx).
THEOREM StaysSignedIn == Spec => SignedInStays
<1>1. SessionInv /\ [Next]_vars => [authed /\ ~authed' => session' # "valid" \/ ~ready']_signInVars
  <2> SUFFICES ASSUME SessionInv, [Next]_vars, authed, ~authed'
               PROVE  session' # "valid" \/ ~ready'
    OBVIOUS
  <2>1. SignInNext \/ UNCHANGED tab
    BY StepOfSession
  <2>2. ready
    BY DEF SessionInv, NobodyYet
  <2> QED
    BY <2>1, <2>2 DEF SignInNext, LookUp, Bootstrap, GateRefuses, Redirect, Reload, Expire, Logout, ToSend,
       GoSignIn, Submit, BrowserBack, Navigate, SignedIn, CodeSent, PasswordSet, Refused, provider, tab
<1> QED
  BY <1>1, SessionHolds, PTL DEF Spec, SignedInStays

----------------------------------------------------------------------------
(* The wizard                                                              *)

PostType == post \in [Posts -> {None} \cup [at : Statuses, from : Senders, asShown : BOOLEAN]]

\* What is being read is the file that was picked, and behind the first step
\* the file is the one whose summary is shown, unless it was swapped.
Summarised ==
    /\ \A f \in reads : f = file \/ swapped
    /\ step > 1 => file = manifest \/ swapped

WizardInv == step \in 1..4 /\ swapped \in BOOLEAN /\ PostType /\ Summarised /\ RestoresWhatWasShown

LEMMA PageLeft ==
  ASSUME WizardInv, NEW to \in {"away", "gone"}, LeavePage(to)
  PROVE  WizardInv'
<1> USE DEF WizardInv, LeavePage, Fresh
<1>1. \A p \in Posts :
         /\ post'[p] = Disown(post[p], to)
         /\ post[p] = None <=> post'[p] = None
         /\ post[p] # None => post'[p] \in [at : Statuses, from : Senders, asShown : BOOLEAN]
                              /\ post'[p].asShown = post[p].asShown
  <2> SUFFICES ASSUME NEW p \in Posts
               PROVE  /\ post'[p] = Disown(post[p], to)
                      /\ post[p] = None <=> post'[p] = None
                      /\ post[p] # None => post'[p] \in [at : Statuses, from : Senders, asShown : BOOLEAN]
                                           /\ post'[p].asShown = post[p].asShown
    OBVIOUS
  <2>1. post'[p] = Disown(post[p], to)
    OBVIOUS
  <2>2. CASE post[p] = None
    BY <2>1, <2>2 DEF Disown
  <2>3. CASE post[p] # None
    <3>1. post[p] \in [at : Statuses, from : Senders, asShown : BOOLEAN]
      BY <2>3 DEF PostType
    <3>2. post'[p] \in [at : Statuses, from : Senders, asShown : BOOLEAN]
          /\ post'[p].asShown = post[p].asShown
      BY <2>1, <2>3, <3>1 DEF Disown, Senders
    <3> QED
      BY <2>1, <2>3, <3>2, NoneAssumption
  <2> QED
    BY <2>2, <2>3
<1>2. PostType' /\ RestoresWhatWasShown'
  BY <1>1 DEF PostType, RestoresWhatWasShown
<1>3. Summarised'
  BY DEF Summarised
<1>4. step' \in 1..4
  OBVIOUS
<1>5. swapped' \in BOOLEAN
  <2>1. swapped' = FALSE
    BY DEF LeavePage, Fresh
  <2> QED
    BY ONLY <2>1
<1> QED
  BY <1>2, <1>3, <1>4, <1>5

\* An answer on the way changes the state of a request and nothing else.
LEMMA Replied ==
  ASSUME WizardInv, UNCHANGED <<step, file, manifest, reads, swapped>>,
         NEW S \in SUBSET Posts, NEW status \in Statuses,
         \A p \in S : post[p] # None,
         post' = [p \in Posts |-> IF p \in S THEN [post[p] EXCEPT !.at = status] ELSE post[p]]
  PROVE  WizardInv'
<1> USE DEF WizardInv
<1>1. \A p \in S : /\ post'[p] \in [at : Statuses, from : Senders, asShown : BOOLEAN]
                    /\ post'[p].asShown = post[p].asShown
  BY DEF PostType
<1>2. \A p \in Posts \ S : post'[p] = post[p]
  OBVIOUS
<1>3. PostType'
  BY <1>1, <1>2 DEF PostType
<1>4. RestoresWhatWasShown'
  BY <1>1, <1>2 DEF RestoresWhatWasShown
<1> QED
  BY <1>3, <1>4 DEF Summarised

LEMMA WizardInductive ==
  ASSUME WizardInv, [Next]_vars
  PROVE  WizardInv'
<1> USE DEF WizardInv
<1>1. CASE SignInStep
  <2>1. CASE LeavePage("gone") \/ LeavePage("away")
    BY <2>1, PageLeft
  <2>2. CASE Mount
    <3>1. PostType' /\ RestoresWhatWasShown'
      BY <2>2 DEF Mount, requests, PostType, RestoresWhatWasShown
    <3>2. Summarised'
      BY <2>2 DEF Mount, Fresh, Summarised
    <3>3. step' = 1 /\ swapped' = FALSE
      BY <2>2 DEF Mount, Fresh
    <3>4. step' \in 1..4
      BY <3>3
    <3>5. swapped' \in BOOLEAN
      BY ONLY <3>3
    <3> QED
      BY <3>1, <3>2, <3>4, <3>5
  <2>3. CASE UNCHANGED <<wizard, requests, swapped>>
    BY <2>3 DEF wizard, requests, PostType, Summarised, RestoresWhatWasShown
  <2> QED
    BY <1>1, <2>1, <2>2, <2>3 DEF SignInStep
<1>2. ASSUME NEW f \in Files, Pick(f) PROVE WizardInv'
  <2>1. step' = 1 /\ reads' = reads
    BY <1>2 DEF Pick
  <2>2. reads # {} => swapped'
    BY <1>2 DEF Pick
  <2>3. Summarised' /\ step' \in 1..4
    BY <2>1, <2>2 DEF Summarised
  <2>4. swapped' \in BOOLEAN
    BY <1>2 DEF Pick
  <2>5. PostType' /\ RestoresWhatWasShown'
    BY <1>2 DEF Pick, requests, PostType, RestoresWhatWasShown
  <2> QED
    BY <2>3, <2>4, <2>5
<1>3. CASE NextFrom1
  BY <1>3 DEF NextFrom1, requests, PostType, Summarised, RestoresWhatWasShown
<1>4. ASSUME NEW f \in Files, ReadFile(f) PROVE WizardInv'
  BY <1>4 DEF ReadFile, requests, PostType, Summarised, RestoresWhatWasShown
<1>5. CASE NextStep \/ Confirm \/ Unconfirm
  BY <1>5 DEF NextStep, Confirm, Unconfirm, requests, PostType, Summarised, RestoresWhatWasShown
<1>6. CASE Back
  BY <1>6 DEF Back, requests, PostType, Summarised, RestoresWhatWasShown
<1>7. CASE RestoreAnother
  <2>1. step' = 1 /\ reads' = reads /\ swapped' \in BOOLEAN
    BY <1>7 DEF RestoreAnother
  <2>2. reads # {} => swapped'
    BY <1>7 DEF RestoreAnother
  <2>3. Summarised' /\ step' \in 1..4
    BY <2>1, <2>2 DEF Summarised
  <2>4. PostType' /\ RestoresWhatWasShown'
    BY <1>7 DEF RestoreAnother, requests, PostType, RestoresWhatWasShown
  <2> QED
    BY <2>1, <2>3, <2>4
<1>8. ASSUME NEW p \in Posts, Start(p) PROVE WizardInv'
  <2>1. file = manifest \/ swapped
    BY <1>8 DEF Start, Summarised
  <2>2. post' = [post EXCEPT ![p] = post'[p]] /\ post'[p].asShown
        /\ post'[p] \in [at : Statuses, from : Senders, asShown : BOOLEAN]
    BY <1>8, <2>1 DEF Start, PostType, Statuses, Senders
  <2> QED
    BY <1>8, <2>2 DEF Start, wizard, PostType, Summarised, RestoresWhatWasShown
<1>9. ASSUME NEW p \in Posts, Answer(p) PROVE WizardInv'
  BY <1>9 DEF Answer, PostType, Summarised, RestoresWhatWasShown
<1>10. ASSUME NEW p \in Posts, NEW status \in Statuses, post[p] # None, Reply(p, status),
              UNCHANGED <<wizard, swapped>>
       PROVE  WizardInv'
  <2>1. post' = [q \in Posts |-> IF q \in {p} THEN [post[q] EXCEPT !.at = status] ELSE post[q]]
    BY <1>10 DEF Reply, PostType
  <2>2. UNCHANGED <<step, file, manifest, reads, swapped>>
    BY <1>10 DEF wizard
  <2>3. {p} \in SUBSET Posts /\ \A q \in {p} : post[q] # None
    BY <1>10
  <2> QED
    BY <1>10, <2>1, <2>2, <2>3, Replied
<1>11. ASSUME NEW p \in Posts, Reject(p) \/ Accept(p) \/ GatewayTimeout(p) PROVE WizardInv'
  BY <1>10, <1>11 DEF Reject, Accept, GatewayTimeout, Statuses
<1>12. CASE JobSucceeds \/ JobFails
  <2> DEFINE S == {p \in Posts : post[p] # None /\ post[p].at = "running"}
  <2>1. PICK status \in Statuses : Told(status) /\ UNCHANGED <<wizard, swapped>>
    BY <1>12 DEF JobSucceeds, JobFails, Statuses
  <2>2. post' = [p \in Posts |-> IF p \in S THEN [post[p] EXCEPT !.at = status] ELSE post[p]]
    BY <2>1 DEF Told
  <2>3. UNCHANGED <<step, file, manifest, reads, swapped>>
    BY <2>1 DEF wizard
  <2>4. S \in SUBSET Posts /\ \A p \in S : post[p] # None
    OBVIOUS
  <2> HIDE DEF S
  <2> QED
    BY <2>1, <2>2, <2>3, <2>4, Replied
<1>13. CASE ClickAbort
  BY <1>13 DEF ClickAbort, wizard, PostType, Summarised, RestoresWhatWasShown
<1>14. CASE AbortStep
  BY <1>14 DEF AbortStep, AbortDone, AbortRetries, AbortFails, wizard, PostType, Summarised, RestoresWhatWasShown
<1>15. CASE UNCHANGED vars
  BY <1>15 DEF vars, wizard, requests, PostType, Summarised, RestoresWhatWasShown
<1> QED
  BY <1>1, <1>2, <1>3, <1>4, <1>5, <1>6, <1>7, <1>8, <1>9, <1>11, <1>12, <1>13, <1>14, <1>15
  DEF Next, ServerStep

\* The file that is sent is the one whose summary was shown and confirmed,
\* unless it was picked while another one was being read (goNextFromStep1).
THEOREM ShownIsRestored == Spec => []RestoresWhatWasShown
<1>1. Init => WizardInv
  <2> SUFFICES ASSUME Init PROVE WizardInv
    OBVIOUS
  <2>1. \A p \in Posts : post[p] = None
    BY DEF Init, WizardInit
  <2>2. PostType /\ RestoresWhatWasShown
    BY <2>1 DEF Init, WizardInit, PostType, RestoresWhatWasShown
  <2>3. step = 1 /\ reads = {} /\ swapped = FALSE
    BY DEF Init, WizardInit
  <2>4. Summarised /\ step \in 1..4
    BY <2>3 DEF Summarised
  <2>5. swapped \in BOOLEAN
    BY ONLY <2>3
  <2> QED
    BY <2>2, <2>4, <2>5 DEF WizardInv
<1>2. WizardInv => RestoresWhatWasShown
  BY DEF WizardInv
<1> QED
  BY <1>1, <1>2, WizardInductive, PTL DEF Spec


----------------------------------------------------------------------------
(* The query cache                                                         *)

\* Every query keeps its type, and one that holds data has been answered.
THEOREM CacheTypeCorrect == CacheSpec => []CacheTypeOK
<1> USE DEF CacheTypeOK, Value, Requests
<1>1. CacheInit => CacheTypeOK
  BY DEF CacheInit
<1>2. CacheTypeOK /\ [CacheNext]_cacheVars => CacheTypeOK'
  <2> SUFFICES ASSUME CacheTypeOK, [CacheNext]_cacheVars PROVE CacheTypeOK'
    OBVIOUS
  <2>1. ASSUME NEW k \in Keys, Read(k) PROVE CacheTypeOK'
    BY <2>1 DEF Read
  <2>2. ASSUME NEW k \in Keys, FetchAnswered(k) PROVE CacheTypeOK'
    BY <2>2 DEF FetchAnswered
  <2>3. ASSUME NEW k \in Keys, FetchFails(k) PROVE CacheTypeOK'
    BY <2>3 DEF FetchFails
  <2>4. ASSUME NEW p \in Screens, NEW stale \in SUBSET Keys, Go(p, stale) PROVE CacheTypeOK'
    BY <2>4 DEF Go, Ask
  <2>5. ASSUME NEW r \in Requests, StartImport(r) PROVE CacheTypeOK'
    BY <2>5 DEF StartImport, Send, Neutralize
  <2>6. ASSUME NEW r \in Requests, ConfirmCluster(r) \/ ApplyCurrency(r) \/ StartRestore(r) PROVE CacheTypeOK'
    BY <2>6 DEF ConfirmCluster, ApplyCurrency, StartRestore, Send, cache
  <2>7. ASSUME NEW r \in Requests, ServerWrites(r) PROVE CacheTypeOK'
    BY <2>7, CacheAssumption DEF ServerWrites
  <2>8. ASSUME NEW r \in Requests, ServerEnds(r) PROVE CacheTypeOK'
    BY <2>8 DEF ServerEnds, cache
  <2>9. ASSUME NEW r \in Requests, Succeeds(r) PROVE CacheTypeOK'
    BY <2>9, CacheAssumption DEF Succeeds, Invalidate, Changed
  <2>10. ASSUME NEW r \in Requests, Fails(r) PROVE CacheTypeOK'
    <3>1. CASE r \in Imports
      <4>1. Invalidate(Keys) /\ request' = [request EXCEPT ![r] = "failed"]
            /\ phase' \in {phase, "idle"} /\ UNCHANGED <<page, server, unseen>>
        BY <2>10, <3>1 DEF Fails
      <4> QED
        BY <4>1 DEF Invalidate
    <3>2. CASE r \notin Imports
      BY <2>10, <3>2 DEF Fails, cache
    <3> QED
      BY <3>1, <3>2
  <2>11. CASE UNCHANGED cacheVars
    BY <2>11 DEF cacheVars, cache
  <2> QED
    BY <2>1, <2>2, <2>3, <2>4, <2>5, <2>6, <2>7, <2>8, <2>9, <2>10, <2>11 DEF CacheNext
<1> QED
  BY <1>1, <1>2, PTL DEF CacheSpec

\* While an import is under way, nothing that depends on cluster ids is from
\* before it was sent (neutralizeClusterKeyedCaches, financeQueryCache.ts:20).
THEOREM NothingFromBefore == CacheSpec => []NoneFromBefore
<1> USE DEF CacheTypeOK, NoneFromBefore, Sent, Requests
<1>1. CacheInit => NoneFromBefore
  BY DEF CacheInit
<1>2. CacheTypeOK /\ NoneFromBefore /\ [CacheNext]_cacheVars => NoneFromBefore'
  <2> SUFFICES ASSUME CacheTypeOK, NoneFromBefore, [CacheNext]_cacheVars PROVE NoneFromBefore'
    OBVIOUS
  <2>1. ASSUME NEW k \in Keys, Read(k) \/ FetchAnswered(k) \/ FetchFails(k) PROVE NoneFromBefore'
    BY <2>1 DEF Read, FetchAnswered, FetchFails
  <2>2. ASSUME NEW p \in Screens, NEW stale \in SUBSET Keys, Go(p, stale) PROVE NoneFromBefore'
    BY <2>2 DEF Go
  \* The import page observes none of these queries, so that the reset asks
  \* for none of them, and every fetch of them is cancelled.
  <2>3. ASSUME NEW r \in Requests, StartImport(r) PROVE NoneFromBefore'
    <3> SUFFICES ASSUME NEW k \in Sensitive PROVE k \notin early'
      BY <2>3
    <3>1. k \in Keys /\ k \notin Shows[page]
      BY <2>3, CacheAssumption, ImportPageAssumption DEF StartImport
    <3>2. data'[k] = NoData /\ fetch'[k] = NoData
      BY <2>3, <3>1 DEF StartImport, Neutralize
    <3> QED
      BY <2>3, <3>1, <3>2 DEF StartImport
  <2>4. ASSUME NEW r \in Requests, ConfirmCluster(r) \/ ApplyCurrency(r) \/ StartRestore(r)
        PROVE  NoneFromBefore'
    <3>1. r \notin Imports
      BY <2>4, CacheAssumption DEF ConfirmCluster, ApplyCurrency, StartRestore
    <3>2. Sent(Imports)' \subseteq Sent(Imports) /\ early' = early
      BY <2>4, <3>1 DEF ConfirmCluster, ApplyCurrency, StartRestore, Send
    <3> QED
      BY <3>2
  <2>5. ASSUME NEW r \in Requests, ServerWrites(r) \/ ServerEnds(r) PROVE NoneFromBefore'
    BY <2>5 DEF ServerWrites, ServerEnds
  <2>6. ASSUME NEW r \in Requests, Succeeds(r) \/ Fails(r) PROVE NoneFromBefore'
    <3>1. Sent(Imports)' \subseteq Sent(Imports)
      BY <2>6 DEF Succeeds, Fails
    <3>2. early' \subseteq early
      BY <2>6 DEF Succeeds, Fails, Invalidate
    <3> QED
      BY <3>1, <3>2
  <2>7. CASE UNCHANGED cacheVars
    BY <2>7 DEF cacheVars
  <2> QED
    BY <2>1, <2>2, <2>3, <2>4, <2>5, <2>6, <2>7 DEF CacheNext
<1> QED
  BY <1>1, <1>2, CacheTypeCorrect, PTL DEF CacheSpec

----------------------------------------------------------------------------
\* A request that may have changed k is still to be answered, or a case that
\* SettledIsFresh excepts has come up.
Owed(k) ==
    \/ unseen
    \/ \E r \in Requests \ Imports : request[r] = "failed"
    \/ \E r \in Requests : request[r] = "sent" /\ k \in Writes(r)

UpToDate(k) ==
    /\ fetch[k] # "outdated"
    /\ data[k] = "outdated" /\ fetch[k] = NoData => invalid[k]

FreshOrOwed == \A k \in Keys \ joined : Owed(k) \/ UpToDate(k)

\* What an answer invalidates is being fetched, or its first load is left in
\* flight, or there is nothing of it.
LEMMA Invalidated ==
  ASSUME CacheTypeOK, NEW S, Invalidate(S), NEW k \in Keys \cap S, k \notin joined'
  PROVE  fetch'[k] = "asked" \/ (fetch'[k] = NoData /\ data'[k] # "outdated")
<1>1. CASE ~Disabled(k) /\ (data[k] # NoData \/ fetch[k] = NoData)
  BY <1>1 DEF Invalidate
<1>2. CASE ~(~Disabled(k) /\ (data[k] # NoData \/ fetch[k] = NoData))
  <2>1. fetch'[k] = fetch[k] /\ data'[k] = data[k]
    BY <1>2 DEF Invalidate
  <2>2. fetch[k] = NoData
    BY <1>2 DEF Invalidate
  <2>3. ~fetched[k]
    BY <1>2, <2>2 DEF Disabled
  <2> QED
    BY <2>1, <2>2, <2>3, CacheAssumption DEF CacheTypeOK
<1> QED
  BY <1>1, <1>2

\* What an answer does not invalidate stays as it is.
LEMMA NotInvalidated ==
  ASSUME CacheTypeOK, NEW S, Invalidate(S), NEW k \in Keys \ S
  PROVE  /\ fetch'[k] = fetch[k] /\ data'[k] = data[k] /\ invalid'[k] = invalid[k]
         /\ k \notin joined' => k \notin joined
BY DEF Invalidate, CacheTypeOK

LEMMA FreshInductive ==
  ASSUME CacheTypeOK, FreshOrOwed, [CacheNext]_cacheVars
  PROVE  FreshOrOwed'
<1> SUFFICES ASSUME NEW k \in Keys, k \notin joined'
             PROVE  Owed(k)' \/ UpToDate(k)'
  BY DEF FreshOrOwed
<1>q. k \notin joined => Owed(k) \/ UpToDate(k)
  BY DEF FreshOrOwed
<1> USE CacheAssumption DEF CacheTypeOK, UpToDate, Value
\* What is owed stays so as long as nothing is answered.
<1>o. ASSUME unseen => unseen', \A r \in Requests : request'[r] = request[r] \/ request[r] = "idle"
      PROVE  Owed(k) => Owed(k)'
  BY <1>o DEF Owed, Writes
<1>1. ASSUME NEW q \in Keys, Read(q) \/ FetchAnswered(q) \/ FetchFails(q) PROVE Owed(k)' \/ UpToDate(k)'
  <2>1. Owed(k) => Owed(k)'
    BY <1>1, <1>o DEF Read, FetchAnswered, FetchFails
  <2>2. CASE k = q
    <3>1. CASE Read(q)
      BY <2>2, <3>1 DEF Read
    <3>2. CASE FetchAnswered(q)
      BY <2>1, <2>2, <3>2, <1>q DEF FetchAnswered
    <3>3. CASE FetchFails(q)
      BY <2>2, <3>3 DEF FetchFails
    <3> QED
      BY <1>1, <3>1, <3>2, <3>3
  <2>3. CASE k # q
    BY <1>1, <2>1, <2>3, <1>q DEF Read, FetchAnswered, FetchFails
  <2> QED
    BY <2>2, <2>3
<1>2. ASSUME NEW p \in Screens, NEW stale \in SUBSET Keys, Go(p, stale) PROVE Owed(k)' \/ UpToDate(k)'
  <2>1. Owed(k) => Owed(k)'
    BY <1>2, <1>o DEF Go
  <2>2. fetch'[k] = fetch[k] \/ (fetch[k] = NoData /\ fetch'[k] = "asked")
    BY <1>2 DEF Go, Ask
  <2>3. CASE k \in joined
    BY <1>2, <2>3 DEF Go, Ask
  <2>4. CASE k \notin joined
    BY <1>2, <2>1, <2>2, <2>4, <1>q DEF Go
  <2> QED
    BY <2>3, <2>4
<1>3. ASSUME NEW r \in Requests, StartImport(r) PROVE Owed(k)' \/ UpToDate(k)'
  <2>1. Owed(k) => Owed(k)'
    BY <1>3, <1>o DEF StartImport, Send
  <2>2. CASE k \in Sensitive
    BY <1>3, <2>2 DEF StartImport, Neutralize
  <2>3. CASE k \notin Sensitive
    BY <1>3, <2>1, <2>3, <1>q DEF StartImport, Neutralize
  <2> QED
    BY <2>2, <2>3
<1>4. ASSUME NEW r \in Requests, ConfirmCluster(r) \/ ApplyCurrency(r) \/ StartRestore(r)
      PROVE  Owed(k)' \/ UpToDate(k)'
  <2>1. Owed(k) => Owed(k)'
    BY <1>4, <1>o DEF ConfirmCluster, ApplyCurrency, StartRestore, Send
  <2> QED
    BY <1>4, <2>1, <1>q DEF ConfirmCluster, ApplyCurrency, StartRestore, cache
\* What a request outdates is owed to it, or it was given up.
<1>5. ASSUME NEW r \in Requests, ServerWrites(r) PROVE Owed(k)' \/ UpToDate(k)'
  <2>1. CASE k \in Writes(r)
    BY <1>5, <2>1 DEF ServerWrites, Owed, Writes
  <2>2. CASE k \notin Writes(r)
    <3>1. data'[k] = data[k] /\ fetch'[k] = fetch[k]
      BY <1>5, <2>2 DEF ServerWrites
    <3>2. Owed(k) => Owed(k)'
      BY <1>5, <1>o DEF ServerWrites
    <3> QED
      BY <1>5, <3>1, <3>2, <1>q DEF ServerWrites
  <2> QED
    BY <2>1, <2>2
<1>6. ASSUME NEW r \in Requests, ServerEnds(r) PROVE Owed(k)' \/ UpToDate(k)'
  <2>1. Owed(k) => Owed(k)'
    BY <1>6, <1>o DEF ServerEnds
  <2> QED
    BY <1>6, <2>1, <1>q DEF ServerEnds, cache
\* An answer invalidates all that its request may have changed.
<1>7. ASSUME NEW r \in Requests, NEW S, Invalidate(S), Writes(r) \subseteq S, UNCHANGED unseen,
             request[r] = "sent", \E to : request' = [request EXCEPT ![r] = to]
      PROVE  Owed(k)' \/ UpToDate(k)'
  <2>1. CASE k \in S
    BY <1>7, <2>1, Invalidated
  <2>2. CASE k \notin S
    <3>1. UpToDate(k)' <=> UpToDate(k)
      BY <1>7, <2>2, NotInvalidated
    <3>2. Owed(k) => Owed(k)'
      BY <1>7, <2>2 DEF Owed, Writes
    <3> QED
      BY <1>7, <2>2, <3>1, <3>2, <1>q, NotInvalidated
  <2> QED
    BY <2>1, <2>2
<1>8. ASSUME NEW r \in Requests, Succeeds(r) PROVE Owed(k)' \/ UpToDate(k)'
  <2>1. Writes(r) \subseteq Changed(r)
    BY DEF Writes, Changed
  <2> QED
    BY <1>7, <1>8, <2>1 DEF Succeeds
<1>9. ASSUME NEW r \in Requests, Fails(r) PROVE Owed(k)' \/ UpToDate(k)'
  <2>1. CASE r \in Imports
    BY <1>7, <1>9, <2>1 DEF Fails, Writes
  <2>2. CASE r \notin Imports
    BY <1>9, <2>2 DEF Fails, Owed
  <2> QED
    BY <2>1, <2>2
<1>10. CASE UNCHANGED cacheVars
  <2>1. Owed(k) => Owed(k)'
    BY <1>10, <1>o DEF cacheVars
  <2> QED
    BY <1>10, <2>1, <1>q DEF cacheVars, cache
<1> QED
  BY <1>1, <1>2, <1>3, <1>4, <1>5, <1>6, <1>8, <1>9, <1>10 DEF CacheNext

\* When every request is answered and nothing is being fetched, what the client
\* holds is up to date or known to be invalid, but for the cases that the
\* property names (invalidateFinanceCaches, useTagCluster).
THEOREM FreshWhenSettled == CacheSpec => []SettledIsFresh
<1>1. CacheInit => FreshOrOwed
  BY CacheAssumption DEF CacheInit, FreshOrOwed, UpToDate
<1>2. CacheTypeOK /\ FreshOrOwed => SettledIsFresh
  BY CacheAssumption DEF CacheTypeOK, FreshOrOwed, UpToDate, Owed, SettledIsFresh, Settled, Sent
<1> QED
  BY <1>1, <1>2, FreshInductive, CacheTypeCorrect, PTL DEF CacheSpec
=============================================================================
