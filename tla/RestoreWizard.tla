---------------------------- MODULE RestoreWizard ----------------------------
(***************************************************************************)
(* The settings page behind the gate: RestoreWizard, RestoreStuckBanner    *)
(* and DataBackupSettingsPage (frontend/src/features/backup), with what    *)
(* they see of the restore route (handlers/backupRestore.ts): a lock, a    *)
(* job, and its answers. Leaving the page loses the state of the wizard,   *)
(* but not its requests.                                                   *)
(***************************************************************************)
EXTENDS SignIn      \* mishaps counts steps back and failures of the server, too

CONSTANTS
    Files, Backups,     \* files the user may pick; those with a manifest
    Posts,              \* restore requests that may be in flight at once
    None

\* The page that made a request is shown, was left, or was unloaded.
Senders == {"here", "away", "gone"}
Statuses == {"sent", "anonymous", "running", "200", "400", "401", "409", "500", "504"}

ASSUME NoneAssumption ==
    /\ None \notin Files /\ Backups \subseteq Files
    /\ None \notin [at : Statuses, from : Senders, asShown : BOOLEAN]

VARIABLES
    step, file, manifest,   \* manifest: the file whose summary is shown
    reads,          \* files whose text is awaited by goNextFromStep1
    confirmed,      \* confirmChecked and confirmTyped
    done, banner,   \* the result is shown; stuckBannerOpen
    flag,           \* RESTORE_STUCK_BANNER_STORAGE_KEY in sessionStorage
    post,           \* post[p]: None, or its state, its sender and whether
                    \* its file is the one whose summary was shown
    aborting,       \* None, or the sender and the token of the abort call
    lock, job,      \* RESTORE_LOCK; a restore is at work on the server
    swapped         \* a file was picked while another one was being read

wizard == <<step, file, manifest, reads, confirmed, done, banner>>
requests == <<flag, post, aborting>>
backend == <<lock, job>>
vars == <<signInVars, wizard, requests, backend, swapped>>

Shown == ready /\ authed /\ route = "settings"
Submitting == \E p \in Posts : post[p] # None /\ post[p].from = "here"

WizardInit ==
    /\ step = 1 /\ file = None /\ manifest = None /\ reads = {} /\ confirmed = FALSE
    /\ done = FALSE /\ banner = FALSE /\ flag = FALSE
    /\ post = [p \in Posts |-> None] /\ aborting = None
    /\ lock \in BOOLEAN /\ job = FALSE /\ swapped = FALSE

\* The page is mounted, left, or unloaded.
Fresh(open) ==
    /\ step' = 1 /\ file' = None /\ manifest' = None /\ reads' = {} /\ confirmed' = FALSE
    /\ done' = FALSE /\ banner' = open /\ swapped' = FALSE

Mount == Fresh(flag) /\ UNCHANGED requests

Disown(request, to) ==
    IF request = None \/ request.from = "gone" THEN request ELSE [request EXCEPT !.from = to]

LeavePage(to) ==
    /\ Fresh(FALSE)
    /\ post' = [p \in Posts |-> Disown(post[p], to)]
    /\ aborting' = Disown(aborting, to)
    /\ UNCHANGED flag

----------------------------------------------------------------------------
(* The wizard                                                              *)

\* Mutant: a file may be dropped at any step.
PickAnywhere(f) ==
    /\ Shown /\ ~Submitting /\ ~done /\ f # file
    /\ file' = f /\ swapped' = (swapped \/ reads # {})
    /\ UNCHANGED <<signInVars, step, manifest, reads, confirmed, done, banner, requests, backend>>

Pick(f) ==
    /\ Shown /\ step = 1 /\ ~Submitting /\ ~done /\ f # file
    /\ file' = f /\ swapped' = (swapped \/ reads # {})
    /\ UNCHANGED <<signInVars, step, manifest, reads, confirmed, done, banner, requests, backend>>

\* goNextFromStep1, before and after the await. A second click on the same
\* file before its text is there counts as one.
NextFrom1 ==
    /\ Shown /\ step = 1 /\ ~Submitting /\ ~done /\ file # None /\ file \notin reads
    /\ reads' = reads \cup {file} /\ swapped' = (swapped /\ reads # {})
    /\ UNCHANGED <<signInVars, step, file, manifest, confirmed, done, banner, requests, backend>>

ReadFile(f) ==
    /\ f \in reads
    /\ reads' = reads \ {f}
    /\ IF f \in Backups THEN manifest' = f /\ step' = 2 ELSE UNCHANGED <<manifest, step>>
    /\ UNCHANGED <<signInVars, file, confirmed, done, banner, requests, backend, swapped>>

NextStep ==
    /\ Shown /\ ~Submitting /\ ~done
    /\ \/ step = 2 /\ manifest # None
       \/ step = 3 /\ confirmed /\ file # None
    /\ step' = step + 1
    /\ UNCHANGED <<signInVars, file, manifest, reads, confirmed, done, banner, requests, backend, swapped>>

Confirm ==
    /\ Shown /\ step = 3 /\ ~Submitting /\ ~done /\ ~confirmed
    /\ confirmed' = TRUE
    /\ UNCHANGED <<signInVars, step, file, manifest, reads, done, banner, requests, backend, swapped>>

Unconfirm ==
    /\ Shown /\ step = 3 /\ ~Submitting /\ ~done /\ confirmed /\ mishaps < MaxMishaps
    /\ confirmed' = FALSE /\ mishaps' = mishaps + 1
    /\ UNCHANGED <<tab, step, file, manifest, reads, done, banner, requests, backend, swapped>>

\* From step 2 the manifest is dropped, but never the confirmation.
Back ==
    /\ Shown /\ step > 1 /\ ~Submitting /\ ~done /\ mishaps < MaxMishaps
    /\ step' = step - 1 /\ mishaps' = mishaps + 1
    /\ manifest' = IF step = 2 THEN None ELSE manifest
    /\ UNCHANGED <<tab, file, reads, confirmed, done, banner, requests, backend, swapped>>

\* handleStartRestore, until postBackupRestore is awaited; the request
\* carries the token of now, or none.
Start(p) ==
    /\ Shown /\ step = 4 /\ ~Submitting /\ ~done /\ confirmed /\ file # None /\ post[p] = None
    /\ post' = [post EXCEPT ![p] =
                   [at |-> IF session = "valid" THEN "sent" ELSE "anonymous",
                    from |-> "here", asShown |-> file = manifest \/ swapped]]
    /\ UNCHANGED <<signInVars, wizard, flag, aborting, backend, swapped>>

\* Mutant: only a failure opens the banner.
StuckOn500 == {"500"}

\* Answers after which a lock may have been left behind.
Stuck == {"409", "500"}

\* handleStartRestore, after the await. An unloaded page hears nothing; one
\* that was left sets the flag, but shows nothing.
Answer(p) ==
    /\ post[p] # None /\ post[p].at \in {"200", "400", "401", "409", "500", "504"}
    /\ post' = [post EXCEPT ![p] = None]
    /\ LET here == post[p].from = "here"
           ok == post[p].at = "200"
           stuck == post[p].at \in Stuck
       IN /\ flag' = IF post[p].from = "gone" THEN flag ELSE ~ok /\ (flag \/ stuck)
          /\ banner' = (banner \/ (here /\ stuck))
          /\ done' = (done \/ (here /\ ok))
    /\ UNCHANGED <<signInVars, step, file, manifest, reads, confirmed, aborting, backend, swapped>>

\* resetFlow; a file that is still being read will be heard of.
RestoreAnother ==
    /\ Shown /\ done
    /\ step' = 1 /\ file' = None /\ manifest' = None /\ confirmed' = FALSE /\ done' = FALSE
    /\ swapped' = (reads # {})
    /\ UNCHANGED <<signInVars, reads, banner, requests, backend>>

----------------------------------------------------------------------------
(* The server, as the client sees it                                       *)

Reply(p, status) == post' = [post EXCEPT ![p].at = status]
Fault == mishaps < MaxMishaps /\ mishaps' = mishaps + 1

\* Refused by the gateway or by the validation (400 stands for 403, too).
Reject(p) ==
    /\ post[p] # None
    /\ \/ post[p].at = "anonymous" /\ Reply(p, "401") /\ UNCHANGED mishaps
       \/ post[p].at = "sent" /\ Fault /\ Reply(p, "400")
    /\ UNCHANGED <<tab, wizard, flag, aborting, lock, job, swapped>>

\* A restore that was aborted and is still at work ends before the next one
\* begins: StagedReplace has the two of them side by side.
Accept(p) ==
    /\ post[p] # None /\ post[p].at = "sent"
    /\ \/ lock /\ Reply(p, "409") /\ UNCHANGED <<lock, job>>
       \/ ~lock /\ ~job /\ Reply(p, "running") /\ lock' = TRUE /\ job' = TRUE
    /\ UNCHANGED <<signInVars, wizard, flag, aborting, swapped>>

Told(status) ==
    post' = [p \in Posts |-> IF post[p] # None /\ post[p].at = "running"
                             THEN [post[p] EXCEPT !.at = status] ELSE post[p]]

JobSucceeds ==
    /\ job /\ job' = FALSE /\ lock' = FALSE /\ Told("200")
    /\ UNCHANGED <<signInVars, wizard, flag, aborting, swapped>>

\* The lock is released only before the wipe of primary.
JobFails ==
    /\ job /\ Fault /\ job' = FALSE /\ lock' \in {FALSE, lock} /\ Told("500")
    /\ UNCHANGED <<tab, wizard, flag, aborting, swapped>>

\* The gateway or the network gives up; the job goes on.
GatewayTimeout(p) ==
    /\ post[p] # None /\ post[p].at = "running" /\ Fault
    /\ Reply(p, "504")
    /\ UNCHANGED <<tab, wizard, flag, aborting, lock, job, swapped>>

----------------------------------------------------------------------------
(* RestoreStuckBanner and postBackupRestoreAbortWithRetries                *)

Token == session = "valid"

ClickAbort ==
    /\ Shown /\ banner /\ aborting = None
    /\ aborting' = [from |-> "here", token |-> Token]
    /\ UNCHANGED <<signInVars, wizard, flag, post, backend, swapped>>

\* handleAbortSucceeded, in a page that is still loaded.
AbortDone ==
    /\ aborting # None /\ aborting.token
    /\ lock' = FALSE /\ aborting' = None
    /\ flag' = (flag /\ aborting.from = "gone")
    /\ banner' = (banner /\ aborting.from # "here")
    /\ UNCHANGED <<signInVars, step, file, manifest, reads, confirmed, done, post, job, swapped>>

\* 500: the lock may be gone. It is tried again, with the token of then.
AbortRetries ==
    /\ aborting # None /\ aborting.token /\ Fault /\ lock' \in {FALSE, lock}
    /\ aborting' = IF aborting.from = "gone" THEN None ELSE [aborting EXCEPT !.token = Token]
    /\ UNCHANGED <<tab, wizard, flag, post, job, swapped>>

\* Not signed in, or the attempts are used up.
AbortFails ==
    /\ aborting # None
    /\ \/ ~aborting.token /\ UNCHANGED <<lock, mishaps>>
       \/ aborting.token /\ Fault /\ lock' \in {FALSE, lock}
    /\ aborting' = None
    /\ UNCHANGED <<tab, wizard, flag, post, job, swapped>>

----------------------------------------------------------------------------
SignInStep ==
    /\ SignInNext
    /\ IF ready /\ ~ready' THEN LeavePage("gone")
       ELSE IF Shown /\ ~Shown' THEN LeavePage("away")
       ELSE IF ~Shown /\ Shown' THEN Mount
       ELSE UNCHANGED <<wizard, requests, swapped>>
    /\ UNCHANGED backend

Onward ==
    \/ NextFrom1 /\ file \in Backups
    \/ NextStep \/ Confirm \/ RestoreAnother
    \/ \E p \in Posts : Start(p)

ServerStep ==
    \/ \E p \in Posts : Reject(p) \/ Accept(p) \/ GatewayTimeout(p)
    \/ JobSucceeds \/ JobFails

AbortStep == AbortDone \/ AbortRetries \/ AbortFails

Next ==
    \/ SignInStep \/ NextFrom1 \/ NextStep \/ Confirm \/ RestoreAnother \/ Unconfirm \/ Back
    \/ ServerStep \/ ClickAbort \/ AbortStep
    \/ \E f \in Files : Pick(f) \/ ReadFile(f)
    \/ \E p \in Posts : Start(p) \/ Answer(p)

Init == SignInInit /\ WizardInit

(* What is awaited is answered in the end (reads, requests, and the server *)
(* for its own part). And the user is one who wants a restore: he picks a  *)
(* backup in the end, goes on wherever the page lets him, and clears the   *)
(* lock when the banner is there.                                          *)
Fairness ==
    /\ \A f \in Files : WF_vars(ReadFile(f)) /\ (f \in Backups => WF_vars(Pick(f)))
    /\ \A p \in Posts : WF_vars(Answer(p))
    /\ WF_vars(ServerStep) /\ WF_vars(AbortStep)
    /\ WF_vars(ClickAbort) /\ SF_vars(Onward)

Spec == Init /\ [][Next]_vars /\ Fairness

----------------------------------------------------------------------------
TypeOK ==
    /\ SignInTypeOK
    /\ step \in 1..4 /\ file \in Files \cup {None} /\ manifest \in Backups \cup {None}
    /\ reads \subseteq Files /\ confirmed \in BOOLEAN /\ done \in BOOLEAN /\ banner \in BOOLEAN
    /\ flag \in BOOLEAN /\ lock \in BOOLEAN /\ job \in BOOLEAN /\ swapped \in BOOLEAN
    /\ post \in [Posts -> {None} \cup [at : Statuses, from : Senders, asShown : BOOLEAN]]
    /\ aborting \in {None} \cup [from : Senders, token : BOOLEAN]

(* The file that replaces the whole ledger is the one whose summary was    *)
(* shown and confirmed, however often the user went back, picked another   *)
(* or left the page. The exception the code has is left out: a file picked *)
(* while the text of another one is awaited, whose summary then appears    *)
(* (RestoreWizard.tsx:100-121, 135).                                       *)
RestoresWhatWasShown == \A p \in Posts : post[p] # None => post[p].asShown

(* A lock that a dead restore left behind does not keep a user out who     *)
(* stays on the page and tries again, whatever answers were lost, and      *)
(* wherever the page was left or loaded anew: a 409 opens the banner       *)
(* (RestoreWizard.tsx:155-168, RestoreStuckBanner.tsx:24-42).              *)
StuckLockGetsCleared == lock /\ ~job ~> ~lock \/ ~Shown \/ session # "valid"
=============================================================================
