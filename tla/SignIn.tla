-------------------------------- MODULE SignIn --------------------------------
(***************************************************************************)
(* The session of the web client: AuthProvider, CognitoGate and LoginPage  *)
(* (frontend/src/auth, frontend/src/pages/LoginPage.tsx) with its three    *)
(* forms, which share one submitting flag. The calls to Cognito are        *)
(* answered whenever Cognito likes, whatever form is shown by then. What   *)
(* the user types is left out: any call may be refused.                    *)
(***************************************************************************)
EXTENDS Integers

CONSTANTS
    MaxMishaps,     \* bound on the sessions that expire
    MaxCalls        \* bound on the calls to Cognito in flight

Modes == {"signin", "forgot-send", "forgot-confirm"}
Pages == {"settings", "dashboard"}

VARIABLES
    session,        \* the tokens in the browser: "valid", or "none" of any worth
    mishaps,        \* sessions that have expired
    looked,         \* the token that AuthProvider awaits: "no", "found", "none"
    ready, authed,  \* AuthProvider: ready, isAuthenticated
    route, from,    \* the path, and where the login page goes back to
    mode, submitting,   \* LoginPage
    awaited,        \* calls to Cognito in flight, counted by the form that made
    abandoned       \* them: from the login page that is mounted, and from earlier ones

calls == <<awaited, abandoned>>
login == <<mode, submitting, calls>>
provider == <<looked, ready, authed>>
tab == <<session, provider, route, from, login>>
signInVars == <<tab, mishaps>>

NoCalls == [m \in Modes |-> 0]
Total(count) == count["signin"] + count["forgot-send"] + count["forgot-confirm"]

\* The state of LoginPage when it is mounted.
ClearForm == mode' = "signin" /\ submitting' = FALSE

SignInInit ==
    /\ session \in {"none", "valid"} /\ mishaps = 0
    /\ looked = "no" /\ ready = FALSE /\ authed = FALSE
    /\ route \in Pages \cup {"login"} /\ from = "dashboard"
    /\ mode = "signin" /\ submitting = FALSE
    /\ awaited = NoCalls /\ abandoned = NoCalls

----------------------------------------------------------------------------
(* AuthProvider, CognitoGate and the ways from page to page                *)

\* The effect of AuthProvider: getIdTokenJwt, and what follows its await.
LookUp ==
    /\ ~ready /\ looked = "no"
    /\ looked' = IF session = "valid" THEN "found" ELSE "none"
    /\ UNCHANGED <<session, mishaps, ready, authed, route, from, login>>

Bootstrap ==
    /\ looked # "no" /\ ~ready
    /\ ready' = TRUE /\ authed' = (looked = "found") /\ looked' = "no"
    /\ UNCHANGED <<session, mishaps, route, from, login>>

GateRefuses ==
    /\ ready /\ ~authed /\ route # "login"
    /\ route' = "login" /\ from' = route
    /\ UNCHANGED <<session, mishaps, provider, login>>

\* LoginPage is unmounted: its calls go on.
LeaveForm ==
    /\ ClearForm /\ from' = "dashboard"
    /\ awaited' = NoCalls
    /\ abandoned' = [m \in Modes |-> abandoned[m] + awaited[m]]

Redirect ==
    /\ ready /\ authed /\ route = "login"
    /\ route' = from /\ LeaveForm
    /\ UNCHANGED <<session, mishaps, provider>>

\* The Back button of the browser, on the login page.
BrowserBack(p) ==
    /\ ready /\ ~authed /\ route = "login" /\ p \in Pages
    /\ route' = p /\ LeaveForm
    /\ UNCHANGED <<session, mishaps, provider>>

Navigate(p) ==
    /\ ready /\ authed /\ route \in Pages /\ p \in Pages \ {route}
    /\ route' = p
    /\ UNCHANGED <<session, mishaps, provider, from, login>>

Reload ==
    /\ ready /\ ready' = FALSE /\ authed' = FALSE
    /\ awaited' = NoCalls /\ abandoned' = NoCalls /\ ClearForm
    /\ UNCHANGED <<session, mishaps, looked, route, from>>

\* The refresh token expires: AuthProvider does not learn of it.
Expire ==
    /\ session = "valid" /\ mishaps < MaxMishaps
    /\ session' = "none" /\ mishaps' = mishaps + 1
    /\ UNCHANGED <<provider, route, from, login>>

Logout ==
    /\ ready /\ authed /\ route \in Pages
    /\ session' = "none" /\ authed' = FALSE
    /\ UNCHANGED <<mishaps, looked, ready, route, from, login>>

----------------------------------------------------------------------------
(* LoginPage and its forms                                                 *)

\* Mutant: the form is there before the session has been looked for.
FormShownAtOnce == route = "login" /\ ~authed

FormShown == ready /\ route = "login" /\ ~authed

\* onForgotPassword, goResend.
ToSend ==
    /\ FormShown /\ mode # "forgot-send"
    /\ mode' = "forgot-send"
    /\ UNCHANGED <<session, mishaps, provider, route, from, submitting, calls>>

\* Mutant: the way back to the sign-in form enables its button.
GoSignInEnables ==
    /\ FormShown /\ mode # "signin"
    /\ mode' = "signin" /\ submitting' = FALSE
    /\ UNCHANGED <<session, mishaps, provider, route, from, calls>>

GoSignIn ==
    /\ FormShown /\ mode # "signin"
    /\ mode' = "signin"
    /\ UNCHANGED <<session, mishaps, provider, route, from, submitting, calls>>

\* The three submits, for what the form accepts.
Submit ==
    /\ FormShown /\ ~submitting /\ Total(awaited) + Total(abandoned) < MaxCalls
    /\ submitting' = TRUE
    /\ awaited' = [awaited EXCEPT ![mode] = @ + 1]
    /\ UNCHANGED <<session, mishaps, provider, route, from, mode, abandoned>>

\* What follows the await of a call of form f. If its page is still there the
\* finally enables its buttons, and form m is shown.
Answered(f, m) ==
    \/ /\ awaited[f] > 0 /\ awaited' = [awaited EXCEPT ![f] = @ - 1]
       /\ submitting' = FALSE /\ mode' = m
       /\ UNCHANGED abandoned
    \/ /\ abandoned[f] > 0 /\ abandoned' = [abandoned EXCEPT ![f] = @ - 1]
       /\ UNCHANGED <<awaited, submitting, mode>>

\* login: cognitoSignIn, then getIdTokenJwt, which answers from the tokens in the
\* browser, so that no other event comes in between. A browser that has not kept
\* the new ones has those that it had, and !!token is what they are worth.
SignedIn ==
    /\ Answered("signin", mode)
    /\ session' \in {"valid", session} /\ authed' = (session' = "valid")
    /\ UNCHANGED <<mishaps, looked, ready, route, from>>

CodeSent ==
    /\ Answered("forgot-send", "forgot-confirm")
    /\ UNCHANGED <<session, mishaps, provider, route, from>>

PasswordSet ==
    /\ Answered("forgot-confirm", "signin")
    /\ UNCHANGED <<session, mishaps, provider, route, from>>

Refused(f) ==
    /\ Answered(f, mode)
    /\ UNCHANGED <<session, mishaps, provider, route, from>>

SignInNext ==
    \/ LookUp \/ Bootstrap \/ GateRefuses \/ Redirect \/ Reload \/ Expire \/ Logout
    \/ ToSend \/ GoSignIn \/ Submit \/ SignedIn \/ CodeSent \/ PasswordSet
    \/ \E f \in Modes : Refused(f)
    \/ \E p \in Pages : BrowserBack(p) \/ Navigate(p)

----------------------------------------------------------------------------
SignInTypeOK ==
    /\ session \in {"none", "valid"} /\ mishaps \in 0..MaxMishaps
    /\ looked \in {"no", "found", "none"}
    /\ ready \in BOOLEAN /\ authed \in BOOLEAN /\ submitting \in BOOLEAN
    /\ route \in Pages \cup {"login"} /\ from \in Pages
    /\ mode \in Modes
    /\ awaited \in [Modes -> 0..MaxCalls] /\ abandoned \in [Modes -> 0..MaxCalls]

(* The three forms share one flag and may be left while a call is in       *)
(* flight: still the page that is shown waits for at most one call, and    *)
(* its buttons are disabled exactly as long. The finally of a call whose   *)
(* page was left does not enable them (LoginPage.tsx:370-437).             *)
OneCallAtATime ==
    Total(awaited) = IF submitting THEN 1 ELSE 0

(* Who is signed in and holds a session that is worth a token stays signed *)
(* in until he signs out or loads the page anew: no late answer, neither   *)
(* to the look for a session at the start nor to a call of a form that was *)
(* left, takes it back (AuthProvider.tsx:27-50).                           *)
SignedInStays ==
    [][authed /\ ~authed' => session' # "valid" \/ ~ready']_signInVars
=============================================================================
