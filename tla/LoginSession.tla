---------------------------- MODULE LoginSession ----------------------------
(***************************************************************************)
(* Signing in to the dashboard: LoginPage.tsx and App.tsx in several       *)
(* browsers, the network between, and /auth/login, /auth/logout and the    *)
(* session check of the API behind its in-memory LoginRateLimiter.         *)
(*                                                                         *)
(* Browsers may share an IP (an office behind one address) and so a        *)
(* window. A request can be lost before the API sees it or its answer      *)
(* lost after; the API may restart, which forgets every window, with the   *)
(* same or a new operator key. Keys are model values; time is in ticks.    *)
(***************************************************************************)
EXTENDS Integers, Sequences, FiniteSets

CONSTANTS
    Browsers, Ips,
    IpOf,            \* the address the API sees for a browser (ctx.ip)
    Keys,            \* values an operator may type or deploy
    MaxAttempts,     \* LOGIN_RATE_LIMIT_MAX_ATTEMPTS
    WindowTicks,     \* LOGIN_RATE_LIMIT_WINDOW_MS
    TicksPerSecond,
    MaxTime,         \* bound: no request is sent from this time on
    MaxSent,         \* bound on the requests a browser sends
    MaxFaults        \* bound on lost requests and API restarts

None == "none"

LoginAssumption ==
    /\ IpOf \in [Browsers -> Ips]
    /\ Keys # {} /\ None \notin Keys
    /\ MaxAttempts \in Nat \ {0} /\ WindowTicks \in Nat \ {0} /\ TicksPerSecond \in Nat \ {0}
    /\ MaxTime \in Nat /\ MaxSent \in Nat /\ MaxFaults \in Nat

VARIABLES
    clock,
    serverKey,   \* config.operatorApiKey
    windows,     \* LoginRateLimiter.windows: an entry per Ip that has tried
    page,        \* App's `session` and LoginPage's state, one page per browser
    cookie,      \* the session cookie a browser holds
    wire,        \* the request a browser awaits
    sent,        \* requests sent so far, by browser
    faults,
    tried        \* history: when each Ip's attempts passed the limiter, and whether
                 \* the key was wrong, since the API started

vars == <<clock, serverKey, windows, page, cookie, wire, sent, faults, tried>>
apiVars == <<serverKey, windows, tried>>

Entry == [at : Nat, wrong : BOOLEAN]
Quiet == [kind |-> None, key |-> None, reply |-> None, resetAt |-> 0, retryAfter |-> 0]
NoWindow == [count |-> 0, resetAt |-> 0]
FreshPage == [session |-> "checking", resetAt |-> 0]

Init ==
    /\ clock = 0
    /\ serverKey = CHOOSE key \in Keys : TRUE
    /\ windows = [i \in Ips |-> NoWindow]
    /\ page = [b \in Browsers |-> FreshPage]
    /\ cookie = [b \in Browsers |-> None]
    /\ wire = [b \in Browsers |-> [Quiet EXCEPT !.kind = "session"]]
    /\ sent = [b \in Browsers |-> 0]
    /\ faults = 0
    /\ tried = [i \in Ips |-> <<>>]

-----------------------------------------------------------------------------
(* The limiter.                                                            *)

\* Mutant: the last tick of the window already belongs to the next.
WindowOver_Early(ip) == windows[ip].count = 0 \/ clock + 1 >= windows[ip].resetAt

\* No window, or one whose time is up and that the next attempt replaces.
WindowOver(ip) == windows[ip].count = 0 \/ clock >= windows[ip].resetAt

\* Mutant: the window is never full.
Limited_Never(ip) == FALSE

Limited(ip) == ~WindowOver(ip) /\ windows[ip].count >= MaxAttempts

\* Mutant: every counted attempt also postpones the end of the window.
Counted_Slides(ip) ==
    IF WindowOver(ip) THEN [count |-> 1, resetAt |-> clock + WindowTicks]
    ELSE [count |-> windows[ip].count + 1, resetAt |-> clock + WindowTicks]

\* The window once tryConsume has allowed an attempt.
Counted(ip) ==
    IF WindowOver(ip) THEN [count |-> 1, resetAt |-> clock + WindowTicks]
    ELSE [windows[ip] EXCEPT !.count = @ + 1]

\* Mutant: rounds down, to zero in the last second.
RetryAfter_Floor(resetAt) == (resetAt - clock) \div TicksPerSecond

\* The Retry-After header: whole seconds, rounded up, at least one.
RetryAfter(resetAt) ==
    LET seconds == (resetAt - clock + TicksPerSecond - 1) \div TicksPerSecond
    IN  IF seconds < 1 THEN 1 ELSE seconds

-----------------------------------------------------------------------------
(* The API. A request is served in one step: none of its handlers waits.   *)

Serving(b, kind) == wire[b].kind = kind /\ wire[b].reply = None

ServeLogin(b) ==
    LET ip == IpOf[b]
        wrong == wire[b].key # serverKey
    IN
    /\ Serving(b, "login")
    /\ IF Limited(ip)
       THEN /\ wire' = [wire EXCEPT ![b].reply = "rate_limited",
                                    ![b].resetAt = windows[ip].resetAt,
                                    ![b].retryAfter = RetryAfter(windows[ip].resetAt)]
            /\ UNCHANGED <<windows, tried>>
       ELSE /\ windows' = [windows EXCEPT ![ip] = Counted(ip)]
            /\ tried' = [tried EXCEPT ![ip] = Append(@, [at |-> clock, wrong |-> wrong])]
            /\ wire' = [wire EXCEPT ![b].reply = IF wrong THEN "unauthorized" ELSE "ok"]
    /\ UNCHANGED <<clock, serverKey, page, cookie, sent, faults>>

\* createOperatorAuthMiddleware for a request without a bearer token: the
\* cookie carries the operator key itself and is compared with it.
CookieValid(b) == cookie[b] = serverKey

ServeSession(b) ==
    /\ Serving(b, "session")
    /\ wire' = [wire EXCEPT ![b].reply = IF CookieValid(b) THEN "ok" ELSE "unauthorized"]
    /\ UNCHANGED <<clock, page, cookie, sent, faults>> /\ UNCHANGED apiVars

ServeLogout(b) ==
    /\ Serving(b, "logout")
    /\ wire' = [wire EXCEPT ![b].reply = "ok"]
    /\ UNCHANGED <<clock, page, cookie, sent, faults>> /\ UNCHANGED apiVars

Restart ==
    /\ faults < MaxFaults
    /\ faults' = faults + 1
    /\ serverKey' \in Keys
    /\ windows' = [i \in Ips |-> NoWindow]
    /\ tried' = [i \in Ips |-> <<>>]
    /\ UNCHANGED <<clock, page, cookie, wire, sent>>

\* The request, or the answer to it, is lost: fetch rejects.
Lose(b) ==
    /\ faults < MaxFaults
    /\ wire[b].kind # None /\ wire[b].reply # "failed"
    /\ faults' = faults + 1
    /\ wire' = [wire EXCEPT ![b].reply = "failed"]
    /\ UNCHANGED <<clock, page, cookie, sent>> /\ UNCHANGED apiVars

-----------------------------------------------------------------------------
(* The page. A browser's clock is the API's here.                          *)

\* Mutant: the page takes a cooldown in whole seconds from now, rounded up.
CooldownEnd_Rounded(b) == clock + wire[b].retryAfter * TicksPerSecond

CooldownEnd(b) == wire[b].resetAt

CoolingDown(b) == page[b].resetAt > clock

\* Mutant: the guard left to the button, which is live for another 250 ms.
Submitting_Unguarded(b) == FALSE

\* handleSubmit's own `if (submitting) return`.
Submitting(b) == wire[b].kind = "login"

MaySend(b) == sent[b] < MaxSent /\ clock < MaxTime

Send(b, kind, key) ==
    /\ MaySend(b)
    /\ wire' = [wire EXCEPT ![b] = [Quiet EXCEPT !.kind = kind, !.key = key]]
    /\ sent' = [sent EXCEPT ![b] = @ + 1]

\* Whatever key is in the field, it is sent unless it is empty. The button is
\* disabled during a cooldown.
Submit(b) ==
    /\ page[b].session = "loggedOut"
    /\ ~CoolingDown(b)
    /\ ~Submitting(b)
    /\ \E key \in Keys : Send(b, "login", key)
    /\ UNCHANGED <<clock, page, cookie, faults>> /\ UNCHANGED apiVars

\* Set-Cookie takes effect with the answer; then handleSubmit goes on.
LoginAnswered(b) ==
    /\ wire[b].kind = "login" /\ wire[b].reply # None
    /\ CASE wire[b].reply = "ok" ->
              /\ page' = [page EXCEPT ![b].session = "loggedIn"]
              /\ cookie' = [cookie EXCEPT ![b] = wire[b].key]
         [] wire[b].reply = "rate_limited" ->
              /\ page' = [page EXCEPT ![b].resetAt = CooldownEnd(b)]
              /\ UNCHANGED cookie
         [] OTHER -> UNCHANGED <<page, cookie>>
    /\ wire' = [wire EXCEPT ![b] = Quiet]
    /\ UNCHANGED <<clock, sent, faults>> /\ UNCHANGED apiVars

\* Mutant: waits for the countdown to go below the zero it stops at.
CountdownDone_Below(b) == FALSE

CountdownDone(b) == page[b].resetAt # 0 /\ ~CoolingDown(b)

\* The effect that clears a cooldown the countdown has brought to zero.
CooldownCleared(b) ==
    /\ CountdownDone(b)
    /\ page' = [page EXCEPT ![b].resetAt = 0]
    /\ UNCHANGED <<clock, cookie, wire, sent, faults>> /\ UNCHANGED apiVars

SessionChecked(b) ==
    /\ wire[b].kind = "session" /\ wire[b].reply # None
    /\ page' = [page EXCEPT ![b].session =
                  IF wire[b].reply = "ok" THEN "loggedIn" ELSE "loggedOut"]
    /\ wire' = [wire EXCEPT ![b] = Quiet]
    /\ UNCHANGED <<clock, cookie, sent, faults>> /\ UNCHANGED apiVars

SignOut(b) ==
    /\ page[b].session = "loggedIn"
    /\ wire[b].kind = None
    /\ Send(b, "logout", None)
    /\ UNCHANGED <<clock, page, cookie, faults>> /\ UNCHANGED apiVars

\* Mutant: the cookie is cleared under another path.
ClearsCookie_OtherPath(b) == FALSE

ClearsCookie(b) == wire[b].reply = "ok"

\* handleLogout: whatever became of the request, the page is logged out. The
\* cookie goes only with an answer. LoginPage is mounted afresh.
SignedOut(b) ==
    /\ wire[b].kind = "logout" /\ wire[b].reply # None
    /\ page' = [page EXCEPT ![b] = [FreshPage EXCEPT !.session = "loggedOut"]]
    /\ cookie' = [cookie EXCEPT ![b] = IF ClearsCookie(b) THEN None ELSE @]
    /\ wire' = [wire EXCEPT ![b] = Quiet]
    /\ UNCHANGED <<clock, sent, faults>> /\ UNCHANGED apiVars

\* The page is loaded again and asks for its session; an answer under way to
\* the old page is dropped, with its cookie.
Reload(b) ==
    /\ Send(b, "session", None)
    /\ ~(wire[b].kind # None /\ wire[b].reply = None)
    /\ page' = [page EXCEPT ![b] = FreshPage]
    /\ UNCHANGED <<clock, cookie, faults>> /\ UNCHANGED apiVars

-----------------------------------------------------------------------------
Tick ==
    /\ clock < MaxTime \/ \E b \in Browsers : CoolingDown(b)
    /\ clock' = clock + 1
    /\ UNCHANGED <<page, cookie, wire, sent, faults>> /\ UNCHANGED apiVars

Serve(b) == ServeLogin(b) \/ ServeSession(b) \/ ServeLogout(b)
Answered(b) == LoginAnswered(b) \/ SessionChecked(b) \/ SignedOut(b)
Operate(b) == Submit(b) \/ SignOut(b) \/ Reload(b)

Next ==
    \/ Tick \/ Restart
    \/ \E b \in Browsers : Serve(b) \/ Lose(b) \/ Answered(b) \/ Operate(b) \/ CooldownCleared(b)

Spec == Init /\ [][Next]_vars

\* Time passes, the event loops run; operators, losses and restarts owe nothing.
Fairness ==
    /\ WF_vars(Tick)
    /\ \A b \in Browsers : WF_vars(Serve(b)) /\ WF_vars(Answered(b)) /\ WF_vars(CooldownCleared(b))

FairSpec == Spec /\ Fairness
-----------------------------------------------------------------------------
(* Properties.                                                             *)

TypeOK ==
    /\ clock \in Nat
    /\ serverKey \in Keys
    /\ windows \in [Ips -> [count : 0..MaxAttempts, resetAt : Nat]]
    /\ page \in [Browsers -> [session : {"checking", "loggedOut", "loggedIn"},
                              resetAt : Nat]]
    /\ cookie \in [Browsers -> Keys \cup {None}]
    /\ wire \in [Browsers -> [kind : {None, "session", "login", "logout"}, key : Keys \cup {None},
                              reply : {None, "ok", "unauthorized", "rate_limited", "failed"},
                              resetAt : Nat, retryAfter : Nat]]
    /\ sent \in [Browsers -> 0..MaxSent]
    /\ faults \in 0..MaxFaults
    /\ tried \in [Ips -> Seq(Entry)]

\* Attempts of an Ip that reached the key comparison within a window's length
\* from `from` on.
TriedFrom(ip, from) ==
    {i \in DOMAIN tried[ip] : tried[ip][i].at >= from /\ tried[ip][i].at < from + WindowTicks}

\* However the attempts of all browsers behind an Ip fall around the end of a
\* window, fewer than twice MaxAttempts are judged in any stretch of the
\* window's length.
BurstBounded ==
    \A ip \in Ips : \A i \in DOMAIN tried[ip] : Cardinality(TriedFrom(ip, tried[ip][i].at)) < 2 * MaxAttempts

RefusedForCauseStep ==
    \A b \in Browsers : wire[b].reply = None /\ wire'[b].reply = "rate_limited" =>
       Cardinality(TriedFrom(IpOf[b], clock - WindowTicks + 1)) >= MaxAttempts

\* A browser is told to wait only when MaxAttempts attempts of its own Ip were
\* judged within the window's length before.
RefusedForCause == [][RefusedForCauseStep]_vars

\* A page that waits does so for the limiter's own full window and not a tick
\* longer, as long as nothing was lost and the API not restarted.
PageAgreesWithLimiter ==
    faults = 0 => \A b \in Browsers : CoolingDown(b) =>
        windows[IpOf[b]].resetAt = page[b].resetAt /\ Limited(IpOf[b])

WaitSufficesStep ==
    \A b \in Browsers : wire[b].reply = None /\ wire'[b].reply = "rate_limited" =>
       clock + wire'[b].retryAfter * TicksPerSecond >= wire'[b].resetAt

\* Who waits the seconds of Retry-After finds the refusing window over.
WaitSuffices == [][WaitSufficesStep]_vars

OnePressOneAttemptStep ==
    \A b \in Browsers : wire[b].kind = "login" /\ wire'[b].kind = "login" =>
       sent'[b] = sent[b]

\* One press of the button is one attempt: a browser never has a second login
\* under way, so that the attempts it uses up are those it knows of.
OnePressOneAttempt == [][OnePressOneAttemptStep]_vars

\* While nothing is lost and the API not restarted, what a page shows agrees
\* with what its next request may do: the dashboard is shown over a cookie
\* that works, the login form over none.
PageMatchesCookie ==
    faults = 0 => \A b \in Browsers :
        /\ page[b].session = "loggedIn" => CookieValid(b)
        /\ page[b].session = "loggedOut" => ~CookieValid(b)

\* A cooldown ends by itself: nobody has to submit or reload.
CooldownEnds ==
    \A b \in Browsers : page[b].resetAt # 0 ~> page[b].resetAt = 0
=============================================================================
