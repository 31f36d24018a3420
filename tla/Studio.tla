------------------------------- MODULE Studio -------------------------------
(***************************************************************************)
(* The customer's page over the order desk (apps/web/app/page.tsx) and the *)
(* session it works under.  A browser's tabs share one cookie jar and one  *)
(* session row.  Every GET /auth/me overwrites the row's CSRF hash when it *)
(* is served and the jar's CSRF cookie when its answer arrives, so the two *)
(* agree only while no answer is on its way.                               *)
(*                                                                         *)
(* A request is sent, served and answered in steps of their own: tab.me is *)
(* the page's own /auth/me, tab.poll its question about the order, write   *)
(* the answers it submits, other the /auth/me of another tab.              *)
(* CSRF tokens are numbered in the order the service mints them.           *)
(***************************************************************************)
EXTENDS OrderDesk

CONSTANT MaxTokens         \* bound: tokens minted for one browser, by how the service is used

VARIABLES server,          \* the sessions row: live or not, and its CSRF token
          cookie,          \* the CSRF cookie in the jar
          other,           \* the token on its way back to another tab
          tab,             \* the page
          write            \* the answers it is submitting

studioVars == <<server, cookie, other, tab, write>>
allVars == <<vars, studioVars>>

\* What an /auth/me of the page may be for.
Purposes == {"mount", "confirm", "recover"}

ASSUME TokensAssumption ==
  /\ MaxTokens \in [Settings -> Nat]
  /\ None \notin Nat \cup Purposes

Tokens == Nat \ {0}
Shown == OrderStatuses \cup {None}

\* me is what the page's /auth/me is for and got what it was answered; poll is
\* where the polling effect stands and reply what the API told it.
Closed == [session |-> None, me |-> None, got |-> None,
           poll |-> "off", reply |-> None, shown |-> None]

Refused == 0            \* the 401 of an /auth/me

NoWrite == [step |-> "none", header |-> None, again |-> FALSE, overlapped |-> FALSE]

StudioInit ==
  /\ Init
  /\ server = [live |-> TRUE, csrf |-> 1]
  /\ cookie = 1
  /\ other = None
  /\ tab = Closed
  /\ write = NoWrite
-----------------------------------------------------------------------------
(* The session.                                                            *)

\* What another request of the browser does to a write that is recovering.
Overlapped == write.step \in {"recovering", "sent"} /\ write.again

Overlap == write' = IF Overlapped THEN [write EXCEPT !.overlapped = TRUE] ELSE write

\* _reissued_csrf: a new token over the old hash.
Reissue ==
  /\ server.live /\ server.csrf < MaxTokens[setting]
  /\ server' = [server EXCEPT !.csrf = @ + 1]

\* GET /auth/me of another tab is served, and later its answer arrives.
OtherIsServed ==
  /\ other = None
  /\ Reissue
  /\ other' = server.csrf + 1
  /\ Overlap
  /\ UNCHANGED <<vars, cookie, tab>>

\* Wrong on purpose: the answer does not carry the cookie.
WithoutTheCookie(token) == UNCHANGED cookie

\* The answer of an /auth/me rewrites the cookie with the token it minted.
SetCookie(token) == cookie' = token

OtherArrives ==
  /\ other # None
  /\ SetCookie(other)
  /\ other' = None
  /\ Overlap
  /\ UNCHANGED <<vars, server, tab>>

\* It expires, is revoked, or is signed out of in another tab.
SessionEnds ==
  /\ server.live
  /\ server' = [server EXCEPT !.live = FALSE]
  /\ Overlap
  /\ UNCHANGED <<vars, cookie, other, tab>>

\* The page's own /auth/me, for whatever it is needed.
MeIsServed ==
  /\ tab.me # None /\ tab.got = None
  /\ IF server.live
     THEN Reissue /\ tab' = [tab EXCEPT !.got = server.csrf + 1]
     ELSE UNCHANGED server /\ tab' = [tab EXCEPT !.got = Refused]
  /\ UNCHANGED <<vars, cookie, other, write>>

\* setSession with a new csrf_token: the polling effect is torn down, whatever
\* it had in flight is ignored, and it asks again at once.
SignedInAs(token) ==
  [tab EXCEPT !.session = token, !.me = None, !.got = None,
              !.poll = "asked", !.reply = None]

SignedOut == [tab EXCEPT !.session = None, !.poll = "off", !.reply = None]

\* A write that was waiting for it is sent again, with the cookie of that moment.
MeArrives ==
  /\ tab.got \in Tokens
  /\ SetCookie(tab.got)
  /\ tab' = SignedInAs(tab.got)
  /\ write' = IF write.step = "recovering"
              THEN [write EXCEPT !.step = "sent", !.header = cookie'] ELSE write
  /\ UNCHANGED <<vars, server, other>>

MeIsRefused ==
  /\ tab.got = Refused
  /\ tab' = [SignedOut EXCEPT !.me = None, !.got = None]
  /\ write' = IF write.step = "recovering" THEN NoWrite ELSE write
  /\ UNCHANGED <<vars, server, cookie, other>>

\* The page is opened or reloaded at ?order=, and asks who it is.
Open ==
  /\ CustomerSees # None
  /\ tab.me = None /\ write.step = "none"
  /\ server.csrf < MaxTokens[setting]
  /\ tab' = [Closed EXCEPT !.me = "mount"]
  /\ UNCHANGED <<vars, server, cookie, other, write>>

\* POST /auth/sign-in, which the page confirms with /auth/me before it believes it.
SignIn ==
  /\ tab # Closed /\ tab.session = None /\ tab.me = None
  /\ ~server.live /\ server.csrf + 1 < MaxTokens[setting]
  /\ server' = [live |-> TRUE, csrf |-> server.csrf + 1]
  /\ cookie' = server.csrf + 1
  /\ tab' = [tab EXCEPT !.me = "confirm"]
  /\ UNCHANGED <<vars, other, write>>
-----------------------------------------------------------------------------
(* The polling effect.                                                     *)

\* A GET carries no token to check.  On a 401 the recovery is refused too.
PollIsServed ==
  /\ tab.poll = "asked"
  /\ tab' = IF ~server.live THEN SignedOut
            ELSE IF CustomerSees = None THEN [tab EXCEPT !.poll = "failed"]
            ELSE [tab EXCEPT !.poll = "answered", !.reply = CustomerSees]
  /\ UNCHANGED <<vars, server, cookie, other, write>>

\* Wrong on purpose: a pause is an end too.
ReschedulesUnlessPaused(status) == status \notin {"READY", "FAILED", "PAUSED"}

\* reschedule: READY and FAILED are ends.
Reschedules(status) == status \notin {"READY", "FAILED"}

PollArrives ==
  /\ tab.poll = "answered"
  /\ tab' = [tab EXCEPT !.shown = tab.reply, !.reply = None,
                        !.poll = IF Reschedules(tab.reply) THEN "waiting" ELSE "ended"]
  /\ UNCHANGED <<vars, server, cookie, other, write>>

TimerFires ==
  /\ tab.poll = "waiting"
  /\ tab' = [tab EXCEPT !.poll = "asked"]
  /\ UNCHANGED <<vars, server, cookie, other, write>>

\* The network or the API fails a poll: the page shows the error and asks no more.
PollFails ==
  /\ tab.poll \in {"asked", "answered"}
  /\ tab' = [tab EXCEPT !.poll = "failed", !.reply = None]
  /\ UNCHANGED <<vars, server, cookie, other, write>>
-----------------------------------------------------------------------------
(* Submitting answers: api(), with one recovery and one retry.             *)

Submit ==
  /\ tab.session # None /\ tab.me = None
  /\ tab.shown = "WAITING_FOR_USER_ANSWERS"
  /\ write.step \in {"none", "refused"}
  /\ write' = [NoWrite EXCEPT !.step = "sent", !.header = cookie]
  /\ UNCHANGED <<vars, server, cookie, other, tab>>

Authorised == server.live /\ write.header = server.csrf

\* The handler runs, and the page forgets the status it showed.
WriteIsAccepted ==
  /\ write.step = "sent" /\ Authorised
  /\ \E j \in Jobs, body \in Bodies : Answer(j, body)
  /\ write' = NoWrite
  /\ tab' = [tab EXCEPT !.shown = None]
  /\ UNCHANGED <<server, cookie, other>>

\* There is nothing to answer any more, or a round too many: a 409.
WriteIsTooLate ==
  /\ write.step = "sent" /\ Authorised
  /\ order.latest \notin asked \/ order.round >= RoundLimit
  /\ write' = NoWrite
  /\ UNCHANGED <<vars, server, cookie, other, tab>>

\* A 401 or 403: ask /auth/me, once.
Recover ==
  /\ write.step = "sent" /\ ~Authorised /\ ~write.again /\ tab.me = None
  /\ write' = [write EXCEPT !.step = "recovering", !.again = TRUE, !.overlapped = other # None]
  /\ tab' = [tab EXCEPT !.me = "recover"]
  /\ UNCHANGED <<vars, server, cookie, other>>

WriteIsRefused ==
  /\ write.step = "sent" /\ ~Authorised /\ write.again
  /\ write' = [write EXCEPT !.step = "refused"]
  /\ UNCHANGED <<vars, server, cookie, other, tab>>
-----------------------------------------------------------------------------
DeskMoves == Next /\ UNCHANGED studioVars

StudioNext ==
  \/ DeskMoves
  \/ OtherIsServed \/ OtherArrives \/ SessionEnds
  \/ MeIsServed \/ MeArrives \/ MeIsRefused
  \/ Open \/ SignIn
  \/ PollIsServed \/ PollArrives \/ TimerFires \/ PollFails
  \/ Submit \/ WriteIsAccepted \/ WriteIsTooLate \/ Recover \/ WriteIsRefused

\* Requests are answered, answers arrive and timers fire; handlers go on.
StudioFairness ==
  /\ Fairness
  /\ WF_allVars(MeIsServed \/ MeArrives \/ MeIsRefused)
  /\ WF_allVars(PollIsServed \/ PollArrives \/ TimerFires)

StudioSpec == StudioInit /\ [][StudioNext]_allVars /\ StudioFairness
-----------------------------------------------------------------------------
(* Properties.                                                             *)

\* A page that gave up says so: the session ended, or a request failed.
GaveUp == tab.poll \in {"off", "failed"}

\* Statuses that may last, and are not an end.
Lasting == {"PAUSED", "WAITING_FOR_USER_ANSWERS", "MANUAL_REVIEW"}

\* What the service tells of the order for good, an open page comes to show,
\* unless it says it gave up or has shown an end (page.tsx: "a page that had
\* stopped looking would show a stale pause until somebody reloaded").
ThePageKeepsUp ==
  \A status \in Lasting :
    CustomerSees = status ~>
      \/ tab.shown = status \/ CustomerSees # status
      \/ GaveUp \/ tab.shown \in {"READY", "FAILED"}

\* Answers are refused a second time only if another tab's /auth/me overlapped
\* the recovery, or the session ended: with the page alone, the recovery
\* always leaves the cookie and the stored hash in agreement (page.tsx: "if
\* this page was simply holding a stale one, the retry succeeds").
AWriteAloneGetsThrough == write.step = "refused" => write.overlapped

\* An end the page shows is what became of the order (page.tsx: "READY and
\* FAILED are ends: nothing else will happen and the timer stops").
EndsShownAreEnds == tab.poll = "ended" ~> tab.shown = CustomerSees \/ tab.poll # "ended"
=============================================================================
