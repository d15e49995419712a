--------------------------- MODULE ScannerScreen ---------------------------
(***************************************************************************)
(* The page of a branch's scanner.  Starting a session tells the scanner's *)
(* agent to scan, opens a session at the server and then polls what was    *)
(* scanned every three seconds; stopping goes the other way.  The calls    *)
(* are awaited one after the other and the button is never disabled, so    *)
(* starts and stops overlap.  A call that fails is passed over; the page   *)
(* builds its requests without the token that writes need.                 *)
(***************************************************************************)
EXTENDS WebClient

CONSTANTS
  MaxStarts,   \* bound on the sessions started
  MaxScans     \* bound on the cheques scanned

ASSUME ScannerBounds == MaxStarts \in Nat /\ MaxScans \in Nat

VARIABLES
  agent,     \* the scanner's agent is scanning
  opened,    \* the server: sessions opened from the page
  scans,     \* the server: how much was scanned
  session,   \* the page: whether it shows a session, and the interval it would clear
  calls,     \* starts and stops that are not over, and the call each makes next
  ticking,   \* intervals that poll
  feed,      \* the page: how much it shows
  recent     \* answers to polls on their way

scannerVars == <<agent, opened, scans, session, calls, ticking, feed, recent>>

Intervals == 1..MaxStarts
Call      == [no : Intervals, does : {"start", "open", "stop", "close"}]
ScannerPage == [sendsToken |-> FALSE]

ScannerInit ==
  /\ agent = FALSE /\ opened = {} /\ scans = 0
  /\ session = [active |-> FALSE, interval |-> 0, started |-> 0]
  /\ calls = {} /\ ticking = {}
  /\ feed = 0 /\ recent = {}

Then(c, does) == calls' = (calls \ {c}) \cup {[c EXCEPT !.does = does]}

----------------------------------------------------------------------------
(* Starting *)

startSession ==
  /\ ~session.active /\ session.started < MaxStarts
  /\ session' = [session EXCEPT !.started = @ + 1]
  /\ calls' = calls \cup {[no |-> session.started + 1, does |-> "start"]}
  /\ feed' = 0
  /\ UNCHANGED <<agent, opened, scans, ticking, recent>>

AgentStarts(c) ==
  /\ c.does = "start" /\ Then(c, "open")
  /\ agent' \in {agent, TRUE}
  /\ UNCHANGED <<opened, scans, session, ticking, feed, recent>>

(* With or without the server's number the session is shown and polled.    *)
Opened(c, token) ==
  /\ c.does = "open" /\ calls' = calls \ {c}
  /\ opened' = IF Admits(token, csrfHeader(ScannerPage, token)) THEN opened \cup {c.no} ELSE opened
  /\ session' = [session EXCEPT !.active = TRUE, !.interval = c.no]
  /\ ticking' = ticking \cup {c.no}
  /\ UNCHANGED <<agent, scans, feed, recent>>

----------------------------------------------------------------------------
(* Stopping *)

stopSession ==
  /\ session.active
  /\ session' = [session EXCEPT !.active = FALSE]
  /\ ticking' = ticking \ {session.interval}
  /\ calls' = calls \cup {[no |-> session.interval, does |-> "stop"]}
  /\ UNCHANGED <<agent, opened, scans, feed, recent>>

AgentStops(c) ==
  /\ c.does = "stop" /\ Then(c, "close")
  /\ agent' \in {agent, FALSE}
  /\ UNCHANGED <<opened, scans, session, ticking, feed, recent>>

(* Seeded bug: polling ends only once the other calls are over.            *)
ClosedThenCleared(c, token) ==
  /\ c.does = "close" /\ calls' = calls \ {c}
  /\ ticking' = ticking \ {session.interval}
  /\ UNCHANGED <<agent, opened, scans, session, feed, recent>>

Closed(c, token) ==
  /\ c.does = "close" /\ calls' = calls \ {c}
  /\ opened' = IF Admits(token, csrfHeader(ScannerPage, token)) THEN opened \ {c.no} ELSE opened
  /\ UNCHANGED <<agent, scans, session, ticking, feed, recent>>

----------------------------------------------------------------------------
(* Polling: answers come in any order *)

poll ==
  /\ ticking # {} /\ Cardinality(recent) < 2
  /\ recent' = recent \cup {scans}
  /\ UNCHANGED <<agent, opened, scans, session, calls, ticking, feed>>

setScans(n) ==
  /\ n \in recent /\ recent' = recent \ {n}
  /\ feed' = n
  /\ UNCHANGED <<agent, opened, scans, session, calls, ticking>>

Scan ==
  /\ agent /\ scans < MaxScans /\ scans' = scans + 1
  /\ UNCHANGED <<agent, opened, session, calls, ticking, feed, recent>>

----------------------------------------------------------------------------
ScannerNext ==
  \/ startSession \/ stopSession \/ poll \/ Scan
  \/ \E c \in calls : AgentStarts(c) \/ Opened(c, Me) \/ AgentStops(c) \/ Closed(c, Me)
  \/ \E n \in recent : setScans(n)

----------------------------------------------------------------------------
(* Properties *)

ScannerTypeOK ==
  /\ agent \in BOOLEAN /\ opened \subseteq Intervals /\ scans \in 0..MaxScans
  /\ session \in [active : BOOLEAN, interval : 0..MaxStarts, started : 0..MaxStarts]
  /\ calls \subseteq Call /\ ticking \subseteq Intervals
  /\ feed \in 0..MaxScans /\ recent \subseteq 0..MaxScans

(* However starts and stops overlap, a session that is shown is polled, by *)
(* the interval that stopping will clear.                                  *)
ActiveIsPolled == session.active => session.interval \in ticking

(* While a session goes on the page comes to show all that was scanned,    *)
(* although an old answer may come last.                                   *)
FeedCatchesUp == []<>(session.active => feed = scans)
===========================================================================
