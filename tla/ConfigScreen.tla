---------------------------- MODULE ConfigScreen -----------------------------
(***************************************************************************)
(* The pages on which staff see and change a setting.  Both start with the *)
(* values their own source has, which need not be the ones in force, and   *)
(* keep what they show when the request for the value fails or is refused; *)
(* a server that cannot read its table answers with its defaults.          *)
(* CTSThresholds sends its requests with the token and shows what it was   *)
(* told.  CTSConfig (and OperationsConfig, in the same way but without the *)
(* buttons of the checker) builds its own request and shows a change as    *)
(* pending, and as approved, before anybody knows of it; an approval needs *)
(* the number the server gave the change, though, and without the token    *)
(* the server gives none.  ConfigChange takes the server's side apart.     *)
(* Items are the changes, each with its own value.                         *)
(***************************************************************************)
EXTENDS WebClient

CONSTANT Literal       \* the value in a page's own source

ASSUME LiteralAssumption == Literal \notin Items \cup {None}

VARIABLES
  setting,     \* the server: the change in force, those proposed, those it was sent
  thresholds,  \* CTSThresholds: the value shown, and the change in the dialog
  config,      \* CTSConfig: the value shown, the draft, the pending change
  proposals    \* requests of either page under way

configScreenVars == <<setting, thresholds, config, proposals>>

\* None is the server's own default.
Values     == Items \cup {None, Literal}
NotPending == [change |-> None, changeId |-> FALSE]
SignedPage == [sendsToken |-> TRUE]
PlainPage  == [sendsToken |-> FALSE]

\* CTSConfig when it is opened.
NewConfig == [shown |-> Literal, draft |-> Literal, pending |-> NotPending, loaded |-> FALSE]

ConfigScreenInit ==
  /\ setting = [inForce |-> None, proposed |-> {}, known |-> {}]
  /\ thresholds = [shown |-> Literal, editing |-> FALSE, busy |-> FALSE]
  /\ config = NewConfig
  /\ proposals = {}

\* What the server answers: the value in force, or its default when the read fails.
Served == {setting.inForce, None}

----------------------------------------------------------------------------
(* CTSThresholds *)

(* On opening the page, and after every change submitted.  A value that    *)
(* reads as zero counts as none.                                           *)
useThresholds ==
  /\ \E v \in Served \cup {Literal} : thresholds' = [thresholds EXCEPT !.shown = v]
  /\ UNCHANGED <<setting, config, proposals>>

openEdit ==
  /\ ~thresholds.editing
  /\ thresholds' = [thresholds EXCEPT !.editing = TRUE]
  /\ UNCHANGED <<setting, config, proposals>>

closeEdit ==
  /\ thresholds.editing
  /\ thresholds' = [thresholds EXCEPT !.editing = FALSE]
  /\ UNCHANGED <<setting, config, proposals>>

Fresh(c) == c \notin setting.known /\ \A q \in proposals : q.change # c

(* The button is disabled until the answer is there.                       *)
submitMut(c) ==
  /\ thresholds.editing /\ ~thresholds.busy /\ Fresh(c)
  /\ thresholds' = [thresholds EXCEPT !.busy = TRUE]
  /\ proposals' = proposals \cup {[change |-> c, page |-> SignedPage]}
  /\ UNCHANGED <<setting, config>>

----------------------------------------------------------------------------
(* CTSConfig *)

(* What the page kept is gone when it is closed.                           *)
OpenConfig ==
  /\ config' = NewConfig
  /\ UNCHANGED <<setting, thresholds, proposals>>

(* Asked once, on opening the page; the answer replaces the draft too.     *)
fetchLiveConfig ==
  /\ ~config.loaded
  /\ \E v \in Served : config' = [config EXCEPT !.shown = v, !.draft = v, !.loaded = TRUE]
  /\ UNCHANGED <<setting, thresholds, proposals>>

setDraftValues(c) ==
  /\ config.draft # c /\ Fresh(c)
  /\ config' = [config EXCEPT !.draft = c]
  /\ UNCHANGED <<setting, thresholds, proposals>>

handleSubmit ==
  /\ config.draft # config.shown /\ config.draft \in Items /\ Fresh(config.draft)
  /\ config' = [config EXCEPT !.pending = [change |-> config.draft, changeId |-> FALSE]]
  /\ proposals' = proposals \cup {[change |-> config.draft, page |-> PlainPage]}
  /\ UNCHANGED <<setting, thresholds>>

(* The button does nothing for a change without a number, and the approval *)
(* that it sends for one with a number would be refused for its token.     *)
HasNumber == config.pending.change # None /\ config.pending.changeId

handleApprove ==
  /\ config' = IF HasNumber
               THEN [config EXCEPT !.shown = config.pending.change,
                                   !.draft = config.pending.change, !.pending = NotPending]
               ELSE config
  /\ UNCHANGED <<setting, thresholds, proposals>>

(* Nothing is sent.                                                        *)
handleReject ==
  /\ config.pending.change # None
  /\ config' = [config EXCEPT !.draft = config.shown, !.pending = NotPending]
  /\ UNCHANGED <<setting, thresholds, proposals>>

----------------------------------------------------------------------------
(* The server's answers, for a session whose token is the one this tab has *)

(* The answer is the same when the insert fails, but no change is there.   *)
Propose(c) ==
  \E added \in {{c}, {}} :
     setting' = [setting EXCEPT !.proposed = @ \cup added, !.known = @ \cup {c}]

Accept(q) ==
  /\ Admits(Me, csrfHeader(q.page, Me))
  /\ Propose(q.change)
  /\ proposals' = proposals \ {q}
  /\ IF q.page = SignedPage
       THEN thresholds' = [thresholds EXCEPT !.busy = FALSE, !.editing = FALSE] /\ UNCHANGED config
       ELSE config' = [config EXCEPT !.pending.changeId = @ \/ config.pending.change # None]
            /\ UNCHANGED thresholds

Refuse(q) ==
  /\ ~Admits(Me, csrfHeader(q.page, Me))
  /\ proposals' = proposals \ {q}
  /\ UNCHANGED <<setting, thresholds, config>>

(* The network fails before the request arrives, or after: the page shows  *)
(* the error and keeps its dialog open.                                    *)
NotSent(q) ==
  /\ proposals' = proposals \ {q}
  /\ thresholds' = IF q.page = SignedPage THEN [thresholds EXCEPT !.busy = FALSE] ELSE thresholds
  /\ \/ UNCHANGED setting
     \/ Admits(Me, csrfHeader(q.page, Me)) /\ Propose(q.change)
  /\ UNCHANGED config

(* Everybody else, through the API.                                        *)
OtherProposes(c) ==
  /\ Fresh(c) /\ Propose(c)
  /\ UNCHANGED <<thresholds, config, proposals>>

SettleElsewhere(c) ==
  /\ c \in setting.proposed
  /\ \E v \in {c, setting.inForce} :         \* approved, or rejected
        setting' = [setting EXCEPT !.inForce = v, !.proposed = @ \ {c}]
  /\ UNCHANGED <<thresholds, config, proposals>>

----------------------------------------------------------------------------
ConfigScreenNext ==
  \/ useThresholds \/ openEdit \/ closeEdit \/ OpenConfig \/ fetchLiveConfig
  \/ \E c \in Items : submitMut(c) \/ setDraftValues(c) \/ OtherProposes(c) \/ SettleElsewhere(c)
  \/ handleSubmit \/ handleApprove \/ handleReject
  \/ \E q \in proposals : Accept(q) \/ Refuse(q) \/ NotSent(q)

----------------------------------------------------------------------------
(* The pages keep their shape.  What they show may be a value that is not  *)
(* in force, and never was.                                                *)
ConfigScreenTypeOK ==
  /\ setting \in [inForce : Items \cup {None}, proposed : SUBSET Items, known : SUBSET Items]
  /\ thresholds \in [shown : Values, editing : BOOLEAN, busy : BOOLEAN]
  /\ config \in [shown : Values, draft : Values,
                 pending : [change : Items \cup {None}, changeId : BOOLEAN], loaded : BOOLEAN]
  /\ proposals \subseteq [change : Items, page : {SignedPage, PlainPage}]
===========================================================================
