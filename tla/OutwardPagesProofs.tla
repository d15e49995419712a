------------------------- MODULE OutwardPagesProofs -------------------------
(***************************************************************************)
(* The safety of the pages for outward cheques, for any number of cheques, *)
(* requests, sessions and scans: what the maker's page shows as decided is *)
(* decided, an approval says what the maker said, and the session that the *)
(* scanner's page shows is polled.                                         *)
(***************************************************************************)
EXTENDS OutwardPages, TLAPS

(***************************************************************************)
(* The makers' list: DecidedIsStaged is inductive with the types.          *)
(***************************************************************************)
OutwardInv == OutwardTypeOK /\ DecidedIsStaged

Stages  == [waiting : SUBSET Items, staged : SUBSET Items, mine : SUBSET Entries,
            sent : 0..MaxSends]
Decides == [sent : SUBSET Entries, accepted : SUBSET Entries, refused : SUBSET Entries]

LEMMA OutwardInitInv == OutwardInit => OutwardInv
  <1> SUFFICES ASSUME OutwardInit PROVE OutwardInv
    OBVIOUS
  <1>1. stage \in Stages /\ decides \in Decides
    BY SendBound DEF OutwardInit, Stages, Decides
  <1>2. DecidedIsStaged
    BY DEF OutwardInit, DecidedIsStaged
  <1>3. OutwardTypeOK
    BY <1>1 DEF OutwardInit, OutwardTypeOK, Stages, Decides
  <1> QED
    BY <1>2, <1>3 DEF OutwardInv

\* What the lists bring, and what others do.
LEMMA ListsKeep ==
  ASSUME OutwardInv,
         \/ fetchLiveQueue \/ setTab \/ UNCHANGED outwardVars
         \/ \E a \in answers : setReview(a)
         \/ \E i \in Items : selectItem(i) \/ HeldBack(i) \/ OtherClaims(i) \/ OtherDecides(i)
  PROVE  OutwardInv'
  <1>1. stage \in Stages /\ decides \in Decides /\ taken \subseteq Items /\ review \subseteq Items
    BY DEF OutwardInv, OutwardTypeOK, Stages, Decides
  <1>2. CASE \/ fetchLiveQueue \/ setTab \/ UNCHANGED outwardVars
             \/ (\E a \in answers : setReview(a)) \/ \E i \in Items : selectItem(i)
    <2>1. UNCHANGED <<stage, taken, decided, decides>>
      BY <1>2 DEF fetchLiveQueue, setTab, setReview, selectItem, outwardVars
    <2>2. /\ review' \subseteq Items /\ selected' \in Items \cup {None}
          /\ answers' \subseteq SUBSET Items
      <3>1. stage.waiting \subseteq Items
        BY <1>1 DEF Stages
      <3> QED
        BY <1>1, <1>2, <3>1
        DEF fetchLiveQueue, setTab, setReview, selectItem, outwardVars, OutwardInv, OutwardTypeOK
    <2> QED
      BY <2>1, <2>2 DEF OutwardInv, OutwardTypeOK, DecidedIsStaged
  <1>3. ASSUME NEW i \in Items, HeldBack(i) \/ OtherClaims(i) \/ OtherDecides(i) PROVE OutwardInv'
    <2>1. UNCHANGED <<review, selected, decided, answers, decides>> /\ taken' \subseteq Items
      BY <1>1, <1>3 DEF HeldBack, OtherClaims, OtherDecides
    <2>2. stage' \in Stages /\ stage'.mine = stage.mine
      <3>1. CASE HeldBack(i)
        BY <1>1, <3>1 DEF HeldBack, Stages
      <3>2. CASE OtherClaims(i)
        BY <1>1, <3>2 DEF OtherClaims
      <3>3. CASE OtherDecides(i)
        BY <1>1, <3>3 DEF OtherDecides, Stages
      <3> QED
        BY <1>3, <3>1, <3>2, <3>3
    <2> QED
      BY <2>1, <2>2 DEF OutwardInv, OutwardTypeOK, DecidedIsStaged, Stages
  <1> QED
    BY <1>2, <1>3

\* A decision is shown and sent at once.
LEMMA DecideKeeps ==
  ASSUME OutwardInv, NEW action \in {"CONFIRMED", "REJECTED"}, decide(action)
  PROVE  OutwardInv'
  <1> DEFINE entry == [no |-> stage.sent + 1, item |-> selected, action |-> action]
  <1>1. stage \in Stages /\ decides \in Decides
    BY DEF OutwardInv, OutwardTypeOK, Stages, Decides
  <1>2. stage.sent + 1 \in 1..MaxSends /\ selected \in Items
    BY <1>1, SendBound DEF decide, Stages, OutwardInv, OutwardTypeOK
  <1>3. entry \in Entries
    BY <1>2 DEF Entries
  <1>4. /\ decided' = decided \cup {entry}
        /\ decides' = [decides EXCEPT !.sent = @ \cup {entry}]
        /\ stage' = [stage EXCEPT !.sent = @ + 1]
        /\ review' = review \ {selected} /\ selected' = None /\ UNCHANGED <<taken, answers>>
    BY DEF decide
  <1> HIDE DEF entry
  <1>5. /\ decides' \in Decides /\ decides'.sent = decides.sent \cup {entry}
        /\ decides'.refused = decides.refused
    BY <1>1, <1>3, <1>4 DEF Decides
  <1>6. stage' \in Stages /\ stage'.mine = stage.mine
    BY <1>1, <1>2, <1>4, SendBound DEF Stages
  <1>7. OutwardTypeOK'
    BY <1>3, <1>4, <1>5, <1>6 DEF OutwardInv, OutwardTypeOK, Stages, Decides
  <1>8. DecidedIsStaged'
    BY <1>4, <1>5, <1>6 DEF OutwardInv, DecidedIsStaged
  <1> QED
    BY <1>7, <1>8 DEF OutwardInv

\* The server accepts or refuses; what is refused or lost is taken back.
LEMMA DecisionsKeep ==
  ASSUME OutwardInv, NEW e \in decides.sent \cup decides.accepted \cup decides.refused,
         ServeDecide(e) \/ Accepted(e) \/ Refused(e) \/ Lost(e)
  PROVE  OutwardInv'
  <1>1. stage \in Stages /\ decides \in Decides /\ e \in Entries
    BY DEF OutwardInv, OutwardTypeOK, Stages, Decides
  <1>2. CASE ServeDecide(e)
    <2>1. UNCHANGED <<taken, review, selected, decided, answers>>
      BY <1>2 DEF ServeDecide
    <2>2. CASE e.item \in stage.waiting \ taken
      <3>1. /\ stage' = [stage EXCEPT !.waiting = @ \ {e.item}, !.staged = @ \cup {e.item},
                                      !.mine = @ \cup {e}]
            /\ decides' = [decides EXCEPT !.sent = @ \ {e}, !.accepted = @ \cup {e}]
        BY <1>2, <2>2 DEF ServeDecide
      <3>2. stage' \in Stages /\ stage'.mine = stage.mine \cup {e}
        BY <1>1, <2>2, <3>1 DEF Stages
      <3>3. /\ decides' \in Decides /\ decides'.sent = decides.sent \ {e}
            /\ decides'.refused = decides.refused
        BY <1>1, <3>1 DEF Decides
      <3> QED
        BY <2>1, <3>2, <3>3 DEF OutwardInv, OutwardTypeOK, DecidedIsStaged, Stages, Decides
    <2>3. CASE e.item \notin stage.waiting \ taken
      <3>1. decides' = [decides EXCEPT !.sent = @ \ {e}, !.refused = @ \cup {e}] /\ stage' = stage
        BY <1>2, <2>3 DEF ServeDecide
      <3>2. /\ decides' \in Decides /\ decides'.sent = decides.sent \ {e}
            /\ decides'.refused = decides.refused \cup {e}
        BY <1>1, <3>1 DEF Decides
      <3> QED
        BY <2>1, <3>1, <3>2 DEF OutwardInv, OutwardTypeOK, DecidedIsStaged, Stages, Decides
    <2> QED
      BY <2>2, <2>3
  <1>3. CASE Accepted(e)
    <2>1. /\ decides' = [decides EXCEPT !.accepted = @ \ {e}]
          /\ UNCHANGED <<stage, taken, review, selected, decided, answers>>
      BY <1>3 DEF Accepted
    <2>2. /\ decides' \in Decides /\ decides'.sent = decides.sent
          /\ decides'.refused = decides.refused
      BY <1>1, <2>1 DEF Decides
    <2> QED
      BY <2>1, <2>2 DEF OutwardInv, OutwardTypeOK, DecidedIsStaged, Stages, Decides
  <1>4. CASE Refused(e) \/ Lost(e)
    <2>1. /\ decided' = decided \ {e} /\ answers' = answers \cup {stage.waiting}
          /\ UNCHANGED <<stage, taken, review, selected>>
      BY <1>4 DEF Refused, Lost, TakeBack
    <2>2. /\ decides' \in Decides /\ decides.sent \ {e} \subseteq decides'.sent
          /\ decides.refused \ {e} \subseteq decides'.refused
      <3>1. CASE decides' = [decides EXCEPT !.refused = @ \ {e}]
        BY <1>1, <3>1 DEF Decides
      <3>2. CASE decides' = [decides EXCEPT !.sent = @ \ {e}, !.accepted = @ \ {e}]
        BY <1>1, <3>2 DEF Decides
      <3> QED
        BY <1>4, <3>1, <3>2 DEF Refused, Lost
    <2>3. stage.waiting \subseteq Items
      BY <1>1 DEF Stages
    <2> QED
      BY <2>1, <2>2, <2>3 DEF OutwardInv, OutwardTypeOK, DecidedIsStaged, Stages, Decides
  <1> QED
    BY <1>2, <1>3, <1>4

LEMMA OutwardStep == OutwardInv /\ [OutwardNext]_outwardVars => OutwardInv'
  BY ListsKeep, DecideKeeps, DecisionsKeep DEF OutwardNext

(***************************************************************************)
(* The checkers' page: whatever copy of a row is about, the word in it is  *)
(* the maker's, who gives it once.                                         *)
(***************************************************************************)
SaysMaker(a) == \A i \in Items : a[i] # None => a[i] = row[i].maker
Repeats(q)   == q.agrees => q.action # None /\ q.action = row[q.item].maker

ValidationInv ==
  /\ ValidationTypeOK
  /\ \A i \in Items : row[i].status = "none" => row[i].maker = None /\ row[i].filed = None
  /\ SaysMaker(rows)
  /\ \A a \in arriving : SaysMaker(a)
  /\ \A q \in validates : Repeats(q)
  /\ ApprovalAgrees

Stagings == [Items -> [status : Statuses, maker : Decisions \cup {None},
                       filed : Decisions \cup {None}]]
Lists    == [Items -> Decisions \cup {None}]

LEMMA ValidationInitInv == ValidationInit => ValidationInv
  <1> SUFFICES ASSUME ValidationInit PROVE ValidationInv
    OBVIOUS
  <1>1. row \in Stagings /\ rows \in Lists
    BY DEF ValidationInit, Stagings, Lists, Statuses, NoRows
  <1> QED
    BY <1>1 DEF ValidationInit, ValidationInv, ValidationTypeOK, ApprovalAgrees, SaysMaker,
                Stagings, Lists, NoRows

\* The page works on copies of the makers' words.
LEMMA CheckersKeep ==
  ASSUME ValidationInv,
         \/ useOutwardStagedQueue \/ closeReasons \/ doReturn \/ UNCHANGED validationVars
         \/ \E a \in arriving : setInstruments(a)
         \/ \E i \in Items : handleApprove(i) \/ openReasons(i)
         \/ \E q \in validates : removeRow(q) \/ setActionError(q)
  PROVE  ValidationInv'
  <1>1. /\ row \in Stagings /\ rows \in Lists /\ arriving \subseteq Lists
        /\ validates \subseteq Request /\ picker \in Items \cup {None} /\ busy \in Items \cup {None}
    BY DEF ValidationInv, ValidationTypeOK, Stagings, Lists
  <1>2. UNCHANGED <<row, overruled>>
    BY DEF useOutwardStagedQueue, closeReasons, doReturn, validationVars, setInstruments,
           handleApprove, openReasons, removeRow, setActionError
  <1>3. /\ picker' \in Items \cup {None} /\ busy' \in Items \cup {None}
    <2>1. picker # None => picker \in Items
      BY <1>1
    <2> QED
      BY <1>1, <2>1 DEF useOutwardStagedQueue, closeReasons, doReturn, ReasonsShown, validationVars,
           setInstruments, handleApprove, openReasons, removeRow, setActionError,
           submitOutwardValidation
  <1>4. rows' \in Lists /\ SaysMaker(rows')
    <2>1. CASE rows' = rows \/ rows' \in arriving
      BY <1>1, <2>1 DEF ValidationInv
    <2>2. ASSUME NEW q \in validates, removeRow(q) PROVE rows' \in Lists /\ SaysMaker(rows')
      BY <1>1, <2>2 DEF removeRow, Lists, Request, ValidationInv, SaysMaker
    <2> QED
      BY <2>1, <2>2 DEF useOutwardStagedQueue, closeReasons, doReturn, validationVars, setInstruments,
           handleApprove, openReasons, setActionError
  <1>5. arriving' \subseteq Lists /\ \A a \in arriving' : SaysMaker(a)
    <2>1. Listing \in Lists /\ SaysMaker(Listing)
      BY <1>1 DEF Listing, Lists, Stagings, SaysMaker
    <2>2. arriving' \subseteq arriving \cup {Listing}
      BY DEF useOutwardStagedQueue, closeReasons, doReturn, validationVars, setInstruments,
             handleApprove, openReasons, removeRow, setActionError
    <2> QED
      BY <1>1, <2>1, <2>2 DEF ValidationInv
  <1>6. validates' \subseteq Request /\ \A q \in validates' : Repeats(q)
    <2>1. CASE validates' \subseteq validates
      BY <1>1, <2>1 DEF ValidationInv
    <2>2. ASSUME NEW i \in Items, handleApprove(i)
          PROVE  validates' \subseteq Request /\ \A q \in validates' : Repeats(q)
      <3> DEFINE r == [item |-> i, action |-> rows[i], agrees |-> TRUE, step |-> "sent"]
      <3>1. rows[i] \in Decisions /\ rows[i] # None /\ rows[i] = row[i].maker
        BY <1>1, <2>2 DEF handleApprove, Lists, ValidationInv, SaysMaker
      <3>2. r \in Request /\ Repeats(r)
        BY <3>1 DEF Request, Repeats
      <3>3. validates' = validates \cup {r}
        BY <2>2 DEF handleApprove, submitOutwardValidation
      <3> HIDE DEF r
      <3> QED
        BY <1>1, <3>2, <3>3 DEF ValidationInv
    <2>3. CASE doReturn
      <3> DEFINE r == [item |-> picker, action |-> "REJECTED", agrees |-> FALSE, step |-> "sent"]
      <3>1. r \in Request /\ Repeats(r)
        BY <1>1, <2>3 DEF doReturn, ReasonsShown, Request, Decisions, Repeats
      <3>2. validates' = validates \cup {r}
        BY <2>3 DEF doReturn, submitOutwardValidation
      <3> HIDE DEF r
      <3> QED
        BY <1>1, <3>1, <3>2 DEF ValidationInv
    <2> QED
      BY <2>1, <2>2, <2>3 DEF useOutwardStagedQueue, closeReasons, validationVars, setInstruments,
           openReasons, removeRow, setActionError
  <1> QED
    BY <1>1, <1>2, <1>3, <1>4, <1>5, <1>6
    DEF ValidationInv, ValidationTypeOK, ApprovalAgrees, SaysMaker, Repeats, Stagings, Lists

\* The server settles a cheque once, and nobody changes the maker's word.
LEMMA SettlingKeeps ==
  ASSUME ValidationInv,
         \/ \E q \in validates : Validate(q)
         \/ \E i \in Items : Staged(i) \/ OtherSettles(i)
  PROVE  ValidationInv'
  <1>1. /\ row \in Stagings /\ rows \in Lists /\ arriving \subseteq Lists
        /\ validates \subseteq Request
    BY DEF ValidationInv, ValidationTypeOK, Stagings, Lists
  <1>2. UNCHANGED <<rows, picker, busy, arriving>>
    BY DEF Validate, Staged, OtherSettles
  <1>3. ASSUME NEW q \in validates, Validate(q) PROVE ValidationInv'
    <2>1. q \in Request
      BY <1>1
    <2>2. CASE q.item \in Waiting
      <3> DEFINE r == [q EXCEPT !.step = "done"]
      <3>1. r \in Request /\ r.item = q.item /\ r.action = q.action /\ r.agrees = q.agrees
        BY <2>1 DEF Request
      <3>2. /\ row' = [row EXCEPT ![q.item].status = "FINAL", ![q.item].filed = q.action]
            /\ validates' = (validates \ {q}) \cup {r}
            /\ overruled' = IF q.agrees THEN overruled ELSE overruled \cup {q.item}
        BY <1>3, <2>2 DEF Validate
      <3> HIDE DEF r
      <3>3. /\ row' \in Stagings
            /\ row'[q.item].maker = row[q.item].maker /\ row'[q.item].status = "FINAL"
            /\ row'[q.item].filed = q.action
            /\ \A i \in Items : i # q.item => row'[i] = row[i]
        BY <1>1, <2>1, <3>2 DEF Stagings, Request, Statuses
      <3>4. \A i \in Items : row'[i].maker = row[i].maker
        BY <3>3
      <3>5. validates' \subseteq Request /\ \A w \in validates' : Repeats(w)'
        <4>1. Repeats(r)
          BY <3>1 DEF ValidationInv, Repeats
        <4>2. \A w \in validates' : w \in Request /\ Repeats(w)
          BY <1>1, <3>1, <3>2, <4>1 DEF ValidationInv
        <4>3. \A w \in validates' : row'[w.item].maker = row[w.item].maker
          BY <3>4, <4>2 DEF Request
        <4> QED
          BY <4>2, <4>3 DEF Repeats
      <3>6. overruled' \subseteq Items
        BY <2>1, <3>2 DEF Request, ValidationInv, ValidationTypeOK
      <3>7. ApprovalAgrees'
        <4>1. q.agrees => q.action = row'[q.item].maker
          BY <3>3 DEF ValidationInv, Repeats
        <4>2. q.agrees \in BOOLEAN
          BY <2>1 DEF Request
        <4> QED
          BY <3>2, <3>3, <4>1, <4>2 DEF ValidationInv, ApprovalAgrees
      <3>8. \A i \in Items : row'[i].status = "none" => row'[i].maker = None /\ row'[i].filed = None
        BY <3>3 DEF ValidationInv
      <3>9. SaysMaker(rows)' /\ \A a \in arriving' : SaysMaker(a)'
        BY <1>2, <3>4 DEF ValidationInv, SaysMaker
      <3> QED
        BY <1>2, <3>3, <3>5, <3>6, <3>7, <3>8, <3>9
        DEF ValidationInv, ValidationTypeOK, Stagings, SaysMaker, Repeats
    <2>3. CASE q.item \notin Waiting
      <3> DEFINE r == [q EXCEPT !.step = "refused"]
      <3>1. r \in Request /\ r.item = q.item /\ r.action = q.action /\ r.agrees = q.agrees
        BY <2>1 DEF Request
      <3>2. validates' = (validates \ {q}) \cup {r} /\ UNCHANGED <<row, overruled>>
        BY <1>3, <2>3 DEF Validate
      <3> HIDE DEF r
      <3>3. validates' \subseteq Request /\ \A w \in validates' : Repeats(w)
        BY <1>1, <3>1, <3>2 DEF ValidationInv, Repeats
      <3> QED
        BY <1>2, <3>2, <3>3 DEF ValidationInv, ValidationTypeOK, ApprovalAgrees, SaysMaker, Repeats
    <2> QED
      BY <2>2, <2>3
  <1>4. ASSUME NEW i \in Items, Staged(i) PROVE ValidationInv'
    <2>1. PICK d \in Decisions :
            row' = [row EXCEPT ![i].status = "MAKER_DECIDED", ![i].maker = d]
      BY <1>4 DEF Staged
    <2>2. /\ row' \in Stagings /\ row'[i].status = "MAKER_DECIDED" /\ row'[i].filed = row[i].filed
          /\ \A j \in Items : j # i => row'[j] = row[j]
      BY <1>1, <2>1 DEF Stagings, Statuses
    <2>3. row[i].status = "none" /\ row[i].maker = None /\ row[i].filed = None
      BY <1>4 DEF Staged, ValidationInv
    <2>4. \A j \in Items : row[j].maker # None => row'[j].maker = row[j].maker
      BY <2>2, <2>3
    <2>5. SaysMaker(rows)' /\ \A a \in arriving' : SaysMaker(a)'
      BY <1>2, <2>4 DEF ValidationInv, SaysMaker
    <2>6. UNCHANGED <<validates, overruled>>
      BY <1>4 DEF Staged
    <2>7. \A q \in validates : Repeats(q)'
      <3>1. \A q \in validates : q.item \in Items /\ Repeats(q)
        BY <1>1 DEF ValidationInv, Request
      <3> QED
        BY <2>4, <3>1 DEF Repeats
    <2> QED
      BY <1>2, <2>2, <2>3, <2>5, <2>6, <2>7
      DEF ValidationInv, ValidationTypeOK, ApprovalAgrees, Stagings, SaysMaker, Repeats
  <1>5. ASSUME NEW i \in Items, OtherSettles(i) PROVE ValidationInv'
    <2>1. row' = [row EXCEPT ![i].status = "FINAL"] /\ UNCHANGED <<validates, overruled>>
      BY <1>5 DEF OtherSettles
    <2>2. /\ row' \in Stagings /\ row'[i].status = "FINAL"
          /\ \A j \in Items : /\ row'[j].maker = row[j].maker /\ row'[j].filed = row[j].filed
                              /\ j # i => row'[j] = row[j]
      BY <1>1, <2>1 DEF Stagings, Statuses
    <2> QED
      BY <1>1, <1>2, <2>1, <2>2
      DEF ValidationInv, ValidationTypeOK, ApprovalAgrees, Stagings, SaysMaker, Repeats, Request
  <1> QED
    BY <1>3, <1>4, <1>5

LEMMA ValidationStep == ValidationInv /\ [ValidationNext]_validationVars => ValidationInv'
  BY CheckersKeep, SettlingKeeps DEF ValidationNext

(***************************************************************************)
(* The page that files keeps its selection among its rows.                 *)
(***************************************************************************)
Unfileds == [waiting : SUBSET Items, rejected : SUBSET Items, left : SUBSET Items,
             filed : SUBSET Items]
Panels   == [submitted : BOOLEAN, picking : BOOLEAN]

LEMMA SubmissionInitType == SubmissionInit => SubmissionTypeOK
  BY DEF SubmissionInit, SubmissionTypeOK, NoPanel

LEMMA SubmissionStep ==
  SubmissionTypeOK /\ [SubmissionNext]_submissionVars => SubmissionTypeOK'
  <1> SUFFICES ASSUME SubmissionTypeOK, [SubmissionNext]_submissionVars PROVE SubmissionTypeOK'
    OBVIOUS
  <1>1. /\ unfiled \in Unfileds /\ instruments \subseteq Items /\ current \in instruments \cup {None}
        /\ panel \in Panels /\ files \subseteq [item : Items, action : {"CONFIRM", "RETURN"}]
        /\ NoPanel \in Panels
    BY DEF SubmissionTypeOK, Unfileds, Panels, NoPanel
  <1>2. CASE useOutwardQueue
    <2> DEFINE shown == unfiled.waiting \ unfiled.rejected
    <2>1. shown \subseteq Items /\ Adopt(shown) /\ UNCHANGED <<unfiled, files>>
      BY <1>1, <1>2 DEF useOutwardQueue, Unfileds
    <2> HIDE DEF shown
    <2>2. instruments' = shown /\ current' \in shown \cup {None} /\ panel' \in Panels
      BY <1>1, <2>1 DEF Adopt, Keeps
    <2> QED
      BY <1>1, <2>1, <2>2 DEF SubmissionTypeOK, Unfileds, Panels
  <1>3. ASSUME NEW i \in Items, setSelected(i) PROVE SubmissionTypeOK'
    BY <1>1, <1>3 DEF setSelected, SubmissionTypeOK, Unfileds, Panels
  <1>4. CASE SubmitToNGCH \/ setShowReturnPicker \/ ReturnPicker
    <2>1. panel' \in Panels
      BY <1>1, <1>4 DEF SubmitToNGCH, setShowReturnPicker, ReturnPicker, Panels
    <2>2. current \in Items /\ UNCHANGED <<unfiled, instruments, current>>
      BY <1>1, <1>4 DEF SubmitToNGCH, setShowReturnPicker, ReturnPicker
    <2>3. files' \subseteq [item : Items, action : {"CONFIRM", "RETURN"}]
      BY <1>1, <1>4, <2>2 DEF SubmitToNGCH, setShowReturnPicker, ReturnPicker, Post
    <2> QED
      BY <1>1, <2>1, <2>2, <2>3 DEF SubmissionTypeOK, Unfileds, Panels
  <1>5. ASSUME NEW q \in files, Answer(q, Me) PROVE SubmissionTypeOK'
    <2>1. ~Admits(Me, csrfHeader(FilePage, Me))
      BY DEF Admits, csrfHeader, FilePage
    <2> QED
      BY <1>1, <1>5, <2>1 DEF Answer, SubmissionTypeOK, Unfileds, Panels
  <1>6. ASSUME NEW i \in Items, NewItem(i) \/ MakerDecides(i) PROVE SubmissionTypeOK'
    <2>1. unfiled' \in Unfileds /\ UNCHANGED <<instruments, current, panel, files>>
      <3>1. CASE NewItem(i)
        <4>1. PICK rejected \in {{}, {i}} :
                unfiled' = [unfiled EXCEPT !.waiting = @ \cup {i}, !.rejected = @ \cup rejected]
          BY <3>1 DEF NewItem
        <4>2. rejected \subseteq Items
          BY <4>1
        <4> QED
          BY <1>1, <3>1, <4>1, <4>2 DEF NewItem, Unfileds
      <3>2. CASE MakerDecides(i)
        BY <1>1, <3>2 DEF MakerDecides, Unfileds
      <3> QED
        BY <1>6, <3>1, <3>2
    <2> QED
      BY <1>1, <2>1 DEF SubmissionTypeOK, Unfileds, Panels
  <1>7. CASE UNCHANGED submissionVars
    BY <1>7 DEF submissionVars, SubmissionTypeOK
  <1> QED
    BY <1>2, <1>3, <1>4, <1>5, <1>6, <1>7 DEF SubmissionNext

(***************************************************************************)
(* The scanner's page: only stopping clears an interval, and it clears the *)
(* one of the session it ends.                                             *)
(***************************************************************************)
ScannerInv == ScannerTypeOK /\ ActiveIsPolled

Sessions == [active : BOOLEAN, interval : 0..MaxStarts, started : 0..MaxStarts]

LEMMA ScannerInitInv == ScannerInit => ScannerInv
  <1> SUFFICES ASSUME ScannerInit PROVE ScannerInv
    OBVIOUS
  <1>1. 0 \in 0..MaxStarts /\ 0 \in 0..MaxScans
    BY ScannerBounds
  <1>2. session \in Sessions /\ session.active = FALSE
    BY <1>1 DEF ScannerInit, Sessions
  <1> QED
    BY <1>1, <1>2 DEF ScannerInit, ScannerInv, ScannerTypeOK, ActiveIsPolled, Sessions

LEMMA ScannerStep == ScannerInv /\ [ScannerNext]_scannerVars => ScannerInv'
  <1> SUFFICES ASSUME ScannerInv, [ScannerNext]_scannerVars PROVE ScannerInv'
    OBVIOUS
  <1>1. /\ agent \in BOOLEAN /\ opened \subseteq Intervals /\ scans \in 0..MaxScans
        /\ session \in Sessions /\ calls \subseteq Call /\ ticking \subseteq Intervals
        /\ feed \in 0..MaxScans /\ recent \subseteq 0..MaxScans
        /\ (session.active => session.interval \in ticking)
    BY DEF ScannerInv, ScannerTypeOK, ActiveIsPolled, Sessions
  <1>2. CASE startSession
    <2>1. session.started + 1 \in Intervals /\ session.started + 1 \in 0..MaxStarts
      BY <1>1, <1>2, ScannerBounds DEF startSession, Sessions, Intervals
    <2>2. session' \in Sessions /\ session'.active = session.active
      BY <1>1, <1>2, <2>1 DEF startSession, Sessions
    <2>3. calls' \subseteq Call
      BY <1>1, <1>2, <2>1 DEF startSession, Call
    <2>4. feed' \in 0..MaxScans /\ session'.active = FALSE
          /\ UNCHANGED <<agent, opened, scans, ticking, recent>>
      BY <1>2, <2>2, ScannerBounds DEF startSession
    <2> QED
      BY <1>1, <2>2, <2>3, <2>4 DEF ScannerInv, ScannerTypeOK, ActiveIsPolled, Sessions
  <1>3. CASE stopSession
    <2>1. session.interval \in Intervals
      BY <1>1, <1>3 DEF stopSession
    <2>2. session' \in Sessions /\ session'.active = FALSE
      BY <1>1, <1>3 DEF stopSession, Sessions
    <2>3. calls' \subseteq Call /\ ticking' \subseteq Intervals
      BY <1>1, <1>3, <2>1 DEF stopSession, Call
    <2>4. UNCHANGED <<agent, opened, scans, feed, recent>>
      BY <1>3 DEF stopSession
    <2> QED
      BY <1>1, <2>2, <2>3, <2>4 DEF ScannerInv, ScannerTypeOK, ActiveIsPolled, Sessions
  <1>4. ASSUME NEW c \in calls, AgentStarts(c) \/ AgentStops(c) \/ Closed(c, Me)
        PROVE  ScannerInv'
    <2>1. c \in Call
      BY <1>1
    <2>2. [c EXCEPT !.does = "open"] \in Call /\ [c EXCEPT !.does = "close"] \in Call
      BY <2>1 DEF Call
    <2>3. /\ calls' \subseteq Call /\ agent' \in BOOLEAN /\ opened' \subseteq Intervals
          /\ UNCHANGED <<scans, session, ticking, feed, recent>>
      BY <1>1, <1>4, <2>2 DEF AgentStarts, AgentStops, Closed, Then
    <2> QED
      BY <1>1, <2>3 DEF ScannerInv, ScannerTypeOK, ActiveIsPolled, Sessions
  <1>5. ASSUME NEW c \in calls, Opened(c, Me) PROVE ScannerInv'
    <2>1. c.no \in Intervals /\ c.no \in 0..MaxStarts
      BY <1>1, ScannerBounds DEF Call, Intervals
    <2>2. session' \in Sessions /\ session'.interval = c.no
      BY <1>1, <1>5, <2>1 DEF Opened, Sessions
    <2>3. /\ calls' \subseteq Call /\ opened' \subseteq Intervals /\ ticking' = ticking \cup {c.no}
          /\ UNCHANGED <<agent, scans, feed, recent>>
      BY <1>1, <1>5, <2>1 DEF Opened
    <2> QED
      BY <1>1, <2>1, <2>2, <2>3 DEF ScannerInv, ScannerTypeOK, ActiveIsPolled, Sessions
  <1>6. CASE poll \/ Scan \/ \E n \in recent : setScans(n)
    <2>1. /\ scans' \in 0..MaxScans /\ feed' \in 0..MaxScans /\ recent' \subseteq 0..MaxScans
          /\ UNCHANGED <<agent, opened, session, calls, ticking>>
      <3>1. CASE poll
        BY <1>1, <3>1 DEF poll
      <3>2. CASE Scan
        <4>1. scans \in Nat /\ scans < MaxScans /\ scans' = scans + 1
          BY <1>1, <3>2, ScannerBounds DEF Scan
        <4>2. scans' \in 0..MaxScans
          BY <4>1, ScannerBounds
        <4> QED
          BY <1>1, <3>2, <4>2 DEF Scan
      <3>3. CASE \E n \in recent : setScans(n)
        BY <1>1, <3>3 DEF setScans
      <3> QED
        BY <1>6, <3>1, <3>2, <3>3
    <2> QED
      BY <1>1, <2>1 DEF ScannerInv, ScannerTypeOK, ActiveIsPolled, Sessions
  <1>7. CASE UNCHANGED scannerVars
    BY <1>7 DEF scannerVars, ScannerInv, ScannerTypeOK, ActiveIsPolled
  <1> QED
    BY <1>2, <1>3, <1>4, <1>5, <1>6, <1>7 DEF ScannerNext

(***************************************************************************)
(* The pages together.                                                     *)
(***************************************************************************)
PagesInv == OutwardInv /\ ValidationInv /\ SubmissionTypeOK /\ ScannerInv

LEMMA PagesInitInv == Init => PagesInv
  BY OutwardInitInv, ValidationInitInv, SubmissionInitType, ScannerInitInv DEF Init, PagesInv

\* A step is one of each page, or leaves the page alone.
LEMMA OnePage ==
  [Next]_pagesVars =>
    /\ [OutwardNext]_outwardVars /\ [ValidationNext]_validationVars
    /\ [SubmissionNext]_submissionVars /\ [ScannerNext]_scannerVars
  BY DEF Next, pagesVars, OnQueue, OnValidation, OnSubmission, OnScanner

LEMMA PagesStepInv == PagesInv /\ [Next]_pagesVars => PagesInv'
  BY OnePage, OutwardStep, ValidationStep, SubmissionStep, ScannerStep DEF PagesInv

LEMMA PagesAlwaysInv == Spec => []PagesInv
  BY PagesInitInv, PagesStepInv, PTL DEF Spec

\* The shape of the four pages; the page that files never has a row in its panel that is
\* not among its rows (CTSSubmissionQueue.jsx).
THEOREM PagesTypeCorrect == Spec => []TypeOK
  <1>1. PagesInv => TypeOK
    BY DEF PagesInv, OutwardInv, ValidationInv, ScannerInv, TypeOK
  <1> QED
    BY <1>1, PagesAlwaysInv, PTL

\* However lists and answers overtake one another and whatever is refused or lost: what
\* the maker's page shows as decided is decided or still under way (CTSOutwardQueue.jsx).
THEOREM ShownAsDecidedIsDecided == Spec => []DecidedIsStaged
  <1>1. PagesInv => DecidedIsStaged
    BY DEF PagesInv, OutwardInv
  <1> QED
    BY <1>1, PagesAlwaysInv, PTL

\* However old the row a checker approves: what is filed for the approval is the maker's
\* decision (handleApprove of CTSValidationQueue.jsx, validate_outward_review).
THEOREM ApprovalsRepeatTheMaker == Spec => []ApprovalAgrees
  <1>1. PagesInv => ApprovalAgrees
    BY DEF PagesInv, ValidationInv
  <1> QED
    BY <1>1, PagesAlwaysInv, PTL

\* However starts and stops overlap, a session that is shown is polled (CTSScanner.jsx).
THEOREM ShownSessionIsPolled == Spec => []ActiveIsPolled
  <1>1. PagesInv => ActiveIsPolled
    BY DEF PagesInv, ScannerInv
  <1> QED
    BY <1>1, PagesAlwaysInv, PTL
===========================================================================
