--------------------------- MODULE CustodyProofs ---------------------------
(***************************************************************************)
(* What the custody of paper originals promises for any number of          *)
(* originals, batches and members of staff: an original's history is the   *)
(* way to where it is, a batch stays whole, and nobody receives what they  *)
(* sent themselves.                                                        *)
(***************************************************************************)
EXTENDS Custody, SequenceTheorems, TLAPS

(***************************************************************************)
(* The inductive invariant.                                                *)
(***************************************************************************)
\* An original has a batch from the handover on; a batch that is not used yet is blank.
PlacesInv ==
  /\ \A i \in Items : custody[i].status = "AT_BRANCH" <=> custody[i].batch = 0
  /\ \A b \in Batches : handover[b].status = "none" <=> handover[b] = NoBatch

\* A request to receive is for a batch, and what it is about to write was found in a
\* batch that somebody else sent.
ReceiversInv ==
  \A p \in Keepers :
    /\ act[p].op = "receive" /\ act[p].step \in {"look", "write"} =>
         act[p].batch \in Batches
    /\ act[p].op = "receive" /\ act[p].step = "write" =>
         /\ handover[act[p].batch] # NoBatch
         /\ handover[act[p].batch].by # p
         /\ act[p].items \subseteq handover[act[p].batch].items

CustodyInv ==
  CustodyTypeOK /\ PlacesInv /\ ReceiversInv /\ HistoryIsTheWay /\ BatchIsWhole

LEMMA CustodyInitInv == CustodyInit => CustodyInv
  <1> SUFFICES ASSUME CustodyInit PROVE CustodyInv
    OBVIOUS
  <1> USE KeepersAssumption, MaxBatchesAssumption DEF CustodyInit, NoBatch, NoAct, Batches, Keepers
  <1>1. CustodyTypeOK
    BY DEF CustodyTypeOK, Events
  <1>2. PlacesInv /\ ReceiversInv
    BY DEF PlacesInv, ReceiversInv
  <1>3. HistoryIsTheWay
    BY DEF HistoryIsTheWay, WayTo
  <1>4. BatchIsWhole
    BY DEF BatchIsWhole, InTransit
  <1> QED
    BY <1>1, <1>2, <1>3, <1>4 DEF CustodyInv

(***************************************************************************)
(* Requests.                                                               *)
(***************************************************************************)
\* What a step may do to the batches and to the requests of others.
Kept ==
  \A b \in Batches : handover[b] # NoBatch =>
    handover'[b] # NoBatch /\ handover'[b].by = handover[b].by
                          /\ handover'[b].items = handover[b].items

Acts == [Keepers -> [op : {"none", "handover", "receive", "dispose"},
                     step : {"none", "look", "write", "done", "refused"},
                     items : SUBSET Items, batch : {0} \cup Batches]]

NoReceiver(q) ==
  act'[q].op = "receive" =>
    /\ act'[q].step # "write"
    /\ act'[q].step = "look" => act'[q].batch \in Batches

\* A receipt leaves a row of a batch a row of a batch.
HandoverRows == [status : {"none", "IN_TRANSIT", "RECEIVED", "DISCREPANCY"},
         by : Keepers \cup {None}, items : SUBSET Items, receiver : Keepers \cup {None}]

LEMMA ReceiptKeepsRows ==
  ASSUME NEW f \in [Batches -> HandoverRows], NEW b \in Batches, NEW p \in Keepers,
         NEW st \in {"RECEIVED", "DISCREPANCY"}
  PROVE  [f EXCEPT ![b].status = st, ![b].receiver = p] \in [Batches -> HandoverRows]
  BY DEF HandoverRows

LEMMA ReceiversStay ==
  ASSUME ReceiversInv, Kept, \A q \in Keepers : act'[q] = act[q] \/ NoReceiver(q)
  PROVE  ReceiversInv'
  BY DEF ReceiversInv, Kept, NoReceiver

\* An answer leaves a request that writes no more.
LEMMA AnswerEnds ==
  ASSUME CustodyTypeOK, NEW p \in Keepers, NEW step \in {"done", "refused"}, Answer(p, step)
  PROVE  /\ act' \in Acts
         /\ \A q \in Keepers : act'[q] = act[q] \/ NoReceiver(q)
  <1>1. act \in Acts
    BY DEF CustodyTypeOK, Acts
  <1>2. CASE p = Me
    <2>1. act' = [act EXCEPT ![p] = [op |-> act[p].op, step |-> step, items |-> {}, batch |-> 0]]
      BY <1>2 DEF Answer, NoAct
    <2> QED
      BY <1>1, <2>1 DEF NoReceiver, Acts
  <1>3. CASE p # Me
    <2>1. act' = [act EXCEPT ![p] = NoAct]
      BY <1>3 DEF Answer
    <2> QED
      BY <1>1, <2>1 DEF NoReceiver, NoAct, Acts
  <1> QED
    BY <1>2, <1>3

\* A step of the page or of a request that writes nothing.
LEMMA NothingWritten ==
  ASSUME CustodyInv, UNCHANGED <<custody, handover, history>>,
         act' \in Acts, \A q \in Keepers : act'[q] = act[q] \/ NoReceiver(q),
         expired' \subseteq Items, picked' \subseteq Items,
         shown' \in [pending : SUBSET Items, transit : SUBSET Batches, due : SUBSET Items]
  PROVE  CustodyInv'
  <1>1. CustodyTypeOK'
    BY DEF CustodyInv, CustodyTypeOK, Acts
  <1>2. ReceiversInv'
    <2>1. Kept
      BY DEF Kept
    <2> QED
      BY <2>1, ReceiversStay DEF CustodyInv
  <1>3. PlacesInv' /\ HistoryIsTheWay' /\ BatchIsWhole'
    BY DEF CustodyInv, PlacesInv, HistoryIsTheWay, BatchIsWhole, InTransit
  <1> QED
    BY <1>1, <1>2, <1>3 DEF CustodyInv

LEMMA AnswerKeeps ==
  ASSUME CustodyInv, NEW p \in Keepers, NEW step \in {"done", "refused"}, Answer(p, step),
         UNCHANGED <<custody, handover, history>>, Elsewhere
  PROVE  CustodyInv'
  <1>1. act' \in Acts /\ \A q \in Keepers : act'[q] = act[q] \/ NoReceiver(q)
    BY AnswerEnds DEF CustodyInv
  <1>2. UNCHANGED <<expired, shown, picked>> /\ CustodyTypeOK
    BY DEF Elsewhere, CustodyInv
  <1>3. /\ expired' \subseteq Items /\ picked' \subseteq Items
        /\ shown' \in [pending : SUBSET Items, transit : SUBSET Batches, due : SUBSET Items]
    BY <1>2 DEF CustodyTypeOK
  <1> QED
    BY <1>1, <1>3, NothingWritten

LEMMA TurnedKeeps ==
  ASSUME CustodyInv, NEW p \in Keepers, Turned(p), Elsewhere
  PROVE  CustodyInv'
  BY AnswerKeeps DEF Turned

LEMMA AskStarts ==
  ASSUME CustodyTypeOK, NEW p \in Keepers, NEW S \in SUBSET Items, NEW b \in {0} \cup Batches,
         NEW op \in {"handover", "receive", "dispose"}, op = "receive" => b \in Batches,
         Ask(p, op, S, b)
  PROVE  act' \in Acts /\ \A q \in Keepers : act'[q] = act[q] \/ NoReceiver(q)
  <1>1. act \in Acts
    BY DEF CustodyTypeOK, Acts
  <1>2. act' = [act EXCEPT ![p] = [op |-> op, step |-> "look", items |-> S, batch |-> b]]
    BY DEF Ask
  <1> QED
    BY <1>1, <1>2 DEF NoReceiver, Acts

(***************************************************************************)
(* The page, and what others ask for.                                      *)
(***************************************************************************)
LEMMA AskKeeps ==
  ASSUME CustodyInv, NEW p \in Keepers, NEW S \in SUBSET Items, NEW b \in {0} \cup Batches,
         NEW op \in {"handover", "receive", "dispose"}, op = "receive" => b \in Batches,
         Ask(p, op, S, b), Press
  PROVE  CustodyInv'
  <1>1. act' \in Acts /\ \A q \in Keepers : act'[q] = act[q] \/ NoReceiver(q)
    BY AskStarts DEF CustodyInv
  <1>2. UNCHANGED <<custody, handover, history, expired, shown, picked>> /\ CustodyTypeOK
    BY DEF Press, CustodyInv
  <1>3. /\ expired' \subseteq Items /\ picked' \subseteq Items
        /\ shown' \in [pending : SUBSET Items, transit : SUBSET Batches, due : SUBSET Items]
    BY <1>2 DEF CustodyTypeOK
  <1> QED
    BY <1>1, <1>2, <1>3, NothingWritten

LEMMA PageKeeps ==
  ASSUME CustodyInv,
         \/ \E i \in Items : setPicked(i) \/ disposeOf(i) \/ RetentionEnds(i)
         \/ \E b \in Batches : receive(b)
         \/ handOver \/ setNotice \/ OpenPage
         \/ \E p \in Keepers \ {Me} : OtherAsks(p)
  PROVE  CustodyInv'
  <1> USE DEF CustodyInv
  <1>a. Me \in Keepers
    BY KeepersAssumption DEF Keepers
  <1>b. /\ act \in Acts /\ expired \subseteq Items /\ picked \subseteq Items
        /\ shown \in [pending : SUBSET Items, transit : SUBSET Batches, due : SUBSET Items]
    BY DEF CustodyTypeOK, Acts
  <1>c. Listed \in [pending : SUBSET Items, transit : SUBSET Batches, due : SUBSET Items]
    BY DEF Listed, AtBranch, Stored
  <1>1. ASSUME NEW i \in Items, setPicked(i) \/ RetentionEnds(i) PROVE CustodyInv'
    <2>1. UNCHANGED <<custody, handover, history, act, shown>>
      BY <1>1 DEF setPicked, RetentionEnds
    <2>2. expired' \subseteq Items /\ picked' \subseteq Items
      BY <1>1, <1>b DEF setPicked, RetentionEnds
    <2> HIDE DEF CustodyInv
    <2> QED
      BY <1>b, <2>1, <2>2, NothingWritten
  <1>2. ASSUME NEW i \in Items, disposeOf(i) PROVE CustodyInv'
    <2>1. Ask(Me, "dispose", {i}, 0) /\ Press
      BY <1>2 DEF disposeOf
    <2> HIDE DEF CustodyInv
    <2> QED
      BY <1>a, <2>1, AskKeeps
  <1>3. ASSUME NEW b \in Batches, receive(b) PROVE CustodyInv'
    <2>1. Ask(Me, "receive", {}, b) /\ Press
      BY <1>3 DEF receive
    <2> HIDE DEF CustodyInv
    <2> QED
      BY <1>a, <2>1, AskKeeps
  <1>4. CASE handOver
    <2>1. Ask(Me, "handover", chosen, 0) /\ Press
      BY <1>4 DEF handOver
    <2>2. chosen \in SUBSET Items
      BY <1>b DEF chosen
    <2> HIDE DEF CustodyInv
    <2> QED
      BY <1>a, <2>1, <2>2, AskKeeps
  <1>5. CASE setNotice
    <2>1. UNCHANGED <<custody, handover, history, expired>> /\ act' = [act EXCEPT ![Me] = NoAct]
      BY <1>5 DEF setNotice
    <2>2. act' \in Acts /\ \A q \in Keepers : act'[q] = act[q] \/ NoReceiver(q)
      BY <1>b, <2>1 DEF Acts, NoAct, NoReceiver
    <2>3. shown' \in [pending : SUBSET Items, transit : SUBSET Batches, due : SUBSET Items]
      BY <1>5, <1>b, <1>c DEF setNotice, load
    <2>4. picked' \subseteq Items
      BY <1>5, <1>b DEF setNotice
    <2> HIDE DEF CustodyInv
    <2> QED
      BY <1>b, <2>1, <2>2, <2>3, <2>4, NothingWritten
  <1>6. CASE OpenPage
    <2>1. UNCHANGED <<custody, handover, history, expired, act>> /\ picked' = {}
      BY <1>6 DEF OpenPage
    <2>2. shown' \in [pending : SUBSET Items, transit : SUBSET Batches, due : SUBSET Items]
      BY <1>6, <1>b, <1>c DEF OpenPage, load
    <2> HIDE DEF CustodyInv
    <2> QED
      BY <1>b, <2>1, <2>2, NothingWritten
  <1>7. ASSUME NEW p \in Keepers, OtherAsks(p) PROVE CustodyInv'
    <2>1. Press
      BY <1>7 DEF OtherAsks
    <2>2. ASSUME NEW S \in SUBSET Items, Ask(p, "handover", S, 0) PROVE CustodyInv'
      <3> HIDE DEF CustodyInv
      <3> QED
        BY <2>1, <2>2, AskKeeps
    <2>3. ASSUME NEW b \in Batches, Ask(p, "receive", {}, b) PROVE CustodyInv'
      <3> HIDE DEF CustodyInv
      <3> QED
        BY <2>1, <2>3, AskKeeps
    <2>4. ASSUME NEW i \in Items, Ask(p, "dispose", {i}, 0) PROVE CustodyInv'
      <3> HIDE DEF CustodyInv
      <3> QED
        BY <2>1, <2>4, AskKeeps
    <2> QED
      BY <1>7, <2>2, <2>3, <2>4 DEF OtherAsks
  <1> QED
    BY <1>1, <1>2, <1>3, <1>4, <1>5, <1>6, <1>7

\* What Append does to a history of one event and to one of two.
LEMMA AppendSecond == ASSUME NEW d \in Events, NEW e \in Events PROVE Append(<<d>>, e) = <<d, e>>
  <1> DEFINE s == Append(<<d>>, e)
             t == <<d, e>>
  <1>1. <<d>> \in Seq(Events) /\ Len(<<d>>) = 1 /\ <<d>>[1] = d
    OBVIOUS
  <1>2. t \in Seq(Events) /\ Len(t) = 2 /\ t[1] = d /\ t[2] = e
    OBVIOUS
  <1>3. s \in Seq(Events) /\ Len(s) = 2 /\ s[1] = d /\ s[2] = e
    BY <1>1, AppendProperties
  <1> HIDE DEF s, t
  <1>4. s = t
    BY <1>2, <1>3, SeqEqual
  <1> QED
    BY <1>4 DEF s, t

LEMMA AppendThird ==
  ASSUME NEW c \in Events, NEW d \in Events, NEW e \in Events
  PROVE  Append(<<c, d>>, e) = <<c, d, e>>
  <1> DEFINE s == Append(<<c, d>>, e)
             t == <<c, d, e>>
  <1>1. <<c, d>> \in Seq(Events) /\ Len(<<c, d>>) = 2 /\ <<c, d>>[1] = c /\ <<c, d>>[2] = d
    OBVIOUS
  <1>2. t \in Seq(Events) /\ Len(t) = 3 /\ t[1] = c /\ t[2] = d /\ t[3] = e
    OBVIOUS
  <1>3. s \in Seq(Events) /\ Len(s) = 3 /\ s[1] = c /\ s[2] = d /\ s[3] = e
    BY <1>1, AppendProperties
  <1> HIDE DEF s, t
  <1>4. s = t
    BY <1>2, <1>3, SeqEqual
  <1> QED
    BY <1>4 DEF s, t

LEMMA WayValues ==
  /\ WayTo("AT_BRANCH") = <<>>
  /\ WayTo("IN_TRANSIT") = <<"HANDED_OVER">>
  /\ WayTo("STORED") = <<"HANDED_OVER", "RECEIVED">>
  /\ WayTo("MISSING") = <<"HANDED_OVER", "MISSING">>
  /\ WayTo("DISPOSED") = <<"HANDED_OVER", "RECEIVED", "DISPOSED">>
  <1>1. WayTo("AT_BRANCH") = <<>>
    BY DEF WayTo
  <1>2. WayTo("IN_TRANSIT") = <<"HANDED_OVER">>
    BY DEF WayTo
  <1>3. WayTo("STORED") = <<"HANDED_OVER", "RECEIVED">>
    BY DEF WayTo
  <1>4. WayTo("MISSING") = <<"HANDED_OVER", "MISSING">>
    BY DEF WayTo
  <1>5. WayTo("DISPOSED") = <<"HANDED_OVER", "RECEIVED", "DISPOSED">>
    BY DEF WayTo
  <1> QED
    BY <1>1, <1>2, <1>3, <1>4, <1>5

\* Each event leads from one place to the next.
LEMMA Ways ==
  /\ Append(WayTo("AT_BRANCH"), "HANDED_OVER") = WayTo("IN_TRANSIT")
  /\ Append(WayTo("IN_TRANSIT"), "RECEIVED") = WayTo("STORED")
  /\ Append(WayTo("IN_TRANSIT"), "MISSING") = WayTo("MISSING")
  /\ Append(WayTo("STORED"), "DISPOSED") = WayTo("DISPOSED")
  <1>1. Append(<<>>, "HANDED_OVER") = <<"HANDED_OVER">>
    OBVIOUS
  <1>2. Append(<<"HANDED_OVER">>, "RECEIVED") = <<"HANDED_OVER", "RECEIVED">>
    BY AppendSecond DEF Events
  <1>3. Append(<<"HANDED_OVER">>, "MISSING") = <<"HANDED_OVER", "MISSING">>
    BY AppendSecond DEF Events
  <1>4. Append(<<"HANDED_OVER", "RECEIVED">>, "DISPOSED") = <<"HANDED_OVER", "RECEIVED", "DISPOSED">>
    BY AppendThird DEF Events
  <1> QED
    BY <1>1, <1>2, <1>3, <1>4, WayValues

LEMMA WaysAreHistories ==
  \A s \in {"AT_BRANCH", "IN_TRANSIT", "STORED", "MISSING", "DISPOSED"} : WayTo(s) \in Seq(Events)
  <1>1. /\ <<>> \in Seq(Events) /\ <<"HANDED_OVER">> \in Seq(Events)
        /\ <<"HANDED_OVER", "RECEIVED">> \in Seq(Events)
        /\ <<"HANDED_OVER", "MISSING">> \in Seq(Events)
        /\ <<"HANDED_OVER", "RECEIVED", "DISPOSED">> \in Seq(Events)
    BY DEF Events
  <1> QED
    BY <1>1, WayValues

(***************************************************************************)
(* Requests that write.                                                    *)
(***************************************************************************)
LEMMA CreateKeeps ==
  ASSUME CustodyInv, NEW p \in Keepers, create_handover(p)
  PROVE  CustodyInv'
  <1>1. UNCHANGED <<custody, handover, history>> /\ Elsewhere /\ Doing(p, "handover", "look")
    BY DEF create_handover
  <1>2. CASE Answer(p, "refused")
    BY <1>1, <1>2, AnswerKeeps
  <1>3. CASE Goto(p, "write")
    <2>1. act \in Acts /\ act' = [act EXCEPT ![p].step = "write"]
      BY <1>3 DEF CustodyInv, CustodyTypeOK, Acts, Goto
    <2>2. act' \in Acts /\ \A q \in Keepers : act'[q] = act[q] \/ NoReceiver(q)
      BY <1>1, <2>1 DEF Acts, NoReceiver, Doing
    <2>3. /\ expired' \subseteq Items /\ picked' \subseteq Items
          /\ shown' \in [pending : SUBSET Items, transit : SUBSET Batches, due : SUBSET Items]
      BY <1>1 DEF CustodyInv, CustodyTypeOK, Elsewhere
    <2> QED
      BY <1>1, <2>2, <2>3, NothingWritten
  <1> QED
    BY <1>2, <1>3 DEF create_handover

\* What a request to receive found stays true until it writes.
LEMMA LookKeeps ==
  ASSUME CustodyInv, NEW p \in Keepers, receive_handover(p)
  PROVE  CustodyInv'
  <1> DEFINE b == act[p].batch
  <1>1. UNCHANGED <<custody, handover, history>> /\ Elsewhere /\ Doing(p, "receive", "look")
    BY DEF receive_handover
  <1>2. CASE Answer(p, "refused")
    BY <1>1, <1>2, AnswerKeeps
  <1>3. ASSUME NEW arrived \in SUBSET handover[b].items, MayReceive(p, b),
               act' = [act EXCEPT ![p].step = "write", ![p].items = arrived]
        PROVE  CustodyInv'
    <2>1. act \in Acts /\ b \in Batches
      BY <1>1 DEF CustodyInv, CustodyTypeOK, Acts, ReceiversInv, Doing
    <2>2. handover[b].items \subseteq Items
      BY <2>1 DEF CustodyInv, CustodyTypeOK
    <2>3. act' \in Acts
      BY <1>3, <2>1, <2>2 DEF Acts
    <2>4. CustodyTypeOK'
      BY <1>1, <2>3 DEF CustodyInv, CustodyTypeOK, Acts, Elsewhere
    <2>5. ReceiversInv'
      <3>1. handover[b] # NoBatch /\ handover[b].by # p
        BY <1>3 DEF MayReceive, InTransit, NoBatch
      <3>2. /\ act'[p].batch = b /\ act'[p].items = arrived
            /\ \A q \in Keepers : q # p => act'[q] = act[q]
        BY <1>3, <2>1 DEF Acts
      <3> QED
        BY <1>1, <1>3, <2>1, <3>1, <3>2 DEF CustodyInv, ReceiversInv
    <2>6. PlacesInv' /\ HistoryIsTheWay' /\ BatchIsWhole'
      BY <1>1 DEF CustodyInv, PlacesInv, HistoryIsTheWay, BatchIsWhole, InTransit
    <2> QED
      BY <2>4, <2>5, <2>6 DEF CustodyInv
  <1> QED
    BY <1>2, <1>3 DEF receive_handover

LEMMA InsertKeeps ==
  ASSUME CustodyInv, NEW p \in Keepers, InsertHandover(p)
  PROVE  CustodyInv'
  <1>1. CASE Turned(p)
    BY <1>1, TurnedKeeps DEF InsertHandover
  <1>2. ASSUME ~Conflicts(p), NEW b \in Unused,
               handover' = [handover EXCEPT ![b] = [status |-> "IN_TRANSIT", by |-> p,
                              items |-> act[p].items, receiver |-> None]],
               custody' = [i \in Items |->
                 IF i \in act[p].items \cap AtBranch
                   THEN [status |-> "IN_TRANSIT", batch |-> b] ELSE custody[i]],
               Record(act[p].items, "HANDED_OVER"),
               Answer(p, "done")
        PROVE  CustodyInv'
    <2> DEFINE S == act[p].items
    <2>1. /\ S \subseteq Items /\ S \subseteq AtBranch
          /\ \A i \in S : custody[i].status = "AT_BRANCH" /\ custody[i].batch = 0
      <3>1. S \subseteq AtBranch
        BY <1>2 DEF Conflicts
      <3> QED
        BY <3>1 DEF AtBranch, CustodyInv, PlacesInv
    <2>2. b \in Batches /\ handover[b] = NoBatch /\ b # 0
      BY MaxBatchesAssumption, <1>2 DEF Unused, Batches
    <2>3. \A c \in Batches : c # b => handover'[c] = handover[c]
      BY <1>2 DEF CustodyInv, CustodyTypeOK
    <2>4. handover'[b] = [status |-> "IN_TRANSIT", by |-> p, items |-> S, receiver |-> None]
      BY <1>2, <2>2 DEF CustodyInv, CustodyTypeOK
    <2>5. \A i \in Items : custody'[i] = IF i \in S THEN [status |-> "IN_TRANSIT", batch |-> b]
                                                    ELSE custody[i]
      BY <1>2, <2>1
    <2>6. act' \in Acts /\ \A q \in Keepers : act'[q] = act[q] \/ NoReceiver(q)
      BY <1>2, AnswerEnds DEF CustodyInv
    <2>7. HistoryIsTheWay'
      <3>1. \A i \in Items : history'[i] = IF i \in S THEN Append(history[i], "HANDED_OVER")
                                                      ELSE history[i]
        BY <1>2 DEF Record
      <3>2. ASSUME NEW i \in Items PROVE history'[i] = WayTo(custody'[i].status)
        <4>1. history[i] = WayTo(custody[i].status)
          BY DEF CustodyInv, HistoryIsTheWay
        <4>2. CASE i \in S
          <5>1. custody[i].status = "AT_BRANCH" /\ custody'[i].status = "IN_TRANSIT"
            BY <2>1, <2>5, <4>2
          <5> QED
            BY <3>1, <4>1, <4>2, <5>1, Ways
        <4>3. CASE i \notin S
          BY <2>5, <3>1, <4>1, <4>3
        <4> QED
          BY <4>2, <4>3
      <3> QED
        BY <3>2 DEF HistoryIsTheWay
    <2>8. CustodyTypeOK'
      <3>1. custody' \in [Items -> [status : {"AT_BRANCH", "IN_TRANSIT", "STORED", "MISSING", "DISPOSED"},
                                    batch : {0} \cup Batches]]
        BY <1>2, <2>2 DEF CustodyInv, CustodyTypeOK
      <3>2. handover' \in [Batches -> [status : {"none", "IN_TRANSIT", "RECEIVED", "DISCREPANCY"},
                               by : Keepers \cup {None}, items : SUBSET Items,
                               receiver : Keepers \cup {None}]]
        BY <1>2, <2>1, <2>2 DEF CustodyInv, CustodyTypeOK
      <3>3. history' \in [Items -> Seq(Events)]
        <4>1. \A i \in Items : custody'[i].status \in {"AT_BRANCH", "IN_TRANSIT", "STORED", "MISSING", "DISPOSED"}
          BY <3>1
        <4>2. \A i \in Items : history'[i] \in Seq(Events)
          BY <2>7, <4>1, WaysAreHistories DEF HistoryIsTheWay
        <4> QED
          BY <1>2, <4>2 DEF Record
      <3>4. UNCHANGED <<expired, shown, picked>>
        BY DEF InsertHandover, Elsewhere
      <3> QED
        BY <2>6, <3>1, <3>2, <3>3, <3>4 DEF CustodyInv, CustodyTypeOK, Acts
    <2>9. ReceiversInv'
      <3>1. Kept
        BY <2>2, <2>3 DEF Kept
      <3> QED
        BY <2>6, <3>1, ReceiversStay DEF CustodyInv
    <2>10. PlacesInv'
      BY <2>1, <2>2, <2>3, <2>4, <2>5 DEF CustodyInv, PlacesInv, NoBatch
    <2>11. BatchIsWhole'
      <3>1. ASSUME NEW c \in Batches, c # b
            PROVE  /\ handover[c].items = {i \in Items : custody'[i].batch = c}
                   /\ \A i \in handover[c].items : custody'[i] = custody[i]
        <4>1. handover[c].items = {i \in Items : custody[i].batch = c} /\ c # 0
          BY MaxBatchesAssumption, <3>1 DEF CustodyInv, BatchIsWhole, Batches
        <4> QED
          BY <2>1, <2>5, <3>1, <4>1
      <3>2. S = {i \in Items : custody'[i].batch = b}
        <4>1. {i \in Items : custody[i].batch = b} = {}
          BY <2>2 DEF CustodyInv, BatchIsWhole, NoBatch
        <4> QED
          BY <2>1, <2>5, <4>1
      <3>3. \A i \in S : custody'[i].status = "IN_TRANSIT"
        BY <2>1, <2>5
      <3> QED
        BY <2>3, <2>4, <3>1, <3>2, <3>3 DEF CustodyInv, BatchIsWhole, InTransit
    <2> QED
      BY <2>7, <2>8, <2>9, <2>10, <2>11 DEF CustodyInv
  <1> QED
    BY <1>1, <1>2 DEF InsertHandover

LEMMA ReceiveKeeps ==
  ASSUME CustodyInv, NEW p \in Keepers, ReceiveBatch(p)
  PROVE  CustodyInv'
  <1> DEFINE b       == act[p].batch
             arrived == act[p].items
             missing == handover[b].items \ arrived
             Now(i)  == IF i \in arrived THEN "STORED" ELSE "MISSING"
  <1>1. CASE ~Claims(p)
    BY <1>1, TurnedKeeps DEF ReceiveBatch
  <1>2. CASE Claims(p)
    <2>1. /\ handover' = [handover EXCEPT
               ![b].status = IF missing = {} THEN "RECEIVED" ELSE "DISCREPANCY",
               ![b].receiver = p]
          /\ custody' = [i \in Items |->
               IF i \in handover[b].items /\ custody[i].status = "IN_TRANSIT"
                 THEN [custody[i] EXCEPT !.status = Now(i)] ELSE custody[i]]
          /\ history' = [i \in Items |->
               IF i \in arrived THEN Append(history[i], "RECEIVED")
               ELSE IF i \in missing THEN Append(history[i], "MISSING") ELSE history[i]]
          /\ Answer(p, "done") /\ Elsewhere /\ Doing(p, "receive", "write")
      BY <1>2 DEF ReceiveBatch
    <2>2. b \in Batches /\ handover[b] # NoBatch /\ handover[b].by # p /\ handover[b].status = "IN_TRANSIT"
      BY <1>2, <2>1 DEF CustodyInv, ReceiversInv, Doing, Claims, InTransit
    <2>3. /\ arrived \subseteq handover[b].items /\ handover[b].items \subseteq Items
          /\ \A i \in handover[b].items : custody[i].status = "IN_TRANSIT" /\ custody[i].batch = b
      <3>1. arrived \subseteq handover[b].items
        BY <2>1 DEF CustodyInv, ReceiversInv, Doing
      <3>2. handover[b].items = {i \in Items : custody[i].batch = b}
        BY <2>2 DEF CustodyInv, BatchIsWhole
      <3>3. \A i \in handover[b].items : custody[i].status = "IN_TRANSIT"
        BY <2>2 DEF CustodyInv, BatchIsWhole, InTransit
      <3> QED
        BY <3>1, <3>2, <3>3
    <2> HIDE DEF b, arrived
    <2>4. /\ \A c \in Batches : c # b => handover'[c] = handover[c]
          /\ handover'[b].status \in {"RECEIVED", "DISCREPANCY"} /\ handover'[b].receiver = p
          /\ handover'[b].by = handover[b].by /\ handover'[b].items = handover[b].items
      BY <2>1, <2>2 DEF CustodyInv, CustodyTypeOK
    <2>5. \A i \in Items :
            /\ custody'[i].batch = custody[i].batch
            /\ i \in handover[b].items => custody'[i].status = Now(i)
            /\ i \notin handover[b].items => custody'[i] = custody[i]
      BY <2>1, <2>3 DEF CustodyInv, CustodyTypeOK
    <2>6. act' \in Acts /\ \A q \in Keepers : act'[q] = act[q] \/ NoReceiver(q)
      BY <2>1, AnswerEnds DEF CustodyInv
    <2>7. HistoryIsTheWay'
      <3>1. ASSUME NEW i \in Items PROVE history'[i] = WayTo(custody'[i].status)
        <4>1. history[i] = WayTo(custody[i].status)
          BY DEF CustodyInv, HistoryIsTheWay
        <4>2. CASE i \in arrived
          BY <2>1, <2>3, <2>5, <4>1, <4>2, Ways
        <4>3. CASE i \in missing
          BY <2>1, <2>3, <2>5, <4>1, <4>3, Ways
        <4>4. CASE i \notin handover[b].items
          BY <2>1, <2>3, <2>5, <4>1, <4>4
        <4> QED
          BY <4>2, <4>3, <4>4
      <3> QED
        BY <3>1 DEF HistoryIsTheWay
    <2>8. CustodyTypeOK'
      <3>1. custody' \in [Items -> [status : {"AT_BRANCH", "IN_TRANSIT", "STORED", "MISSING", "DISPOSED"},
                                    batch : {0} \cup Batches]]
        BY <2>1 DEF CustodyInv, CustodyTypeOK
      <3>2. handover' \in [Batches -> [status : {"none", "IN_TRANSIT", "RECEIVED", "DISCREPANCY"},
                               by : Keepers \cup {None}, items : SUBSET Items,
                               receiver : Keepers \cup {None}]]
        <4> DEFINE st == IF missing = {} THEN "RECEIVED" ELSE "DISCREPANCY"
        <4>1. st \in {"RECEIVED", "DISCREPANCY"}
          OBVIOUS
        <4>2. handover' = [handover EXCEPT ![b].status = st, ![b].receiver = p]
          BY <2>1
        <4>3. handover \in [Batches -> HandoverRows]
          BY DEF CustodyInv, CustodyTypeOK, HandoverRows
        <4> HIDE DEF st
        <4>4. handover' \in [Batches -> HandoverRows]
          BY <2>2, <4>1, <4>2, <4>3, ReceiptKeepsRows
        <4> QED
          BY <4>4 DEF HandoverRows
      <3>3. history' \in [Items -> Seq(Events)]
        <4>1. \A i \in Items : custody'[i].status \in {"AT_BRANCH", "IN_TRANSIT", "STORED", "MISSING", "DISPOSED"}
          BY <3>1
        <4>2. \A i \in Items : history'[i] \in Seq(Events)
          BY <2>7, <4>1, WaysAreHistories DEF HistoryIsTheWay
        <4> QED
          BY <2>1, <4>2
      <3>4. UNCHANGED <<expired, shown, picked>>
        BY <2>1 DEF Elsewhere
      <3> QED
        BY <2>6, <3>1, <3>2, <3>3, <3>4 DEF CustodyInv, CustodyTypeOK, Acts
    <2>9. ReceiversInv'
      <3>1. Kept
        BY <2>2, <2>4 DEF Kept, NoBatch
      <3> QED
        BY <2>6, <3>1, ReceiversStay DEF CustodyInv
    <2>10. PlacesInv'
      <3>1. \A i \in Items : custody'[i].status = "AT_BRANCH" <=> custody'[i].batch = 0
        BY <2>3, <2>5, MaxBatchesAssumption DEF CustodyInv, PlacesInv
      <3>2. ASSUME NEW c \in Batches PROVE handover'[c].status = "none" <=> handover'[c] = NoBatch
        <4>1. NoBatch.status = "none"
          BY DEF NoBatch
        <4>2. CASE c = b
          BY <2>4, <4>1, <4>2
        <4>3. CASE c # b
          BY <2>4, <4>3 DEF CustodyInv, PlacesInv
        <4> QED
          BY <4>2, <4>3
      <3> QED
        BY <3>1, <3>2 DEF PlacesInv, NoBatch
    <2>11. BatchIsWhole'
      <3>1. ASSUME NEW c \in Batches
            PROVE  handover'[c].items = {i \in Items : custody'[i].batch = c}
        BY <2>4, <2>5 DEF CustodyInv, BatchIsWhole
      <3>2. ASSUME NEW c \in Batches, NEW i \in handover'[c].items
            PROVE  handover'[c].status = "IN_TRANSIT" <=> custody'[i].status = "IN_TRANSIT"
        <4>1. i \in Items /\ custody[i].batch = c /\ i \in handover[c].items
          BY <2>4, <3>2 DEF CustodyInv, BatchIsWhole
        <4>2. CASE c = b
          BY <2>3, <2>4, <2>5, <4>1, <4>2
        <4>3. CASE c # b
          BY <2>3, <2>4, <2>5, <4>1, <4>3 DEF CustodyInv, BatchIsWhole, InTransit
        <4> QED
          BY <4>2, <4>3
      <3>3. \A c \in Batches : handover'[c].receiver # None => handover'[c].receiver # handover'[c].by
        BY <2>2, <2>4 DEF CustodyInv, BatchIsWhole
      <3> QED
        BY <3>1, <3>2, <3>3 DEF BatchIsWhole, InTransit
    <2> QED
      BY <2>7, <2>8, <2>9, <2>10, <2>11 DEF CustodyInv
  <1> QED
    BY <1>1, <1>2

LEMMA DisposeKeeps ==
  ASSUME CustodyInv, NEW p \in Keepers, dispose(p)
  PROVE  CustodyInv'
  <1> DEFINE S == act[p].items
  <1>1. CASE ~(S \subseteq Stored \cap expired)
    BY <1>1, TurnedKeeps DEF dispose
  <1>2. CASE S \subseteq Stored \cap expired
    <2>1. /\ custody' = [i \in Items |->
               IF i \in S THEN [custody[i] EXCEPT !.status = "DISPOSED"] ELSE custody[i]]
          /\ Record(S, "DISPOSED") /\ Answer(p, "done")
          /\ UNCHANGED handover /\ Elsewhere
      BY <1>2 DEF dispose
    <2>2. S \subseteq Items /\ \A i \in S : custody[i].status = "STORED"
      BY <1>2 DEF Stored
    <2> HIDE DEF S
    <2>3. \A i \in Items :
            /\ custody'[i].batch = custody[i].batch
            /\ i \in S => custody'[i].status = "DISPOSED"
            /\ i \notin S => custody'[i] = custody[i]
      BY <2>1 DEF CustodyInv, CustodyTypeOK
    <2>4. act' \in Acts /\ \A q \in Keepers : act'[q] = act[q] \/ NoReceiver(q)
      BY <2>1, AnswerEnds DEF CustodyInv
    <2>5. HistoryIsTheWay'
      <3>1. \A i \in Items : history'[i] = IF i \in S THEN Append(history[i], "DISPOSED")
                                                      ELSE history[i]
        BY <2>1 DEF Record
      <3>2. ASSUME NEW i \in Items PROVE history'[i] = WayTo(custody'[i].status)
        <4>1. history[i] = WayTo(custody[i].status)
          BY DEF CustodyInv, HistoryIsTheWay
        <4>2. CASE i \in S
          BY <2>2, <2>3, <3>1, <4>1, <4>2, Ways
        <4>3. CASE i \notin S
          BY <2>3, <3>1, <4>1, <4>3
        <4> QED
          BY <4>2, <4>3
      <3> QED
        BY <3>2 DEF HistoryIsTheWay
    <2>6. CustodyTypeOK'
      <3>1. custody' \in [Items -> [status : {"AT_BRANCH", "IN_TRANSIT", "STORED", "MISSING", "DISPOSED"},
                                    batch : {0} \cup Batches]]
        BY <2>1 DEF CustodyInv, CustodyTypeOK
      <3>2. history' \in [Items -> Seq(Events)]
        <4>1. \A i \in Items : custody'[i].status \in {"AT_BRANCH", "IN_TRANSIT", "STORED", "MISSING", "DISPOSED"}
          BY <3>1
        <4>2. \A i \in Items : history'[i] \in Seq(Events)
          BY <2>5, <4>1, WaysAreHistories DEF HistoryIsTheWay
        <4> QED
          BY <2>1, <4>2 DEF Record
      <3>3. UNCHANGED <<handover, expired, shown, picked>>
        BY <2>1 DEF Elsewhere
      <3> QED
        BY <2>4, <3>1, <3>2, <3>3 DEF CustodyInv, CustodyTypeOK, Acts
    <2>7. ReceiversInv'
      <3>1. Kept
        BY <2>1 DEF Kept
      <3> QED
        BY <2>4, <3>1, ReceiversStay DEF CustodyInv
    <2>8. PlacesInv'
      <3>1. ASSUME NEW i \in Items
            PROVE  custody'[i].status = "AT_BRANCH" <=> custody'[i].batch = 0
        <4>1. custody[i].status = "AT_BRANCH" <=> custody[i].batch = 0
          BY DEF CustodyInv, PlacesInv
        <4>2. CASE i \in S
          BY <2>2, <2>3, <4>1, <4>2
        <4>3. CASE i \notin S
          BY <2>3, <4>1, <4>3
        <4> QED
          BY <4>2, <4>3
      <3>2. handover' = handover
        BY <2>1
      <3>3. \A c \in Batches : handover[c].status = "none" <=> handover[c] = NoBatch
        BY DEF CustodyInv, PlacesInv
      <3>4. \A c \in Batches : handover'[c].status = "none" <=> handover'[c] = NoBatch
        BY <3>2, <3>3 DEF NoBatch
      <3> QED
        BY <3>1, <3>4 DEF PlacesInv
    <2>9. BatchIsWhole'
      <3>1. ASSUME NEW c \in Batches
            PROVE  handover'[c].items = {i \in Items : custody'[i].batch = c}
        BY <2>1, <2>3 DEF CustodyInv, BatchIsWhole
      <3>2. ASSUME NEW c \in Batches, NEW i \in handover'[c].items
            PROVE  handover'[c].status = "IN_TRANSIT" <=> custody'[i].status = "IN_TRANSIT"
        <4>1. i \in Items /\ i \in handover[c].items /\ handover'[c] = handover[c]
              /\ (handover[c].status = "IN_TRANSIT" <=> custody[i].status = "IN_TRANSIT")
          BY <2>1, <3>2 DEF CustodyInv, BatchIsWhole, InTransit
        <4>2. CASE i \in S
          BY <2>2, <2>3, <4>1, <4>2
        <4>3. CASE i \notin S
          BY <2>3, <4>1, <4>3
        <4> QED
          BY <4>2, <4>3
      <3>3. \A c \in Batches : handover'[c].receiver # None => handover'[c].receiver # handover'[c].by
        BY <2>1 DEF CustodyInv, BatchIsWhole
      <3> QED
        BY <3>1, <3>2, <3>3 DEF BatchIsWhole, InTransit
    <2> QED
      BY <2>5, <2>6, <2>7, <2>8, <2>9 DEF CustodyInv
  <1> QED
    BY <1>1, <1>2

(***************************************************************************)
(* The theorems.                                                           *)
(***************************************************************************)
LEMMA CustodyStepInv == CustodyInv /\ [CustodyNext]_custodyVars => CustodyInv'
  <1> SUFFICES ASSUME CustodyInv, [CustodyNext]_custodyVars PROVE CustodyInv'
    OBVIOUS
  <1>1. ASSUME NEW p \in Keepers, Fails(p) PROVE CustodyInv'
    BY <1>1, TurnedKeeps DEF Fails
  <1>2. ASSUME NEW p \in Keepers,
               create_handover(p) \/ InsertHandover(p) \/ receive_handover(p)
               \/ ReceiveBatch(p) \/ dispose(p)
        PROVE  CustodyInv'
    BY <1>2, CreateKeeps, InsertKeeps, LookKeeps, ReceiveKeeps, DisposeKeeps
  <1>3. CASE UNCHANGED custodyVars
    BY <1>3 DEF custodyVars, CustodyInv, CustodyTypeOK, PlacesInv, ReceiversInv,
                HistoryIsTheWay, BatchIsWhole, InTransit
  <1> QED
    BY <1>1, <1>2, <1>3, PageKeeps DEF CustodyNext

LEMMA CustodyAlwaysInv == CustodySpec => []CustodyInv
  BY CustodyInitInv, CustodyStepInv, PTL DEF CustodySpec

\* The shape of the custody tables, the requests and the page (cts_custody.py).
THEOREM CustodyTypeCorrect == CustodySpec => []CustodyTypeOK
  <1>1. CustodyInv => CustodyTypeOK
    BY DEF CustodyInv
  <1> QED
    BY <1>1, CustodyAlwaysInv, PTL

\* Whatever races of senders, receivers and managers: custody_events tells of each
\* original exactly the steps that led to its status.
THEOREM HistoriesAreTrue == CustodySpec => []HistoryIsTheWay
  <1>1. CustodyInv => HistoryIsTheWay
    BY DEF CustodyInv
  <1> QED
    BY <1>1, CustodyAlwaysInv, PTL

\* An original is in one batch only, a batch leaves transit as a whole, and who sent
\* it did not receive it.
THEOREM BatchesAreWhole == CustodySpec => []BatchIsWhole
  <1>1. CustodyInv => BatchIsWhole
    BY DEF CustodyInv
  <1> QED
    BY <1>1, CustodyAlwaysInv, PTL

(***************************************************************************)
(* Each original goes the way the bank asks of it.                         *)
(***************************************************************************)
\* A request under way is one its sender has the role for.
RolesInv ==
  \A p \in Keepers :
    /\ act[p].op = "handover" => p \in Branch \cup Managers
    /\ act[p].op = "receive" => p \in Storage \cup Managers

LEMMA RolesStep == CustodyTypeOK /\ RolesInv /\ [CustodyNext]_custodyVars => RolesInv'
  <1> SUFFICES ASSUME CustodyTypeOK, RolesInv, [CustodyNext]_custodyVars PROVE RolesInv'
    OBVIOUS
  <1>a. act \in Acts
    BY DEF CustodyTypeOK, Acts
  <1>b. Me \in Managers /\ Me \in Keepers
    BY KeepersAssumption DEF Keepers
  <1>1. ASSUME \A p \in Keepers : act'[p].op \in {act[p].op, "none"} PROVE RolesInv'
    BY <1>1 DEF RolesInv
  <1>2. ASSUME NEW p \in Keepers, NEW step \in {"done", "refused"}, Answer(p, step) PROVE RolesInv'
    <2>1. CASE p = Me
      BY <1>a, <1>1, <1>2, <2>1 DEF Answer, NoAct, Acts
    <2>2. CASE p # Me
      BY <1>a, <1>1, <1>2, <2>2 DEF Answer, NoAct, Acts
    <2> QED
      BY <2>1, <2>2
  <1>3. ASSUME NEW p \in Keepers, NEW op, NEW S, NEW b, Ask(p, op, S, b),
               op = "handover" => p \in Branch \cup Managers,
               op = "receive" => p \in Storage \cup Managers
        PROVE  RolesInv'
    <2>1. act' = [act EXCEPT ![p] = [op |-> op, step |-> "look", items |-> S, batch |-> b]]
      BY <1>3 DEF Ask
    <2> QED
      BY <1>a, <1>3, <2>1 DEF RolesInv, Acts
  <1>4. ASSUME NEW p \in Keepers, create_handover(p) PROVE RolesInv'
    <2>1. CASE Answer(p, "refused")
      BY <1>2, <2>1
    <2>2. CASE Goto(p, "write")
      BY <1>a, <1>1, <2>2 DEF Goto, Acts
    <2> QED
      BY <1>4, <2>1, <2>2 DEF create_handover
  <1>5. ASSUME NEW p \in Keepers, receive_handover(p) PROVE RolesInv'
    <2>1. CASE Answer(p, "refused")
      BY <1>2, <2>1
    <2>2. CASE \E S : act' = [act EXCEPT ![p].step = "write", ![p].items = S]
      BY <1>a, <1>1, <2>2 DEF Acts
    <2> QED
      BY <1>5, <2>1, <2>2 DEF receive_handover
  <1>6. ASSUME NEW p \in Keepers, InsertHandover(p) \/ ReceiveBatch(p) \/ dispose(p) \/ Fails(p)
        PROVE  RolesInv'
    <2>1. Answer(p, "refused") \/ Answer(p, "done")
      BY <1>6 DEF InsertHandover, ReceiveBatch, dispose, Fails, Turned
    <2> QED
      BY <1>2, <2>1
  <1>7. ASSUME UNCHANGED act PROVE RolesInv'
    BY <1>7 DEF RolesInv
  <1>8. ASSUME NEW i \in Items, setPicked(i) \/ disposeOf(i) \/ RetentionEnds(i) PROVE RolesInv'
    BY <1>b, <1>3, <1>7, <1>8 DEF setPicked, disposeOf, RetentionEnds
  <1>9. ASSUME NEW b \in Batches, receive(b) PROVE RolesInv'
    BY <1>b, <1>3, <1>9 DEF receive
  <1>10. ASSUME NEW p \in Keepers, OtherAsks(p) PROVE RolesInv'
    BY <1>3, <1>10 DEF OtherAsks
  <1>11. CASE handOver
    BY <1>b, <1>3, <1>11 DEF handOver
  <1>12. CASE setNotice
    BY <1>a, <1>b, <1>1, <1>12 DEF setNotice, NoAct, Acts
  <1>13. CASE OpenPage \/ UNCHANGED custodyVars
    BY <1>7, <1>13 DEF OpenPage, custodyVars
  <1> QED
    BY <1>4, <1>5, <1>6, <1>8, <1>9, <1>10, <1>11, <1>12, <1>13 DEF CustodyNext

\* What a step does to each original's trail.
TrailStep == \A i \in Items : UNCHANGED Trail(i)!vars \/ Trail(i)!Next

LEMMA NothingMoves ==
  ASSUME UNCHANGED <<custody, handover, history, expired>> PROVE TrailStep
  BY DEF TrailStep, Trail!vars, BatchOf

\* The variables of an original's trail that a step leaves alone.
LEMMA StaysPut ==
  ASSUME NEW i \in Items, custody'[i] = custody[i], history'[i] = history[i],
         custody[i].batch # 0 => handover'[custody[i].batch] = handover[custody[i].batch],
         UNCHANGED expired
  PROVE  UNCHANGED Trail(i)!vars
  BY DEF Trail!vars, BatchOf

LEMMA InsertMoves ==
  ASSUME CustodyInv, RolesInv, NEW p \in Keepers, InsertHandover(p)
  PROVE  TrailStep
  <1>1. CASE Turned(p)
    BY <1>1, NothingMoves DEF InsertHandover, Turned, Elsewhere
  <1>2. ASSUME ~Conflicts(p), NEW b \in Unused,
               handover' = [handover EXCEPT ![b] = [status |-> "IN_TRANSIT", by |-> p,
                              items |-> act[p].items, receiver |-> None]],
               custody' = [i \in Items |->
                 IF i \in act[p].items \cap AtBranch
                   THEN [status |-> "IN_TRANSIT", batch |-> b] ELSE custody[i]],
               Record(act[p].items, "HANDED_OVER")
        PROVE  TrailStep
    <2> DEFINE S == act[p].items
    <2>1. S \subseteq AtBranch /\ UNCHANGED expired /\ p \in Branch \cup Managers
      BY <1>2 DEF Conflicts, InsertHandover, Elsewhere, RolesInv, Doing
    <2>2. b \in Batches /\ b # 0 /\ handover[b] = NoBatch
      BY MaxBatchesAssumption, <1>2 DEF Unused, Batches
    <2>3. /\ \A c \in Batches : c # b => handover'[c] = handover[c]
          /\ handover'[b] = [status |-> "IN_TRANSIT", by |-> p, items |-> S, receiver |-> None]
      BY <1>2, <2>2 DEF CustodyInv, CustodyTypeOK
    <2> SUFFICES ASSUME NEW i \in Items PROVE UNCHANGED Trail(i)!vars \/ Trail(i)!Next
      BY DEF TrailStep
    <2>4. CASE i \in S
      <3>1. custody[i].status = "AT_BRANCH" /\ custody[i].batch = 0
        BY <2>1, <2>4 DEF AtBranch, CustodyInv, PlacesInv
      <3>2. custody'[i] = [status |-> "IN_TRANSIT", batch |-> b]
            /\ history'[i] = Append(history[i], "HANDED_OVER")
        BY <1>2, <2>1, <2>4 DEF Record
      <3>3. Trail(i)!HandOver(p)
        BY <2>1, <2>2, <2>3, <3>1, <3>2 DEF Trail!HandOver, BatchOf, NoBatch
      <3> QED
        BY <2>1, <3>3 DEF Trail!Next
    <2>5. CASE i \notin S
      <3>1. custody'[i] = custody[i] /\ history'[i] = history[i]
        BY <1>2, <2>5 DEF Record
      <3>2. custody[i].batch # 0 => custody[i].batch \in Batches \ {b}
        <4>1. {j \in Items : custody[j].batch = b} = {}
          BY <2>2 DEF CustodyInv, BatchIsWhole, NoBatch
        <4>2. custody[i].batch \in {0} \cup Batches
          BY DEF CustodyInv, CustodyTypeOK
        <4> QED
          BY <4>1, <4>2
      <3> QED
        BY <2>1, <2>3, <3>1, <3>2, StaysPut
    <2> QED
      BY <2>4, <2>5
  <1> QED
    BY <1>1, <1>2 DEF InsertHandover

LEMMA ReceiveMoves ==
  ASSUME CustodyInv, RolesInv, NEW p \in Keepers, ReceiveBatch(p)
  PROVE  TrailStep
  <1> DEFINE b       == act[p].batch
             arrived == act[p].items
             missing == handover[b].items \ arrived
  <1>1. CASE ~Claims(p)
    BY <1>1, NothingMoves DEF ReceiveBatch, Turned, Elsewhere
  <1>2. CASE Claims(p)
    <2>1. /\ handover' = [handover EXCEPT
               ![b].status = IF missing = {} THEN "RECEIVED" ELSE "DISCREPANCY",
               ![b].receiver = p]
          /\ custody' = [i \in Items |->
               IF i \in handover[b].items /\ custody[i].status = "IN_TRANSIT"
                 THEN [custody[i] EXCEPT !.status = IF i \in arrived THEN "STORED" ELSE "MISSING"]
                 ELSE custody[i]]
          /\ history' = [i \in Items |->
               IF i \in arrived THEN Append(history[i], "RECEIVED")
               ELSE IF i \in missing THEN Append(history[i], "MISSING") ELSE history[i]]
          /\ Elsewhere /\ Doing(p, "receive", "write")
      BY <1>2 DEF ReceiveBatch
    <2>2. /\ b \in Batches /\ b # 0 /\ handover[b].by # p
          /\ arrived \subseteq handover[b].items
          /\ handover[b].status = "IN_TRANSIT"
      BY <1>2, <2>1, MaxBatchesAssumption DEF CustodyInv, ReceiversInv, Doing, Claims, InTransit, Batches
    <2>3. p \in Storage \cup Managers
      BY <2>1 DEF RolesInv, Doing
    <2>4. handover[b].items = {i \in Items : custody[i].batch = b}
          /\ \A i \in handover[b].items : custody[i].status = "IN_TRANSIT"
      BY <2>2 DEF CustodyInv, BatchIsWhole, InTransit
    <2> HIDE DEF b, arrived
    <2>5. /\ \A c \in Batches : c # b => handover'[c] = handover[c]
          /\ handover'[b].receiver = p /\ handover'[b].by = handover[b].by
      BY <2>1, <2>2 DEF CustodyInv, CustodyTypeOK
    <2> SUFFICES ASSUME NEW i \in Items PROVE UNCHANGED Trail(i)!vars \/ Trail(i)!Next
      BY DEF TrailStep
    <2>6. custody[i] \in [status : {"AT_BRANCH", "IN_TRANSIT", "STORED", "MISSING", "DISPOSED"},
                          batch : {0} \cup Batches]
      BY DEF CustodyInv, CustodyTypeOK
    <2>7. CASE i \in handover[b].items
      <3>1. custody[i].status = "IN_TRANSIT" /\ custody[i].batch = b
        BY <2>4, <2>7
      <3>2. /\ custody'[i].batch = b
            /\ \/ custody'[i].status = "STORED" /\ history'[i] = Append(history[i], "RECEIVED")
               \/ custody'[i].status = "MISSING" /\ history'[i] = Append(history[i], "MISSING")
        BY <2>1, <2>6, <2>7, <3>1
      <3>3. /\ BatchOf(i) = handover[b] /\ BatchOf(i)' = handover'[b]
            /\ UNCHANGED expired
        BY <2>1, <2>2, <3>1, <3>2 DEF BatchOf, Elsewhere
      <3>4. Trail(i)!Arrive(p)
        BY <2>2, <2>5, <3>1, <3>2, <3>3 DEF Trail!Arrive
      <3> QED
        BY <2>3, <3>4 DEF Trail!Next
    <2>8. CASE i \notin handover[b].items
      <3>1. custody'[i] = custody[i] /\ history'[i] = history[i] /\ UNCHANGED expired
        BY <2>1, <2>2, <2>8 DEF Elsewhere
      <3>2. custody[i].batch # 0 => custody[i].batch \in Batches \ {b}
        BY <2>4, <2>6, <2>8
      <3> QED
        BY <2>5, <3>1, <3>2, StaysPut
    <2> QED
      BY <2>7, <2>8
  <1> QED
    BY <1>1, <1>2

LEMMA DisposeMoves ==
  ASSUME CustodyInv, NEW p \in Keepers, dispose(p)
  PROVE  TrailStep
  <1> DEFINE S == act[p].items
  <1>1. CASE ~(S \subseteq Stored \cap expired)
    BY <1>1, NothingMoves DEF dispose, Turned, Elsewhere
  <1>2. CASE S \subseteq Stored \cap expired
    <2>1. /\ custody' = [i \in Items |->
               IF i \in S THEN [custody[i] EXCEPT !.status = "DISPOSED"] ELSE custody[i]]
          /\ history' = [i \in Items |-> IF i \in S THEN Append(history[i], "DISPOSED") ELSE history[i]]
          /\ UNCHANGED <<handover, expired>>
      BY <1>2 DEF dispose, Record, Elsewhere
    <2> SUFFICES ASSUME NEW i \in Items PROVE UNCHANGED Trail(i)!vars \/ Trail(i)!Next
      BY DEF TrailStep
    <2>2. custody[i] \in [status : {"AT_BRANCH", "IN_TRANSIT", "STORED", "MISSING", "DISPOSED"},
                          batch : {0} \cup Batches]
      BY DEF CustodyInv, CustodyTypeOK
    <2>3. CASE i \in S
      <3>1. custody[i].status = "STORED" /\ i \in expired
        BY <1>2, <2>3 DEF Stored
      <3>2. /\ custody'[i].status = "DISPOSED" /\ custody'[i].batch = custody[i].batch
            /\ history'[i] = Append(history[i], "DISPOSED")
        BY <2>1, <2>2, <2>3
      <3>3. BatchOf(i)' = BatchOf(i)
        BY <2>1, <3>2 DEF BatchOf
      <3>4. Trail(i)!Dispose
        BY <2>1, <3>1, <3>2, <3>3 DEF Trail!Dispose
      <3> QED
        BY <3>4 DEF Trail!Next
    <2>4. CASE i \notin S
      BY <2>1, <2>4, StaysPut
    <2> QED
      BY <2>3, <2>4
  <1> QED
    BY <1>1, <1>2

LEMMA FallsDue ==
  ASSUME NEW j \in Items, RetentionEnds(j) PROVE TrailStep
  <1>1. /\ custody[j].status = "STORED" /\ expired' = expired \cup {j}
        /\ UNCHANGED <<custody, handover, history>>
    BY DEF RetentionEnds, Stored
  <1> SUFFICES ASSUME NEW i \in Items PROVE UNCHANGED Trail(i)!vars \/ Trail(i)!Next
    BY DEF TrailStep
  <1>2. CASE i = j
    <2>1. Trail(i)!FallDue
      BY <1>1, <1>2 DEF Trail!FallDue, BatchOf
    <2> QED
      BY <2>1 DEF Trail!Next
  <1>3. CASE i # j
    BY <1>1, <1>3 DEF Trail!vars, BatchOf
  <1> QED
    BY <1>2, <1>3

LEMMA TrailsGo == CustodyInv /\ RolesInv /\ [CustodyNext]_custodyVars => TrailStep
  <1> SUFFICES ASSUME CustodyInv, RolesInv, [CustodyNext]_custodyVars PROVE TrailStep
    OBVIOUS
  <1>1. ASSUME NEW p \in Keepers, create_handover(p) \/ receive_handover(p) \/ Fails(p) PROVE TrailStep
    BY <1>1, NothingMoves DEF create_handover, receive_handover, Fails, Turned, Elsewhere
  <1>2. ASSUME NEW p \in Keepers, InsertHandover(p) \/ ReceiveBatch(p) \/ dispose(p) PROVE TrailStep
    BY <1>2, InsertMoves, ReceiveMoves, DisposeMoves
  <1>3. ASSUME NEW i \in Items, setPicked(i) \/ disposeOf(i) PROVE TrailStep
    BY <1>3, NothingMoves DEF setPicked, disposeOf, Press
  <1>4. ASSUME \/ \E b \in Batches : receive(b)
               \/ \E p \in Keepers \ {Me} : OtherAsks(p)
               \/ handOver \/ setNotice \/ OpenPage
               \/ UNCHANGED custodyVars
        PROVE  TrailStep
    BY <1>4, NothingMoves DEF receive, OtherAsks, handOver, setNotice, OpenPage, Press, custodyVars
  <1> QED
    BY <1>1, <1>2, <1>3, <1>4, FallsDue DEF CustodyNext

LEMMA TrailsBegin == CustodyInit => CustodyInv /\ RolesInv /\ \A i \in Items : Trail(i)!Init
  <1> SUFFICES ASSUME CustodyInit PROVE RolesInv /\ \A i \in Items : Trail(i)!Init
    BY CustodyInitInv
  <1>1. RolesInv
    BY DEF CustodyInit, RolesInv, NoAct
  <1>2. \A i \in Items : Trail(i)!Init
    BY DEF CustodyInit, Trail!Init, BatchOf, NoBatch
  <1> QED
    BY <1>1, <1>2

\* Custody implements PaperTrail for every original at once: handed over, received by
\* another, disposed of when it is due, with each move written down when it is made,
\* whichever requests look and write in between (cts_custody.py).
THEOREM OriginalsKeptByTwo == CustodySpec => KeptByTwo
  <1>1. CustodyInv => CustodyTypeOK
    BY DEF CustodyInv
  <1>2. CustodyInv /\ RolesInv /\ [CustodyNext]_custodyVars
          => [\A i \in Items : UNCHANGED Trail(i)!vars \/ Trail(i)!Next]_custodyVars
    BY TrailsGo DEF TrailStep
  <1> QED
    BY <1>1, <1>2, TrailsBegin, RolesStep, CustodyStepInv, PTL DEF CustodySpec, KeptByTwo
===========================================================================
