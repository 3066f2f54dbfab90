--------------------------- MODULE CrsOutboxProofs ---------------------------
(* What TLAPS proves of CrsOutbox, for any number of events and flushes.    *)
EXTENDS CrsOutbox, TLAPS

Inv == TypeOK /\ Provenance

\* The conjuncts of Provenance, to be cited by name.
Rows == \A e \in Events : event[e].status # "NONE" <=> recorded[e]
Flight(f) ==
    /\ \A e \in flush[f].batch : recorded[e] /\ flush[f].read[e] < MaxAttempts
    /\ flush[f].pc \in {"markSent", "markTried"} =>
          /\ flush[f].at \in Events /\ recorded[flush[f].at]
          /\ flush[f].read[flush[f].at] < MaxAttempts
    /\ flush[f].pc = "markSent" => crs[PostingOf[flush[f].at]] # Nothing
Known == \A p \in Postings : crs[p] # Nothing => recorded[crs[p]] /\ PostingOf[crs[p]] = p

LEMMA Parts == Provenance <=> SentIsPosted /\ Rows /\ (\A f \in Flushers : Flight(f)) /\ Known
BY DEF Provenance, Rows, Flight, Known

LEMMA PartsNext ==
    ASSUME TypeOK', SentIsPosted', Rows', \A f \in Flushers : Flight(f)', Known'
    PROVE  Inv'
BY DEF Inv, Provenance, Rows, Flight, Known

\* The initial states satisfy the invariant.
LEMMA InitHolds == Init => Inv
<1> SUFFICES ASSUME Init PROVE Inv OBVIOUS
<1> USE OutboxAssumption DEF Init, Events, Idle
<1>1. TypeOK BY DEF TypeOK, Row, Flush, Statuses
<1>2. SentIsPosted /\ Rows /\ Known BY DEF SentIsPosted, Rows, Known
<1>3. \A f \in Flushers : Flight(f) BY DEF Flight
<1> QED BY <1>1, <1>2, <1>3, Parts DEF Inv

\* A flush keeps what it may rely on while it does not move, because changes
\* are never taken back and the CRS forgets nothing.
LEMMA FlightStays ==
    ASSUME TypeOK, NEW f \in Flushers, Flight(f), flush'[f] = flush[f],
           \A e \in Events : recorded[e] => recorded'[e],
           \A p \in Postings : crs[p] # Nothing => crs'[p] # Nothing
    PROVE  Flight(f)'
<1>1. flush[f] \in Flush BY DEF TypeOK
<1>2. ASSUME NEW e \in Events PROVE PostingOf[e] \in Postings BY OutboxAssumption
<1> QED BY <1>1, <1>2 DEF Flight, Flush

\* A transaction that commits or rolls back.
LEMMA RecordKeeps == ASSUME Inv, NEW e \in Events, Record(e) PROVE Inv'
<1> USE OutboxAssumption
<1>0. PICK ok \in BOOLEAN : recorded' = [recorded EXCEPT ![e] = ok]
                            /\ event' = [event EXCEPT ![e] = Written(event[e], ok)]
  BY DEF Record
<1>1. UNCHANGED <<crs, flush, history>> BY DEF Record
<1>2. event[e].status = "NONE" BY DEF Record
<1>3. /\ Written(event[e], ok) \in Row
      /\ Written(event[e], ok).status = IF ok THEN "PENDING" ELSE "NONE"
  BY <1>2 DEF Inv, TypeOK, Row, Statuses, Written
<1>4. TypeOK' BY <1>0, <1>1, <1>3 DEF Inv, TypeOK, history
<1>5. ~recorded[e] BY <1>2, Parts DEF Inv, Rows
<1>6. \A d \in Events : recorded[d] => recorded'[d] BY <1>0, <1>5 DEF Inv, TypeOK
<1>7. Rows' BY <1>0, <1>3, Parts DEF Inv, Rows, TypeOK
<1>8. SentIsPosted' BY <1>0, <1>1, <1>3, Parts DEF Inv, SentIsPosted, TypeOK
<1>9. Known' BY <1>1, <1>6, Parts DEF Inv, Known, TypeOK
<1>10. \A f \in Flushers : Flight(f)' BY <1>1, <1>6, Parts, FlightStays DEF Inv
<1> QED BY <1>4, <1>7, <1>8, <1>9, <1>10, PartsNext

\* Only due events are listed, and these are recorded with attempts left.
LEMMA ListKeeps == ASSUME Inv, NEW f \in Flushers, List(f) PROVE Inv'
<1> USE OutboxAssumption
<1> DEFINE due == {e \in Events : Due(event[e])}
           batch == {e \in due : Cardinality({d \in due : d < e}) < Limit}
           loc == [Idle EXCEPT !.pc = "post", !.batch = batch,
                               !.read = [e \in Events |-> event[e].attempts]]
<1>1. flush' = [flush EXCEPT ![f] = loc] BY DEF List
<1>2. UNCHANGED <<recorded, event, crs, tries, lost, deaths>> /\ overlapped' \in [Events -> BOOLEAN]
  <2> HIDE DEF loc
  <2> QED BY DEF List, Inv, TypeOK
<1>3. batch \subseteq due OBVIOUS
<1>4. \A e \in due : e \in Events /\ event[e].status = "PENDING" /\ event[e].attempts < MaxAttempts
  BY DEF Due
<1> HIDE DEF due, batch
<1>5. loc \in Flush /\ loc.pc = "post" /\ loc.batch = batch
      /\ loc.read = [e \in Events |-> event[e].attempts]
  BY <1>3, <1>4 DEF Inv, TypeOK, Flush, Row, Idle
<1> HIDE DEF loc
<1>6. TypeOK' BY <1>1, <1>2, <1>5 DEF Inv, TypeOK
<1>7. Flight(f)' BY <1>1, <1>2, <1>3, <1>4, <1>5, Parts DEF Inv, TypeOK, Flight, Rows
<1>8. \A g \in Flushers : Flight(g)'
  BY <1>1, <1>2, <1>7, Parts, FlightStays DEF Inv, TypeOK
<1>9. SentIsPosted' /\ Rows' /\ Known' BY <1>2, Parts DEF Inv, SentIsPosted, Rows, Known
<1> QED BY <1>6, <1>8, <1>9, PartsNext

\* A post adds at most its own event to the CRS, and only where there was none.
LEMMA PostKeeps == ASSUME Inv, NEW f \in Flushers, Post(f) PROVE Inv'
<1> USE OutboxAssumption
<1>0. PICK e \in flush[f].batch, accepted \in BOOLEAN, answered \in BOOLEAN :
        /\ answered => accepted
        /\ crs' = IF accepted THEN Accept(e) ELSE crs
        /\ flush' = [flush EXCEPT ![f].pc = AfterPost(answered), ![f].at = e,
                                  ![f].batch = flush[f].batch \ {e}]
        /\ lost' = [lost EXCEPT ![e] = lost[e] \/ (accepted /\ ~answered)]
        /\ tries' = [tries EXCEPT ![e] = tries[e] + 1]
  BY DEF Post
<1>1. UNCHANGED <<recorded, event, overlapped, deaths>> BY DEF Post
<1>2. flush[f] \in Flush /\ Flight(f) /\ e \in Events /\ PostingOf[e] \in Postings /\ recorded[e]
      /\ flush[f].read[e] < MaxAttempts
  BY Parts DEF Inv, TypeOK, Flush, Flight
<1>3. /\ flush'[f] \in Flush /\ flush'[f].pc = AfterPost(answered) /\ flush'[f].at = e
      /\ flush'[f].batch = flush[f].batch \ {e} /\ flush'[f].read = flush[f].read
  BY <1>0, <1>2 DEF Inv, TypeOK, Flush, AfterPost
<1>4. flush' \in [Flushers -> Flush] /\ \A g \in Flushers \ {f} : flush'[g] = flush[g]
  BY <1>0, <1>3 DEF Inv, TypeOK
<1>5. /\ crs' \in [Postings -> Events \cup {Nothing}]
      /\ \A p \in Postings : crs[p] # Nothing => crs'[p] # Nothing
      /\ \A p \in Postings : crs'[p] # Nothing => crs'[p] = crs[p] \/ (crs'[p] = e /\ p = PostingOf[e])
      /\ accepted => crs'[PostingOf[e]] # Nothing
  BY <1>0, <1>2 DEF Inv, TypeOK, Accept
<1>6. TypeOK'
  <2>1. lost' \in [Events -> BOOLEAN] /\ tries' \in [Events -> Nat] BY <1>0, <1>2 DEF Inv, TypeOK
  <2> QED BY <2>1, <1>1, <1>4, <1>5 DEF Inv, TypeOK
<1>7. SentIsPosted' /\ Rows' BY <1>1, <1>5, Parts DEF Inv, SentIsPosted, Rows
<1>8. Known' BY <1>1, <1>2, <1>5, Parts DEF Inv, TypeOK, Known
<1>9. Flight(f)'
  <2>1. \A d \in flush'[f].batch : recorded'[d] /\ flush'[f].read[d] < MaxAttempts
    BY <1>1, <1>2, <1>3 DEF Flight
  <2>2. flush'[f].pc = "markSent" => accepted BY <1>0, <1>3 DEF AfterPost
  <2> QED BY <2>1, <2>2, <1>1, <1>2, <1>3, <1>5 DEF Flight
<1>10. \A g \in Flushers : Flight(g)' BY <1>1, <1>4, <1>5, <1>9, Parts, FlightStays DEF Inv
<1> QED BY <1>6, <1>7, <1>8, <1>10, PartsNext

\* A row is only ever written for a recorded event; the flush then moves on.
LEMMA AdvanceEffect ==
    ASSUME Inv, NEW f \in Flushers, Advance(f), UNCHANGED <<recorded, crs>>
    PROVE  flush' \in [Flushers -> Flush] /\ \A g \in Flushers : Flight(g)'
<1> USE OutboxAssumption
<1> DEFINE loc == IF flush[f].batch = {} THEN Idle ELSE [flush[f] EXCEPT !.pc = "post", !.at = 0]
<1>1. flush' = [flush EXCEPT ![f] = loc] BY DEF Advance
<1>2. flush[f] \in Flush /\ Flight(f) BY Parts DEF Inv, TypeOK
<1>3. loc \in Flush /\ loc.pc \in {"idle", "post"} /\ loc.batch = flush[f].batch
      /\ (loc.batch # {} => loc.read = flush[f].read)
  <2>1. CASE flush[f].batch = {} BY <1>2, <2>1 DEF Flush, Idle
  <2>2. CASE flush[f].batch # {} BY <1>2, <2>2 DEF Flush
  <2> QED BY <2>1, <2>2
<1> HIDE DEF loc
<1>4. flush' \in [Flushers -> Flush] /\ flush'[f] = loc
      /\ \A g \in Flushers \ {f} : flush'[g] = flush[g]
  BY <1>1, <1>3 DEF Inv, TypeOK
<1>5. Flight(f)' BY <1>2, <1>3, <1>4 DEF Flight
<1>6. \A g \in Flushers \ {f} : Flight(g)' BY <1>4, Parts, FlightStays DEF Inv
<1> QED BY <1>4, <1>5, <1>6

LEMMA MarkSentKeeps == ASSUME Inv, NEW f \in Flushers, MarkSent(f) PROVE Inv'
<1> USE OutboxAssumption
<1> DEFINE e == flush[f].at
<1>1. UNCHANGED <<recorded, crs, tries, overlapped, deaths>> BY DEF MarkSent
<1>2. /\ flush[f] \in Flush /\ e \in Events /\ recorded[e] /\ PostingOf[e] \in Postings
      /\ flush[f].read[e] < MaxAttempts /\ crs[PostingOf[e]] # Nothing /\ flush[f].pc = "markSent"
  BY Parts DEF Inv, TypeOK, Flight, MarkSent
<1>3. flush[f].read[e] + 1 \in 0 .. MaxAttempts BY <1>2 DEF Flush
<1> HIDE DEF e
<1>4. CASE /\ event' = [event EXCEPT ![e] = [status |-> "SENT", attempts |-> flush[f].read[e] + 1]]
           /\ Advance(f) /\ UNCHANGED lost
  <2>1. flush' \in [Flushers -> Flush] /\ \A g \in Flushers : Flight(g)'
    BY <1>1, <1>4, AdvanceEffect
  <2>2. event' \in [Events -> Row] /\ event'[e].status = "SENT"
        /\ \A d \in Events \ {e} : event'[d] = event[d]
    BY <1>2, <1>3, <1>4 DEF Inv, TypeOK, Row, Statuses
  <2>3. TypeOK' BY <1>1, <1>4, <2>1, <2>2 DEF Inv, TypeOK
  <2>4. SentIsPosted' /\ Rows' /\ Known'
    BY <1>1, <1>2, <2>2, Parts DEF Inv, SentIsPosted, Rows, Known
  <2> QED BY <2>1, <2>3, <2>4, PartsNext
<1>5. CASE /\ flush' = [flush EXCEPT ![f].pc = "markTried"]
           /\ lost' = [lost EXCEPT ![e] = TRUE] /\ UNCHANGED event
  <2>1. flush' \in [Flushers -> Flush] /\ \A g \in Flushers \ {f} : flush'[g] = flush[g]
    BY <1>2, <1>5 DEF Inv, TypeOK, Flush
  <2>2. /\ flush'[f].pc = "markTried" /\ flush'[f].at = e
        /\ flush'[f].batch = flush[f].batch /\ flush'[f].read = flush[f].read
    BY <1>2, <1>5 DEF Inv, TypeOK, Flush, e
  <2>3. TypeOK' BY <1>1, <1>2, <1>5, <2>1 DEF Inv, TypeOK
  <2>4. Flight(f) BY Parts DEF Inv
  <2>5. Flight(f)' BY <1>1, <1>2, <2>2, <2>4 DEF Flight
  <2>6. \A g \in Flushers : Flight(g)' BY <1>1, <2>1, <2>5, Parts, FlightStays DEF Inv
  <2>7. SentIsPosted' /\ Rows' /\ Known' BY <1>1, <1>5, Parts DEF Inv, SentIsPosted, Rows, Known
  <2> QED BY <2>3, <2>6, <2>7, PartsNext
<1> QED BY <1>4, <1>5 DEF MarkSent, e

LEMMA MarkTriedKeeps == ASSUME Inv, NEW f \in Flushers, MarkTried(f) PROVE Inv'
<1> USE OutboxAssumption
<1> DEFINE e == flush[f].at
           n == Tried(flush[f].read[e])
<1>1. /\ UNCHANGED <<recorded, crs, history>> /\ Advance(f)
      /\ event' = [event EXCEPT ![e] = [status |-> Parked(n), attempts |-> n]]
  BY DEF MarkTried
<1>2. /\ flush[f] \in Flush /\ e \in Events /\ recorded[e] /\ flush[f].read[e] < MaxAttempts
  BY Parts DEF Inv, TypeOK, Flight, MarkTried
<1>3. n \in 0 .. MaxAttempts BY <1>2 DEF Flush, Tried
<1>4. Parked(n) \in {"PENDING", "FAILED"} BY DEF Parked
<1> HIDE DEF e, n
<1>5. flush' \in [Flushers -> Flush] /\ \A g \in Flushers : Flight(g)' BY <1>1, AdvanceEffect
<1>6. event' \in [Events -> Row] /\ event'[e].status \in {"PENDING", "FAILED"}
      /\ \A d \in Events \ {e} : event'[d] = event[d]
  BY <1>1, <1>2, <1>3, <1>4 DEF Inv, TypeOK, Row, Statuses
<1>7. TypeOK' BY <1>1, <1>5, <1>6 DEF Inv, TypeOK, history
<1>8. SentIsPosted' /\ Rows' /\ Known'
  BY <1>1, <1>2, <1>6, Parts DEF Inv, SentIsPosted, Rows, Known
<1> QED BY <1>5, <1>7, <1>8, PartsNext

LEMMA DieKeeps == ASSUME Inv, NEW f \in Flushers, Die(f) PROVE Inv'
<1> USE OutboxAssumption
<1>1. UNCHANGED <<recorded, event, crs, tries, overlapped>> /\ flush' = [flush EXCEPT ![f] = Idle]
      /\ lost' \in [Events -> BOOLEAN] /\ deaths' = deaths + 1
  BY DEF Die, Inv, TypeOK
<1>2. Idle \in Flush /\ Idle.batch = {} /\ Idle.pc = "idle" BY DEF Idle, Flush
<1>3. TypeOK' BY <1>1, <1>2 DEF Inv, TypeOK
<1>4. Flight(f)' BY <1>1, <1>2 DEF Inv, TypeOK, Flight
<1>5. \A g \in Flushers : Flight(g)' BY <1>1, <1>4, Parts, FlightStays DEF Inv, TypeOK
<1>6. SentIsPosted' /\ Rows' /\ Known' BY <1>1, Parts DEF Inv, SentIsPosted, Rows, Known
<1> QED BY <1>3, <1>5, <1>6, PartsNext

LEMMA NextKeeps == Inv /\ [Next]_vars => Inv'
<1> SUFFICES ASSUME Inv, [Next]_vars PROVE Inv' OBVIOUS
<1>1. CASE UNCHANGED vars
  BY <1>1, Parts DEF vars, Inv, TypeOK, Provenance, SentIsPosted
<1>2. CASE Next
  BY <1>2, RecordKeeps, ListKeeps, PostKeeps, MarkSentKeeps, MarkTriedKeeps, DieKeeps DEF Next, Step
<1> QED BY <1>1, <1>2

-----------------------------------------------------------------------------
\* Every reachable state is well typed; in particular no flush, however stale
\* what it read, writes more than MaxAttempts attempts.
THEOREM TypeCorrect == Spec => []TypeOK
<1>1. Inv => TypeOK BY DEF Inv
<1> QED BY InitHolds, NextKeeps, <1>1, PTL DEF Spec

\* Rows, flushes and the CRS speak only of committed changes, and a flush
\* about to write SENT has a posting in the CRS.
THEOREM ProvenanceHolds == Spec => []Provenance
<1>1. Inv => Provenance BY DEF Inv
<1> QED BY InitHolds, NextKeeps, <1>1, PTL DEF Spec

\* An event marked SENT is in the CRS, whatever flushes overlap or die.
THEOREM SentIsPostedHolds == Spec => []SentIsPosted
<1>1. Inv => SentIsPosted BY Parts DEF Inv
<1> QED BY InitHolds, NextKeeps, <1>1, PTL DEF Spec

-----------------------------------------------------------------------------
(* Undisturbed events.  One flush at most has such an event; what it read  *)
(* is what the row still says, and the row lags behind the posts by the    *)
(* one post whose outcome that flush is about to write.                    *)

Places ==
    \A f \in Flushers :
        /\ flush[f].pc = "idle" => flush[f].batch = {}
        /\ flush[f].pc = "post" => flush[f].at = 0
        /\ flush[f].at \notin flush[f].batch

Writes(f, e) == flush[f].pc \in {"markSent", "markTried"} /\ flush[f].at = e

OneHolder(e) == \A f, g \in Flushers : Has(f, e) /\ Has(g, e) => f = g
HolderIsCurrent(e) ==
    \A f \in Flushers : Has(f, e) =>
        event[e].status = "PENDING" /\ flush[f].read[e] = event[e].attempts
PostsCounted(e) ==
    /\ \A f \in Flushers : Writes(f, e) => tries[e] = event[e].attempts + 1
    /\ (\A f \in Flushers : ~Writes(f, e)) => tries[e] = event[e].attempts
AcceptedIsSent(e) ==
    crs[PostingOf[e]] = e =>
        event[e].status = "SENT" \/ \E f \in Flushers : Writes(f, e) /\ flush[f].pc = "markSent"
FailedIsTried(e) == event[e].status = "FAILED" => event[e].attempts = MaxAttempts

Faithful(e) ==
    OneHolder(e) /\ HolderIsCurrent(e) /\ PostsCounted(e) /\ AcceptedIsSent(e) /\ FailedIsTried(e)

InvUndisturbed == Inv /\ Places /\ \A e \in Events : Undisturbed(e) => Faithful(e)

LEMMA InitIsUndisturbed == Init => InvUndisturbed
<1> SUFFICES ASSUME Init PROVE InvUndisturbed OBVIOUS
<1>1. \A f \in Flushers : flush[f].pc = "idle" /\ flush[f].batch = {} /\ flush[f].at = 0
  BY DEF Init, Idle
<1>2. \A f \in Flushers, e \in Events : ~Has(f, e) /\ ~Writes(f, e) BY <1>1 DEF Has, Writes
<1>3. \A e \in Events : /\ event[e].status = "NONE" /\ event[e].attempts = 0 /\ tries[e] = 0
                        /\ crs[PostingOf[e]] = Nothing
  BY OutboxAssumption DEF Init
<1>4. \A e \in Events : crs[PostingOf[e]] # e BY <1>3, OutboxAssumption
<1>5. ASSUME NEW e \in Events PROVE Faithful(e)
  BY <1>2, <1>3, <1>4
  DEF Faithful, OneHolder, HolderIsCurrent, PostsCounted, AcceptedIsSent, FailedIsTried
<1> QED BY <1>1, <1>5, InitHolds DEF InvUndisturbed, Places

\* What a step leaves alone of an event: its row, its posts, and its place in
\* every flush.
Apart(e) ==
    /\ event'[e] = event[e] /\ tries'[e] = tries[e]
    /\ crs'[PostingOf[e]] = e => crs[PostingOf[e]] = e
    /\ \A f \in Flushers :
          /\ Has(f, e)' => Has(f, e) /\ flush'[f].read[e] = flush[f].read[e]
          /\ Writes(f, e)' <=> Writes(f, e)
          /\ Writes(f, e) => flush'[f].pc = flush[f].pc

LEMMA ApartStays ==
    ASSUME NEW e \in Events, Faithful(e), Apart(e)
    PROVE  Faithful(e)'
<1>1. OneHolder(e)' BY DEF Faithful, OneHolder, Apart
<1>2. HolderIsCurrent(e)' BY DEF Faithful, HolderIsCurrent, Apart
<1>3. PostsCounted(e)' BY DEF Faithful, PostsCounted, Apart
<1>4. AcceptedIsSent(e)' BY DEF Faithful, AcceptedIsSent, Apart
<1>5. FailedIsTried(e)' BY DEF Faithful, FailedIsTried, Apart
<1> QED BY <1>1, <1>2, <1>3, <1>4, <1>5 DEF Faithful

\* A flush that did not move has and writes what it did.
LEMMA SameFlush ==
    ASSUME NEW f \in Flushers, NEW e \in Events, flush'[f] = flush[f]
    PROVE  (Has(f, e)' <=> Has(f, e)) /\ (Writes(f, e)' <=> Writes(f, e))
BY DEF Has, Writes

LEMMA WriterHas == \A f \in Flushers, e \in Events : Writes(f, e) => Has(f, e)
BY DEF Writes, Has

LEMMA RecordUndisturbed ==
    ASSUME InvUndisturbed, NEW d \in Events, Record(d)
    PROVE  Places' /\ \A e \in Events : Undisturbed(e)' => Faithful(e)'
<1>1. UNCHANGED <<crs, flush, tries, overlapped, lost>> BY DEF Record, history
<1>2. PICK ok \in BOOLEAN : event' = [event EXCEPT ![d] = Written(@, ok)] BY DEF Record
<1>3. event[d].status = "NONE" /\ event \in [Events -> Row]
  BY DEF Record, InvUndisturbed, Inv, TypeOK
<1>4. Places' BY <1>1 DEF InvUndisturbed, Places
<1>5. ASSUME NEW e \in Events, Undisturbed(e)' PROVE Faithful(e)'
  <2>1. Faithful(e) BY <1>1, <1>5 DEF InvUndisturbed, Undisturbed
  <2>2. CASE e # d
    <3>1. Apart(e) BY <1>1, <1>2, <1>3, <2>2 DEF Apart, Has, Writes
    <3> QED BY <2>1, <3>1, ApartStays
  <2>3. CASE e = d
    <3>1. event'[e].attempts = event[e].attempts /\ event'[e].status \in {"NONE", "PENDING"}
      BY <1>2, <1>3, <2>3 DEF Written, Row
    <3>2. \A f \in Flushers : ~Has(f, e) BY <1>3, <2>1, <2>3 DEF Faithful, HolderIsCurrent
    <3>3. \A f \in Flushers : ~Writes(f, e) BY <3>2, WriterHas
    <3>4. crs[PostingOf[e]] # e BY <1>3, <2>1, <2>3, <3>3 DEF Faithful, AcceptedIsSent
    <3>5. tries[e] = event[e].attempts BY <2>1, <3>3 DEF Faithful, PostsCounted
    <3>6. \A f \in Flushers : ~Has(f, e)' /\ ~Writes(f, e)' BY <1>1, <3>2, <3>3 DEF Has, Writes
    <3> QED BY <1>1, <3>1, <3>4, <3>5, <3>6
        DEF Faithful, OneHolder, HolderIsCurrent, PostsCounted, AcceptedIsSent, FailedIsTried
  <2> QED BY <2>2, <2>3
<1> QED BY <1>4, <1>5

LEMMA ListUndisturbed ==
    ASSUME InvUndisturbed, NEW f \in Flushers, List(f)
    PROVE  Places' /\ \A e \in Events : Undisturbed(e)' => Faithful(e)'
<1> DEFINE due == {e \in Events : Due(event[e])}
           batch == {e \in due : Cardinality({d \in due : d < e}) < Limit}
           loc == [Idle EXCEPT !.pc = "post", !.batch = batch,
                               !.read = [e \in Events |-> event[e].attempts]]
<1>1. /\ flush' = [flush EXCEPT ![f] = loc] /\ flush[f].pc = "idle"
      /\ overlapped' = [e \in Events |-> \/ overlapped[e]
                                         \/ e \in batch /\ \E g \in Flushers \ {f} : Has(g, e)]
      /\ UNCHANGED <<event, crs, tries, lost>>
  BY DEF List
<1>2. \A e \in batch : e \in Events /\ event[e].status = "PENDING" BY DEF Due
<1>3. loc.pc = "post" /\ loc.at = 0 /\ loc.batch = batch /\ \A e \in Events : loc.read[e] = event[e].attempts
  <2> HIDE DEF batch
  <2> QED BY DEF Idle
<1> HIDE DEF due, batch, loc
<1>4. flush'[f] = loc /\ \A g \in Flushers \ {f} : flush'[g] = flush[g]
  BY <1>1 DEF InvUndisturbed, Inv, TypeOK
<1>5. 0 \notin batch BY <1>2 DEF Events
<1>6. Places' BY <1>3, <1>4, <1>5 DEF InvUndisturbed, Places
<1>7. ASSUME NEW e \in Events, Undisturbed(e)' PROVE Faithful(e)'
  <2>1. Faithful(e) BY <1>1, <1>7 DEF InvUndisturbed, Undisturbed
  <2>2. ~Has(f, e) /\ ~Writes(f, e) BY <1>1 DEF InvUndisturbed, Places, Has, Writes
  <2>3. ~Writes(f, e)' /\ (Has(f, e)' <=> e \in batch) BY <1>3, <1>4 DEF Writes, Has, Events
  <2>4. \A g \in Flushers \ {f} : (Has(g, e)' <=> Has(g, e)) /\ (Writes(g, e)' <=> Writes(g, e))
    BY <1>4, SameFlush
  <2>5. \A g \in Flushers : Writes(g, e)' <=> Writes(g, e) BY <2>2, <2>3, <2>4
  <2>6. CASE e \notin batch
    <3>1. Apart(e) BY <1>1, <1>4, <2>2, <2>3, <2>4, <2>6 DEF Apart
    <3> QED BY <2>1, <3>1, ApartStays
  <2>7. CASE e \in batch
    <3>1. \A g \in Flushers \ {f} : ~Has(g, e) BY <1>1, <1>7, <2>7 DEF Undisturbed
    <3>2. OneHolder(e)' BY <2>4, <3>1 DEF OneHolder
    <3>3. HolderIsCurrent(e)' BY <1>1, <1>2, <1>3, <1>4, <2>4, <2>7, <3>1 DEF HolderIsCurrent
    <3>4. PostsCounted(e)' BY <1>1, <2>1, <2>5 DEF Faithful, PostsCounted
    <3>5. \A g \in Flushers : Writes(g, e) => flush'[g].pc = flush[g].pc BY <1>4, <2>2
    <3>6. AcceptedIsSent(e)' BY <1>1, <2>1, <2>5, <3>5 DEF Faithful, AcceptedIsSent
    <3>7. FailedIsTried(e)' BY <1>1, <2>1 DEF Faithful, FailedIsTried
    <3> QED BY <3>2, <3>3, <3>4, <3>6, <3>7 DEF Faithful
  <2> QED BY <2>6, <2>7
<1> QED BY <1>6, <1>7

LEMMA PostUndisturbed ==
    ASSUME InvUndisturbed, NEW f \in Flushers, Post(f)
    PROVE  Places' /\ \A e \in Events : Undisturbed(e)' => Faithful(e)'
<1> PICK d \in flush[f].batch, accepted \in BOOLEAN, answered \in BOOLEAN :
        /\ answered => accepted
        /\ crs' = IF accepted THEN Accept(d) ELSE crs
        /\ flush' = [flush EXCEPT ![f].pc = AfterPost(answered), ![f].at = d,
                                  ![f].batch = flush[f].batch \ {d}]
        /\ lost' = [lost EXCEPT ![d] = lost[d] \/ (accepted /\ ~answered)]
        /\ tries' = [tries EXCEPT ![d] = tries[d] + 1]
  BY DEF Post
<1>1. flush[f].pc = "post" /\ flush[f].at = 0 /\ UNCHANGED <<event, overlapped>>
  BY DEF Post, InvUndisturbed, Places
<1>2. /\ flush[f] \in Flush /\ d \in Events /\ PostingOf[d] \in Postings
      /\ lost \in [Events -> BOOLEAN] /\ tries \in [Events -> Nat]
      /\ crs \in [Postings -> Events \cup {Nothing}]
  BY OutboxAssumption DEF InvUndisturbed, Inv, TypeOK, Flush
<1>3. /\ flush'[f].pc = AfterPost(answered) /\ flush'[f].at = d
      /\ flush'[f].batch = flush[f].batch \ {d} /\ flush'[f].read = flush[f].read
      /\ \A g \in Flushers \ {f} : flush'[g] = flush[g]
  BY <1>2 DEF InvUndisturbed, Inv, TypeOK, Flush
<1>4. AfterPost(answered) = IF answered THEN "markSent" ELSE "markTried" BY DEF AfterPost
<1>5. Places'
  <2>1. flush'[f].pc # "idle" /\ flush'[f].pc # "post" /\ flush'[f].at \notin flush'[f].batch
    BY <1>3, <1>4
  <2> QED BY <1>3, <2>1 DEF InvUndisturbed, Places
<1>6. ASSUME NEW e \in Events, Undisturbed(e)' PROVE Faithful(e)'
  <2>1. lost[e] => lost'[e] BY <1>2
  <2>2. Faithful(e) BY <1>1, <1>6, <2>1 DEF InvUndisturbed, Undisturbed
  <2>3. ~Writes(f, e) BY <1>1 DEF Writes
  <2>4. \A g \in Flushers \ {f} : (Has(g, e)' <=> Has(g, e)) /\ (Writes(g, e)' <=> Writes(g, e))
    BY <1>3, SameFlush
  <2>5. CASE e # d
    <3>1. Has(f, e)' => Has(f, e) BY <1>3, <2>5 DEF Has
    <3>2. ~Writes(f, e)' BY <1>3, <2>5 DEF Writes
    <3>3. tries'[e] = tries[e] BY <1>2, <2>5
    <3>4. crs'[PostingOf[e]] = e => crs[PostingOf[e]] = e BY <1>2, <2>5 DEF Accept
    <3>5. event'[e] = event[e] BY <1>1
    <3>6. Apart(e) BY <1>3, <2>3, <2>4, <3>1, <3>2, <3>3, <3>4, <3>5 DEF Apart
    <3> QED BY <2>2, <3>6, ApartStays
  <2>6. CASE e = d
    <3>1. Has(f, e) BY <2>6 DEF Has
    <3>2. \A g \in Flushers \ {f} : ~Has(g, e) /\ ~Has(g, e)' /\ ~Writes(g, e)'
      BY <2>2, <2>4, <3>1, WriterHas DEF Faithful, OneHolder
    <3>3. Has(f, e)' /\ Writes(f, e)' BY <1>3, <1>4, <2>6 DEF Has, Writes
    <3>4. \A g \in Flushers : ~Writes(g, e) BY <2>3, <3>2, WriterHas
    <3>5. tries[e] = event[e].attempts /\ tries'[e] = event'[e].attempts + 1
      BY <1>1, <1>2, <2>2, <2>6, <3>4 DEF Faithful, PostsCounted
    <3>6. OneHolder(e)' BY <3>2 DEF OneHolder
    <3>7. HolderIsCurrent(e)' BY <1>1, <1>3, <2>2, <3>1, <3>2 DEF Faithful, HolderIsCurrent
    <3>8. PostsCounted(e)' BY <3>2, <3>3, <3>5 DEF PostsCounted
    <3>9. crs[PostingOf[e]] # e
      BY <2>2, <3>1, <3>4 DEF Faithful, HolderIsCurrent, AcceptedIsSent
    <3>10. accepted => answered BY <1>2, <1>6, <2>6 DEF Undisturbed
    <3>11. crs'[PostingOf[e]] = e => accepted BY <3>9
    <3>12. crs'[PostingOf[e]] = e => flush'[f].pc = "markSent" BY <1>3, <1>4, <3>10, <3>11
    <3>13. AcceptedIsSent(e)' BY <3>3, <3>12 DEF AcceptedIsSent
    <3>14. FailedIsTried(e)' BY <1>1, <2>2 DEF Faithful, FailedIsTried
    <3> QED BY <3>6, <3>7, <3>8, <3>13, <3>14 DEF Faithful
  <2> QED BY <2>5, <2>6
<1> QED BY <1>5, <1>6

\* A flush leaves the event it has just written, and keeps the others.
LEMMA AdvanceLeaves ==
    ASSUME InvUndisturbed, NEW f \in Flushers, flush[f].pc \in {"markSent", "markTried"}, Advance(f)
    PROVE  /\ Places'
           /\ \A g \in Flushers \ {f} : flush'[g] = flush[g]
           /\ \A e \in Events :
                 /\ ~Writes(f, e)'
                 /\ Has(f, e)' <=> e \in flush[f].batch
                 /\ Has(f, e)' => flush'[f].read = flush[f].read
<1> DEFINE loc == IF flush[f].batch = {} THEN Idle ELSE [flush[f] EXCEPT !.pc = "post", !.at = 0]
<1>1. flush' = [flush EXCEPT ![f] = loc] BY DEF Advance
<1>2. flush[f] \in Flush /\ flush \in [Flushers -> Flush] BY DEF InvUndisturbed, Inv, TypeOK
<1>3. /\ loc.pc \in {"idle", "post"} /\ loc.batch = flush[f].batch /\ loc.at = 0
      /\ (loc.batch # {} => loc.read = flush[f].read /\ loc.pc = "post")
  <2>1. CASE flush[f].batch = {} BY <2>1 DEF Idle
  <2>2. CASE flush[f].batch # {} BY <1>2, <2>2 DEF Flush
  <2> QED BY <2>1, <2>2
<1> HIDE DEF loc
<1>4. flush'[f] = loc /\ \A g \in Flushers \ {f} : flush'[g] = flush[g] BY <1>1, <1>2
<1>5. 0 \notin flush[f].batch BY <1>2 DEF Flush, Events
<1>6. Places' BY <1>3, <1>4, <1>5 DEF InvUndisturbed, Places
<1>7. \A e \in Events : /\ ~Writes(f, e)' /\ (Has(f, e)' <=> e \in flush[f].batch)
                        /\ Has(f, e)' => flush'[f].read = flush[f].read
  BY <1>3, <1>4 DEF Writes, Has, Events
<1> QED BY <1>4, <1>6, <1>7

\* The write of an outcome, and the flush that goes on.
LEMMA OutcomeUndisturbed ==
    ASSUME InvUndisturbed, NEW f \in Flushers, flush[f].pc \in {"markSent", "markTried"},
           NEW row, event' = [event EXCEPT ![flush[f].at] = row], Advance(f),
           row.attempts = flush[f].read[flush[f].at] + 1,
           row.status = "SENT" \/ (flush[f].pc = "markTried" /\ row.status \in {"PENDING", "FAILED"}),
           row.status = "FAILED" => row.attempts = MaxAttempts,
           UNCHANGED <<crs, tries, overlapped, lost>>
    PROVE  Places' /\ \A e \in Events : Undisturbed(e)' => Faithful(e)'
<1> DEFINE d == flush[f].at
<1>1. d \in Events /\ event \in [Events -> Row]
  BY Parts DEF InvUndisturbed, Inv, TypeOK, Flight
<1>2. /\ Places' /\ \A g \in Flushers \ {f} : flush'[g] = flush[g]
      /\ \A e \in Events : /\ ~Writes(f, e)' /\ (Has(f, e)' <=> e \in flush[f].batch)
                           /\ Has(f, e)' => flush'[f].read = flush[f].read
  BY AdvanceLeaves
<1>3. d \notin flush[f].batch BY DEF InvUndisturbed, Places
<1>4. ASSUME NEW e \in Events, Undisturbed(e)' PROVE Faithful(e)'
  <2>1. Faithful(e) BY <1>4 DEF InvUndisturbed, Undisturbed
  <2>2. \A g \in Flushers \ {f} : (Has(g, e)' <=> Has(g, e)) /\ (Writes(g, e)' <=> Writes(g, e))
    BY <1>2, SameFlush
  <2>3. CASE e # d
    <3>1. ~Writes(f, e) /\ ~Writes(f, e)' BY <1>2, <2>3 DEF Writes
    <3>2. Has(f, e)' => Has(f, e) /\ flush'[f].read[e] = flush[f].read[e] BY <1>2 DEF Has
    <3>3. event'[e] = event[e] BY <1>1, <2>3
    <3>4. Apart(e) BY <1>2, <2>2, <3>1, <3>2, <3>3 DEF Apart
    <3> QED BY <2>1, <3>4, ApartStays
  <2>4. CASE e = d
    <3>1. Writes(f, e) /\ Has(f, e) BY <2>4 DEF Writes, Has
    <3>2. \A g \in Flushers \ {f} : ~Has(g, e)' /\ ~Writes(g, e) /\ ~Writes(g, e)'
      BY <2>1, <2>2, <3>1, WriterHas DEF Faithful, OneHolder
    <3>3. \A g \in Flushers : ~Has(g, e)' /\ ~Writes(g, e)' BY <1>2, <1>3, <2>4, <3>2
    <3>4. event'[e] = row BY <1>1, <2>4
    <3>5. tries'[e] = row.attempts
      BY <2>1, <2>4, <3>1 DEF Faithful, HolderIsCurrent, PostsCounted
    <3>6. flush[f].pc = "markTried" => crs'[PostingOf[e]] # e
      BY <2>1, <3>1, <3>2 DEF Faithful, HolderIsCurrent, AcceptedIsSent
    <3>7. AcceptedIsSent(e)' BY <3>4, <3>6 DEF AcceptedIsSent
    <3> QED BY <3>3, <3>4, <3>5, <3>7
        DEF Faithful, OneHolder, HolderIsCurrent, PostsCounted, FailedIsTried
  <2> QED BY <2>3, <2>4
<1> QED BY <1>2, <1>4

LEMMA MarkTriedUndisturbed ==
    ASSUME InvUndisturbed, NEW f \in Flushers, MarkTried(f)
    PROVE  Places' /\ \A e \in Events : Undisturbed(e)' => Faithful(e)'
<1> DEFINE n == Tried(flush[f].read[flush[f].at])
           row == [status |-> Parked(n), attempts |-> n]
<1>1. /\ flush[f].pc = "markTried" /\ event' = [event EXCEPT ![flush[f].at] = row] /\ Advance(f)
      /\ UNCHANGED <<crs, tries, overlapped, lost>>
  BY DEF MarkTried, history
<1>2. /\ flush[f].at \in Events /\ flush[f].read[flush[f].at] < MaxAttempts
      /\ flush[f].read[flush[f].at] \in 0 .. MaxAttempts
  BY <1>1, Parts DEF InvUndisturbed, Inv, TypeOK, Flight, Flush
<1>3. n = flush[f].read[flush[f].at] + 1 /\ n \in 0 .. MaxAttempts
  BY <1>2, OutboxAssumption DEF Tried
<1>4. row.attempts = n /\ row.status = Parked(n) OBVIOUS
<1>5. Parked(n) \in {"PENDING", "FAILED"} /\ (Parked(n) = "FAILED" => n = MaxAttempts)
  BY <1>3, OutboxAssumption DEF Parked
<1> HIDE DEF n, row
<1> QED BY <1>1, <1>3, <1>4, <1>5, OutcomeUndisturbed

LEMMA MarkSentUndisturbed ==
    ASSUME InvUndisturbed, NEW f \in Flushers, MarkSent(f)
    PROVE  Places' /\ \A e \in Events : Undisturbed(e)' => Faithful(e)'
<1> DEFINE d == flush[f].at
           row == [status |-> "SENT", attempts |-> flush[f].read[d] + 1]
<1>1. flush[f].pc = "markSent" /\ UNCHANGED <<crs, tries, overlapped>> BY DEF MarkSent
<1>2. d \in Events BY <1>1, Parts DEF InvUndisturbed, Inv, Flight
<1>3. CASE event' = [event EXCEPT ![d] = row] /\ Advance(f) /\ UNCHANGED lost
  <2>1. row.attempts = flush[f].read[d] + 1 /\ row.status = "SENT" OBVIOUS
  <2> HIDE DEF row
  <2> QED BY <1>1, <1>3, <2>1, OutcomeUndisturbed
<1>4. CASE /\ flush' = [flush EXCEPT ![f].pc = "markTried"]
           /\ lost' = [lost EXCEPT ![d] = TRUE] /\ UNCHANGED event
  <2>1. /\ flush \in [Flushers -> Flush] /\ lost \in [Events -> BOOLEAN] /\ flush[f] \in Flush
    BY DEF InvUndisturbed, Inv, TypeOK
  <2>2. /\ flush'[f].pc = "markTried" /\ flush'[f].at = d
        /\ flush'[f].batch = flush[f].batch /\ flush'[f].read = flush[f].read
        /\ \A g \in Flushers \ {f} : flush'[g] = flush[g]
    BY <1>4, <2>1 DEF Flush
  <2>3. Places' BY <2>2 DEF InvUndisturbed, Places
  <2>4. ASSUME NEW e \in Events, Undisturbed(e)' PROVE Faithful(e)'
    <3>1. e # d /\ ~lost[e] BY <1>2, <1>4, <2>1, <2>4 DEF Undisturbed
    <3>2. Faithful(e) BY <1>1, <2>4, <3>1 DEF InvUndisturbed, Undisturbed
    <3>3. \A g \in Flushers \ {f} : (Has(g, e)' <=> Has(g, e)) /\ (Writes(g, e)' <=> Writes(g, e))
      BY <2>2, SameFlush
    <3>4. ~Writes(f, e) /\ ~Writes(f, e)' /\ (Has(f, e)' => Has(f, e))
      BY <2>2, <3>1 DEF Writes, Has
    <3>5. Apart(e) BY <1>1, <1>4, <2>2, <3>3, <3>4 DEF Apart
    <3> QED BY <3>2, <3>5, ApartStays
  <2> QED BY <2>3, <2>4
<1> QED BY <1>3, <1>4 DEF MarkSent

LEMMA DieUndisturbed ==
    ASSUME InvUndisturbed, NEW f \in Flushers, Die(f)
    PROVE  Places' /\ \A e \in Events : Undisturbed(e)' => Faithful(e)'
<1>1. /\ flush[f].pc # "idle" /\ flush' = [flush EXCEPT ![f] = Idle]
      /\ lost' = [e \in Events |-> lost[e] \/ flush[f].at = e]
      /\ UNCHANGED <<event, crs, tries, overlapped>>
  BY DEF Die
<1>2. flush'[f] = Idle /\ \A g \in Flushers \ {f} : flush'[g] = flush[g]
  BY <1>1 DEF InvUndisturbed, Inv, TypeOK
<1>3. Idle.pc = "idle" /\ Idle.batch = {} /\ Idle.at = 0 BY DEF Idle
<1>4. Places' BY <1>2, <1>3 DEF InvUndisturbed, Places
<1>5. ASSUME NEW e \in Events, Undisturbed(e)' PROVE Faithful(e)'
  <2>1. ~lost[e] /\ flush[f].at # e BY <1>1, <1>5 DEF Undisturbed
  <2>2. Faithful(e) BY <1>1, <1>5, <2>1 DEF InvUndisturbed, Undisturbed
  <2>3. ~Writes(f, e) /\ ~Writes(f, e)' /\ ~Has(f, e)' BY <1>2, <1>3, <2>1 DEF Writes, Has
  <2>4. \A g \in Flushers \ {f} : (Has(g, e)' <=> Has(g, e)) /\ (Writes(g, e)' <=> Writes(g, e))
    BY <1>2, SameFlush
  <2>5. Apart(e) BY <1>1, <1>2, <2>3, <2>4 DEF Apart
  <2> QED BY <2>2, <2>5, ApartStays
<1> QED BY <1>4, <1>5

LEMMA UndisturbedKept == InvUndisturbed /\ [Next]_vars => InvUndisturbed'
<1> SUFFICES ASSUME InvUndisturbed, [Next]_vars PROVE InvUndisturbed' OBVIOUS
<1>1. Inv' BY NextKeeps DEF InvUndisturbed
<1>2. CASE UNCHANGED vars
  <2>1. Places' BY <1>2 DEF vars, InvUndisturbed, Places
  <2>2. ASSUME NEW e \in Events, Undisturbed(e)' PROVE Faithful(e)'
    <3>1. Faithful(e) BY <1>2, <2>2 DEF vars, InvUndisturbed, Undisturbed
    <3>2. Apart(e) BY <1>2 DEF vars, Apart, Has, Writes
    <3> QED BY <3>1, <3>2, ApartStays
  <2> QED BY <1>1, <2>1, <2>2 DEF InvUndisturbed
<1>3. CASE Next
  <2>1. Places' /\ \A e \in Events : Undisturbed(e)' => Faithful(e)'
    BY <1>3, RecordUndisturbed, ListUndisturbed, PostUndisturbed, MarkSentUndisturbed,
       MarkTriedUndisturbed, DieUndisturbed DEF Next, Step
  <2> QED BY <1>1, <2>1 DEF InvUndisturbed
<1> QED BY <1>2, <1>3

LEMMA UndisturbedInvariance == Spec => []InvUndisturbed
BY InitIsUndisturbed, UndisturbedKept, PTL DEF Spec

\* An event whose flushes never overlapped and whose outcomes all were written
\* is parked as FAILED only after MaxAttempts posts, none of which the CRS took,
\* and its attempts count its posts (flushOutbox, catch branch).
THEOREM ParkedIsUndeliveredHolds == Spec => []ParkedIsUndelivered
<1>1. InvUndisturbed => ParkedIsUndelivered
  <2> SUFFICES ASSUME InvUndisturbed, NEW e \in Events, Undisturbed(e), Quiet(e)
               PROVE  /\ event[e].attempts = tries[e]
                      /\ event[e].status = "FAILED" => tries[e] = MaxAttempts /\ crs[PostingOf[e]] # e
    BY DEF ParkedIsUndelivered
  <2>1. Faithful(e) BY DEF InvUndisturbed
  <2>2. \A f \in Flushers : ~Writes(f, e) BY WriterHas DEF Quiet
  <2>3. event[e].attempts = tries[e] BY <2>1, <2>2 DEF Faithful, PostsCounted
  <2>4. event[e].status = "FAILED" => event[e].attempts = MaxAttempts /\ crs[PostingOf[e]] # e
    BY <2>1, <2>2 DEF Faithful, FailedIsTried, AcceptedIsSent
  <2> QED BY <2>3, <2>4
<1> QED BY <1>1, UndisturbedInvariance, PTL

-----------------------------------------------------------------------------
(* Events that no two flushes had at once, whatever outcomes got lost.      *)

Pending(e) == \A f \in Flushers : Has(f, e) => event[e].status = "PENDING"
Exclusive(e) == OneHolder(e) /\ Pending(e)
InvExclusive == \A e \in Events : ~overlapped[e] => Exclusive(e)

\* A row that stays, and that no flush takes up.
LEMMA HeldByFewer ==
    ASSUME NEW e \in Events, Exclusive(e), event'[e] = event[e],
           \A f \in Flushers : Has(f, e)' => Has(f, e)
    PROVE  Exclusive(e)'
BY DEF Exclusive, OneHolder, Pending

LEMMA RecordExclusive ==
    ASSUME InvUndisturbed, InvExclusive, NEW d \in Events, Record(d) PROVE InvExclusive'
<1>1. UNCHANGED <<flush, overlapped>> BY DEF Record, history
<1>2. PICK ok \in BOOLEAN : event' = [event EXCEPT ![d] = Written(@, ok)] BY DEF Record
<1>3. event[d].status = "NONE" /\ event \in [Events -> Row]
  BY DEF Record, InvUndisturbed, Inv, TypeOK
<1>4. ASSUME NEW e \in Events, ~overlapped'[e] PROVE Exclusive(e)'
  <2>1. Exclusive(e) BY <1>1, <1>4 DEF InvExclusive
  <2>2. \A f \in Flushers : Has(f, e)' <=> Has(f, e) BY <1>1 DEF Has
  <2>3. CASE e = d BY <1>3, <2>1, <2>2, <2>3 DEF Exclusive, OneHolder, Pending
  <2>4. CASE e # d BY <1>2, <1>3, <2>1, <2>2, <2>4, HeldByFewer
  <2> QED BY <2>3, <2>4
<1> QED BY <1>4 DEF InvExclusive

LEMMA ListExclusive ==
    ASSUME InvUndisturbed, InvExclusive, NEW f \in Flushers, List(f) PROVE InvExclusive'
<1> DEFINE due == {e \in Events : Due(event[e])}
           batch == {e \in due : Cardinality({d \in due : d < e}) < Limit}
           loc == [Idle EXCEPT !.pc = "post", !.batch = batch,
                               !.read = [e \in Events |-> event[e].attempts]]
<1>1. /\ flush' = [flush EXCEPT ![f] = loc]
      /\ overlapped' = [e \in Events |-> \/ overlapped[e]
                                         \/ e \in batch /\ \E g \in Flushers \ {f} : Has(g, e)]
      /\ UNCHANGED event
  BY DEF List
<1>2. \A e \in batch : event[e].status = "PENDING" BY DEF Due
<1>3. loc.at = 0 /\ loc.batch = batch
  <2> HIDE DEF batch
  <2> QED BY DEF Idle
<1> HIDE DEF due, batch, loc
<1>4. flush'[f] = loc /\ \A g \in Flushers \ {f} : flush'[g] = flush[g]
  BY <1>1 DEF InvUndisturbed, Inv, TypeOK
<1>5. ASSUME NEW e \in Events, ~overlapped'[e] PROVE Exclusive(e)'
  <2>1. Exclusive(e) BY <1>1, <1>5 DEF InvExclusive
  <2>2. Has(f, e)' <=> e \in batch BY <1>3, <1>4 DEF Has, Events
  <2>3. \A g \in Flushers \ {f} : Has(g, e)' <=> Has(g, e) BY <1>4, SameFlush
  <2>4. e \in batch => \A g \in Flushers \ {f} : ~Has(g, e) BY <1>1, <1>5
  <2> QED BY <1>1, <1>2, <2>1, <2>2, <2>3, <2>4 DEF Exclusive, OneHolder, Pending
<1> QED BY <1>5 DEF InvExclusive

\* A post, a write of SENT that fails and a stop write no row.
LEMMA UnwrittenExclusive ==
    ASSUME InvExclusive, UNCHANGED <<event, overlapped>>,
           \A f \in Flushers, e \in Events : Has(f, e)' => Has(f, e)
    PROVE  InvExclusive'
BY HeldByFewer DEF InvExclusive

LEMMA PostExclusive ==
    ASSUME InvUndisturbed, InvExclusive, NEW f \in Flushers, Post(f) PROVE InvExclusive'
<1>1. PICK d \in flush[f].batch, answered \in BOOLEAN :
          flush' = [flush EXCEPT ![f].pc = AfterPost(answered), ![f].at = d,
                                 ![f].batch = flush[f].batch \ {d}]
  BY DEF Post
<1>2. flush \in [Flushers -> Flush] BY DEF InvUndisturbed, Inv, TypeOK
<1>3. /\ flush'[f].at = d /\ flush'[f].batch = flush[f].batch \ {d}
      /\ \A g \in Flushers \ {f} : flush'[g] = flush[g]
  BY <1>1, <1>2 DEF Flush
<1>4. \A e \in Events : Has(f, e)' => Has(f, e) BY <1>3 DEF Has
<1>5. \A g \in Flushers, e \in Events : Has(g, e)' => Has(g, e) BY <1>3, <1>4, SameFlush
<1>6. UNCHANGED <<event, overlapped>> BY DEF Post
<1> QED BY <1>5, <1>6, UnwrittenExclusive

\* The flush that writes an outcome is the only one that had the event.
LEMMA OutcomeExclusive ==
    ASSUME InvUndisturbed, InvExclusive, NEW f \in Flushers, flush[f].pc \in {"markSent", "markTried"},
           NEW row, event' = [event EXCEPT ![flush[f].at] = row], Advance(f), UNCHANGED overlapped
    PROVE  InvExclusive'
<1>1. /\ \A g \in Flushers \ {f} : flush'[g] = flush[g]
      /\ \A e \in Events : Has(f, e)' <=> e \in flush[f].batch
  BY AdvanceLeaves
<1>2. flush[f].at \notin flush[f].batch /\ event \in [Events -> Row]
  BY DEF InvUndisturbed, Inv, TypeOK, Places
<1>3. ASSUME NEW e \in Events, ~overlapped'[e] PROVE Exclusive(e)'
  <2>1. Exclusive(e) BY <1>3 DEF InvExclusive
  <2>2. \A g \in Flushers : Has(g, e)' => Has(g, e) BY <1>1, SameFlush DEF Has
  <2>3. CASE e # flush[f].at BY <1>2, <2>1, <2>2, <2>3, HeldByFewer
  <2>4. CASE e = flush[f].at
    <3>1. Has(f, e) BY <2>4 DEF Has
    <3>2. \A g \in Flushers : ~Has(g, e)'
      BY <1>1, <1>2, <2>1, <2>2, <2>4, <3>1 DEF Exclusive, OneHolder
    <3> QED BY <3>2 DEF Exclusive, OneHolder, Pending
  <2> QED BY <2>3, <2>4
<1> QED BY <1>3 DEF InvExclusive

LEMMA MarkSentExclusive ==
    ASSUME InvUndisturbed, InvExclusive, NEW f \in Flushers, MarkSent(f) PROVE InvExclusive'
<1>1. flush[f].pc = "markSent" /\ UNCHANGED overlapped BY DEF MarkSent
<1>2. CASE /\ event' = [event EXCEPT ![flush[f].at] =
                           [status |-> "SENT", attempts |-> flush[f].read[flush[f].at] + 1]]
           /\ Advance(f)
  BY <1>1, <1>2, OutcomeExclusive
<1>3. CASE flush' = [flush EXCEPT ![f].pc = "markTried"] /\ UNCHANGED event
  <2>1. flush \in [Flushers -> Flush] BY DEF InvUndisturbed, Inv, TypeOK
  <2>2. /\ flush'[f].at = flush[f].at /\ flush'[f].batch = flush[f].batch
        /\ \A g \in Flushers \ {f} : flush'[g] = flush[g]
    BY <1>3, <2>1 DEF Flush
  <2>3. \A e \in Events : Has(f, e)' => Has(f, e) BY <1>1, <2>2 DEF Has
  <2>4. \A g \in Flushers, e \in Events : Has(g, e)' => Has(g, e) BY <2>2, <2>3, SameFlush
  <2> QED BY <1>1, <1>3, <2>4, UnwrittenExclusive
<1> QED BY <1>2, <1>3 DEF MarkSent

LEMMA MarkTriedExclusive ==
    ASSUME InvUndisturbed, InvExclusive, NEW f \in Flushers, MarkTried(f) PROVE InvExclusive'
<1>1. /\ flush[f].pc = "markTried" /\ Advance(f) /\ UNCHANGED overlapped
      /\ \E row : event' = [event EXCEPT ![flush[f].at] = row]
  BY DEF MarkTried, history
<1> QED BY <1>1, OutcomeExclusive

LEMMA DieExclusive ==
    ASSUME InvUndisturbed, InvExclusive, NEW f \in Flushers, Die(f) PROVE InvExclusive'
<1>1. flush' = [flush EXCEPT ![f] = Idle] /\ UNCHANGED <<event, overlapped>> BY DEF Die
<1>2. flush'[f] = Idle /\ \A g \in Flushers \ {f} : flush'[g] = flush[g]
  BY <1>1 DEF InvUndisturbed, Inv, TypeOK
<1>3. \A e \in Events : ~Has(f, e)' BY <1>2 DEF Has, Idle
<1>4. \A g \in Flushers, e \in Events : Has(g, e)' => Has(g, e) BY <1>2, <1>3, SameFlush
<1> QED BY <1>1, <1>4, UnwrittenExclusive

LEMMA ExclusiveInvariance == Spec => [](InvUndisturbed /\ InvExclusive)
<1>1. Init => InvExclusive BY DEF Init, Idle, Has, InvExclusive, Exclusive, OneHolder, Pending
<1>2. InvUndisturbed /\ InvExclusive /\ [Next]_vars => InvExclusive'
  <2> SUFFICES ASSUME InvUndisturbed, InvExclusive, [Next]_vars PROVE InvExclusive' OBVIOUS
  <2>1. CASE UNCHANGED vars BY <2>1, UnwrittenExclusive DEF vars, Has
  <2>2. CASE Next
    BY <2>2, RecordExclusive, ListExclusive, PostExclusive, MarkSentExclusive, MarkTriedExclusive,
       DieExclusive DEF Next, Step
  <2> QED BY <2>1, <2>2
<1> QED BY <1>1, <1>2, UndisturbedInvariance, PTL DEF Spec

\* SENT is only ever taken back by a flush that still has the event and listed
\* it beside another: a flush that has an event alone found it PENDING, and so
\* it stays until that flush writes (flushOutbox).
THEOREM SentStaysHolds == Spec => SentStays
<1>1. InvUndisturbed /\ InvExclusive /\ [Next]_vars
          => [\A e \in Events : event[e].status = "SENT" /\ event'[e].status # "SENT"
                                    => overlapped[e] /\ ~Quiet(e)]_vars
  <2> SUFFICES ASSUME InvUndisturbed, InvExclusive, [Next]_vars,
                      NEW e \in Events, event[e].status = "SENT", event'[e].status # "SENT"
               PROVE  overlapped[e] /\ ~Quiet(e)
    OBVIOUS
  <2>1. event \in [Events -> Row] BY DEF InvUndisturbed, Inv, TypeOK
  <2>2. ASSUME NEW d \in Events, Record(d) PROVE FALSE
    <3>1. e # d BY <2>2 DEF Record
    <3>2. \E row : event' = [event EXCEPT ![d] = row] BY <2>2 DEF Record
    <3> QED BY <2>1, <3>1, <3>2
  <2>3. ASSUME NEW f \in Flushers, List(f) \/ Post(f) \/ Die(f) PROVE FALSE
    BY <2>3 DEF List, Post, Die
  <2>4. ASSUME NEW f \in Flushers, MarkSent(f) \/ MarkTried(f) PROVE Has(f, e)
    <3>1. flush[f].pc # "idle" BY <2>4 DEF MarkSent, MarkTried
    <3>2. event' = event \/ \E row : event' = [event EXCEPT ![flush[f].at] = row]
      BY <2>4 DEF MarkSent, MarkTried
    <3>3. flush[f].at = e BY <2>1, <3>2
    <3> QED BY <3>1, <3>3 DEF Has
  <2>5. ~UNCHANGED vars BY DEF vars
  <2>6. PICK f \in Flushers : Has(f, e) BY <2>2, <2>3, <2>4, <2>5 DEF Next, Step
  <2>7. overlapped[e] BY <2>6 DEF InvExclusive, Exclusive, Pending
  <2> QED BY <2>6, <2>7 DEF Quiet
<1> QED BY <1>1, ExclusiveInvariance, PTL DEF Spec, SentStays

-----------------------------------------------------------------------------
(* The refinement.  A change that commits delivers its event's posting to   *)
(* the outbox, a post that is accepted delivers it to the CRS, and every    *)
(* other step is a stutter.                                                 *)

Committed == {PostingOf[e] : e \in {d \in Events : recorded[d]}}
Ledger == {p \in Postings : crs[p] # Nothing}

LEMMA InitImplements == Init => Delivery!Init
BY OutboxAssumption DEF Init, Delivery!Init, Events

LEMMA RecordImplements ==
    ASSUME Inv, NEW e \in Events, Record(e)
    PROVE  UNCHANGED <<Committed, Ledger>> \/ Delivery!Commit(PostingOf[e])
<1>1. PICK ok \in BOOLEAN : recorded' = [recorded EXCEPT ![e] = ok] BY DEF Record
<1>2. UNCHANGED crs BY DEF Record
<1>3. ~recorded[e] BY Parts DEF Inv, Rows, Record
<1>4. CASE ~ok
  <2>1. recorded' = recorded BY <1>1, <1>3, <1>4 DEF Inv, TypeOK
  <2> QED BY <2>1, <1>2 DEF Committed, Ledger
<1>5. CASE ok
  <2>1. Committed' = Committed \cup {PostingOf[e]} BY <1>1, <1>5 DEF Inv, TypeOK, Committed
  <2> QED BY <2>1, <1>2 DEF Delivery!Commit, Committed, Ledger
<1> QED BY <1>4, <1>5

LEMMA PostImplements ==
    ASSUME Inv, NEW f \in Flushers, Post(f)
    PROVE  \/ UNCHANGED <<Committed, Ledger>>
           \/ \E p \in Postings : Delivery!Deliver(p)
<1>1. PICK e \in flush[f].batch, accepted \in BOOLEAN :
          crs' = IF accepted THEN Accept(e) ELSE crs
  BY DEF Post
<1>2. UNCHANGED recorded BY DEF Post
<1>3. e \in Events /\ recorded[e] /\ PostingOf[e] \in Postings
  BY OutboxAssumption, Parts DEF Inv, TypeOK, Flush, Flight
<1>4. CASE ~accepted BY <1>1, <1>2, <1>4 DEF Committed, Ledger
<1>5. CASE accepted
  <2>1. e # Nothing BY <1>3, OutboxAssumption
  <2>2. Ledger' = Ledger \cup {PostingOf[e]}
    BY <2>1, <1>1, <1>3, <1>5 DEF Inv, TypeOK, Accept, Ledger
  <2>3. PostingOf[e] \in Committed BY <1>3 DEF Committed
  <2> QED BY <2>2, <2>3, <1>2, <1>3 DEF Delivery!Deliver, Committed, Ledger
<1> QED BY <1>4, <1>5

LEMMA NextImplements ==
    Inv /\ [Next]_vars => [Delivery!Next]_<<Committed, Ledger>>
<1> SUFFICES ASSUME Inv, [Next]_vars
             PROVE  Delivery!Next \/ UNCHANGED <<Committed, Ledger>>
  OBVIOUS
<1>1. CASE UNCHANGED vars BY <1>1 DEF vars, Committed, Ledger
<1>2. ASSUME NEW e \in Events, Record(e) PROVE Delivery!Next \/ UNCHANGED <<Committed, Ledger>>
  <2>1. PostingOf[e] \in Postings BY OutboxAssumption
  <2> QED BY <2>1, <1>2, RecordImplements DEF Delivery!Next
<1>3. ASSUME NEW f \in Flushers, Post(f) PROVE Delivery!Next \/ UNCHANGED <<Committed, Ledger>>
  BY <1>3, PostImplements DEF Delivery!Next
<1>4. ASSUME NEW f \in Flushers, List(f) \/ MarkSent(f) \/ MarkTried(f) \/ Die(f)
      PROVE  UNCHANGED <<recorded, crs>>
  BY <1>4 DEF List, MarkSent, MarkTried, Die
<1>5. UNCHANGED <<recorded, crs>> => UNCHANGED <<Committed, Ledger>> BY DEF Committed, Ledger
<1> QED BY <1>1, <1>2, <1>3, <1>4, <1>5 DEF Next, Step

\* The outbox implements CrsDelivery: the CRS receives postings of committed
\* changes only, and forgets none, whatever flushes overlap, die or repeat.
THEOREM DeliveryImplemented == Spec => ImplementsDelivery
<1>1. Delivery!Init /\ [][Delivery!Next]_<<Committed, Ledger>> => ImplementsDelivery
  BY DEF ImplementsDelivery, Delivery!Spec, Committed, Ledger
<1> QED BY InitHolds, NextKeeps, InitImplements, NextImplements, <1>1, PTL DEF Spec
=============================================================================
