-------------------------- MODULE NotificationsProofs --------------------------
(***************************************************************************)
(* Proofs about Notifications for every finite set of events and every     *)
(* number of refreshes and marks: its types, for which the versions have   *)
(* to be counted, that the client is never left without a way to hear of   *)
(* news, that news are passed on until they are shown, and where a mark    *)
(* the client shows on its own word comes from.                            *)
(***************************************************************************)
EXTENDS Notifications, FiniteSetTheorems, TLAPS

USE EventAssumption, BoundAssumption, FailureAssumption, NilAssumption

-----------------------------------------------------------------------------
\* Events whose row has been written, or never will be; and marks likewise.
Handled == {e \in Events : handler[e].pc \in {"emit", "done"}}
Settled == {m \in Marks : mark[m].pc \notin {"none", "put"}}

RefreshRecord == [for : {"none", "auto", "mark"}, of : 0..MaxMarks, at : Versions \cup {Nil}]
MarkRecord == [pc : {"none", "put", "applied", "refreshing", "done", "failed"},
               prev : View \cup {Nil}]

HandlerTyped ==
  handler \in [Events -> [pc : {"idle", "config", "resolve", "insert", "emit", "done"},
                          made : Versions]]

ServerTyped ==
  /\ HandlerTyped /\ version \in Versions /\ made \subseteq Versions /\ excused \subseteq made
  /\ \A e \in Events : handler[e].pc = "emit" => handler[e].made \in made

ClientTyped ==
  /\ conn \in {"none", "requested", "registered", "open", "dropped"}
  /\ status \in {"live", "polling"}
  /\ frames \in BOOLEAN /\ poll \in BOOLEAN /\ again \in BOOLEAN /\ soon \in BOOLEAN

\* A mark can be undone until its refresh, its only one, is answered.
MarkTyped ==
  /\ refresh \in [Slots -> RefreshRecord] /\ view \in View /\ mark \in [Marks -> MarkRecord]
  /\ \A m \in Marks : mark[m].pc \notin {"none", "done"} => mark[m].prev \in View
  /\ \A r \in Slots : refresh[r].for = "mark" =>
                         refresh[r].of \in Marks /\ mark[refresh[r].of].pc = "refreshing"
  /\ \A r, s \in Slots : /\ refresh[r].for = "mark" /\ refresh[s].for = "mark"
                          /\ refresh[r].of = refresh[s].of
                          => r = s

Counted == version <= Cardinality(Handled) + Cardinality(Settled)

NewsInv == ServerTyped /\ ClientTyped /\ MarkTyped /\ Counted

LEMMA InvTyped == NewsInv => TypeOK
BY DEF NewsInv, ServerTyped, HandlerTyped, ClientTyped, MarkTyped, RefreshRecord, MarkRecord, TypeOK

(* There are finitely many events, so many are handled at most.             *)
LEMMA EventsFinite == IsFiniteSet(Events) /\ Cardinality(Events) \in Nat
BY FS_CardinalityType

LEMMA HandledBound ==
  /\ IsFiniteSet(Handled) /\ Cardinality(Handled) \in Nat
  /\ Cardinality(Handled) <= Cardinality(Events)
<1>1. Handled \subseteq Events
  BY DEF Handled
<1> QED BY <1>1, EventsFinite, FS_Subset, FS_CardinalityType

LEMMA MarksFinite == IsFiniteSet(Marks) /\ Cardinality(Marks) = MaxMarks
<1>1. /\ IsFiniteSet(1..MaxMarks)
      /\ Cardinality(1..MaxMarks) = IF 1 > MaxMarks THEN 0 ELSE MaxMarks - 1 + 1
  BY FS_Interval
<1> QED BY <1>1 DEF Marks

LEMMA SettledBound ==
  /\ IsFiniteSet(Settled) /\ Cardinality(Settled) \in Nat
  /\ Cardinality(Settled) <= MaxMarks
<1>1. Settled \subseteq Marks
  BY DEF Settled
<1> QED BY <1>1, MarksFinite, FS_Subset, FS_CardinalityType

LEMMA ZeroVersion == 0 \in Versions
BY EventsFinite DEF Versions

LEMMA InitInv == Init => NewsInv
<1> SUFFICES ASSUME Init PROVE NewsInv
  OBVIOUS
<1>1. ServerTyped
  BY ZeroVersion DEF Init, ServerTyped, HandlerTyped
<1>2. ClientTyped
  BY DEF Init, ClientTyped
<1>3. MarkTyped
  <2>1. /\ NoRefresh \in RefreshRecord /\ Automatic \in RefreshRecord
        /\ NoRefresh.for = "none" /\ Automatic.for = "auto"
    BY DEF NoRefresh, Automatic, RefreshRecord
  <2>2. NoMark \in MarkRecord /\ NoMark.pc = "none"
    BY DEF NoMark, MarkRecord
  <2>3. view \in View
    BY ZeroVersion DEF Init, View
  <2>4. \A r \in Slots : refresh[r].for # "mark"
    BY <2>1 DEF Init
  <2> QED BY <2>1, <2>2, <2>3, <2>4 DEF Init, MarkTyped
<1>4. Counted
  BY HandledBound, SettledBound DEF Init, Counted
<1> QED BY <1>1, <1>2, <1>3, <1>4 DEF NewsInv

-----------------------------------------------------------------------------
(***************************************************************************)
(* The steps of the server.                                                *)
(***************************************************************************)
LEMMA Grows ==
  ASSUME Counted, UNCHANGED version, version \in Versions,
         Handled \subseteq Handled', Settled \subseteq Settled'
  PROVE  Counted'
<1>1. Handled' \subseteq Events /\ Settled' \subseteq Marks
  BY DEF Handled, Settled
<1>2. IsFiniteSet(Handled') /\ Cardinality(Handled) <= Cardinality(Handled')
  BY <1>1, EventsFinite, FS_Subset
<1>3. IsFiniteSet(Settled') /\ Cardinality(Settled) <= Cardinality(Settled')
  BY <1>1, MarksFinite, FS_Subset
<1>4. /\ Cardinality(Handled') \in Nat /\ Cardinality(Handled) \in Nat
      /\ Cardinality(Settled') \in Nat /\ Cardinality(Settled) \in Nat
  BY <1>2, <1>3, HandledBound, SettledBound, FS_CardinalityType
<1>5. version \in Nat /\ version' = version
  BY EventsFinite DEF Versions
<1> QED BY <1>2, <1>3, <1>4, <1>5 DEF Counted

LEMMA GoesInv ==
  ASSUME NewsInv, NEW e \in Events, NEW pc \in {"config", "resolve", "insert", "done"}, Goes(e, pc),
         pc # "done" => handler[e].pc # "emit" /\ handler[e].pc # "done",
         UNCHANGED <<version, made, client>>, excused' = excused \/ excused' = excused \cup {handler[e].made},
         excused' = excused \/ handler[e].pc = "emit",
         ClientTyped'
  PROVE  NewsInv'
<1>1. handler' = [handler EXCEPT ![e].pc = pc]
  BY DEF Goes
<1>t. ServerTyped /\ HandlerTyped
  BY DEF NewsInv, ServerTyped
<1>2. /\ HandlerTyped' /\ handler'[e].pc = pc /\ handler'[e].made = handler[e].made
      /\ \A d \in Events : d # e => handler'[d] = handler[d]
  BY <1>1, <1>t DEF HandlerTyped
<1>3. ServerTyped'
  BY <1>t, <1>2 DEF ServerTyped
<1>4. MarkTyped'
  BY DEF NewsInv, MarkTyped, client, timers
<1>5. Handled \subseteq Handled'
  BY <1>2 DEF Handled
<1>6. Counted'
  BY <1>5, Grows DEF NewsInv, ServerTyped, client, Settled
<1> QED BY <1>3, <1>4, <1>6 DEF NewsInv

LEMMA HandleInv ==
  ASSUME NewsInv, NEW e \in Events, Handle(e) \/ HandlerFails(e) PROVE NewsInv'
<1>s. ASSUME UNCHANGED <<stream, client>> PROVE ClientTyped'
  BY <1>s DEF NewsInv, ClientTyped, stream, client, timers
<1>1. CASE HandleEvent(e)
  <2>1. PICK pc \in {"config", "insert"} : Goes(e, pc)
    BY <1>1 DEF HandleEvent
  <2> QED BY <1>1, <1>s, <2>1, GoesInv DEF HandleEvent
<1>2. CASE HandleConfig(e)
  <2>1. PICK pc \in {"resolve", "done"} : Goes(e, pc)
    BY <1>2 DEF HandleConfig
  <2> QED BY <1>2, <1>s, <2>1, GoesInv DEF HandleConfig
<1>3. CASE HandleResolve(e)
  <2>1. PICK pc \in {"insert", "done"} : Goes(e, pc)
    BY <1>3 DEF HandleResolve
  <2> QED BY <1>3, <1>s, <2>1, GoesInv DEF HandleResolve
<1>4. CASE HandlerFails(e)
  <2>1. /\ Goes(e, "done") /\ UNCHANGED <<version, made, stream, client>>
        /\ excused' = excused \/ (excused' = excused \cup {handler[e].made} /\ handler[e].pc = "emit")
    BY <1>4 DEF HandlerFails
  <2> QED BY <1>s, <2>1, GoesInv
<1>5. CASE HandleEmit(e)
  <2>1. /\ Goes(e, "done") /\ handler[e].pc = "emit" /\ frames' = (frames \/ Registered)
        /\ UNCHANGED <<version, made, conn, client>>
        /\ excused' = excused \/ excused' = excused \cup {handler[e].made}
    BY <1>5 DEF HandleEmit
  <2>2. ClientTyped'
    BY <2>1 DEF NewsInv, ClientTyped, client, timers
  <2> QED BY <2>1, <2>2, GoesInv
<1>6. CASE HandleInsert(e)
  <2>t. /\ ServerTyped /\ HandlerTyped /\ MarkTyped /\ Counted /\ version \in Nat
        /\ e \notin Handled
    BY <1>6, EventsFinite DEF HandleInsert, NewsInv, ServerTyped, Versions, Handled
  <2>1. /\ version' = version + 1 /\ made' = made \cup {version'}
        /\ handler' = [handler EXCEPT ![e] = [pc |-> "emit", made |-> version']]
        /\ conn' = conn /\ frames' = frames /\ timers' = timers /\ refresh' = refresh /\ view' = view
        /\ mark' = mark /\ excused' = excused
    BY <1>6 DEF HandleInsert, stream, client
  <2>2. Handled' = Handled \cup {e} /\ Settled' = Settled
    BY <2>1, <2>t DEF Handled, HandlerTyped, Settled
  <2>3. Cardinality(Handled') = Cardinality(Handled) + 1 /\ IsFiniteSet(Handled')
    BY <2>t, <2>2, HandledBound, FS_AddElement
  <2>4. Cardinality(Handled') <= Cardinality(Events) /\ Cardinality(Handled') \in Nat
    <3>1. Handled' \subseteq Events
      BY DEF Handled
    <3> QED BY <2>3, <3>1, EventsFinite, FS_Subset, FS_CardinalityType
  <2>6. Counted'
    BY <2>1, <2>2, <2>t, <2>3, HandledBound, SettledBound DEF Counted
  <2>7. version' \in Versions
    BY <2>1, <2>2, <2>t, <2>4, <2>6, HandledBound, SettledBound, EventsFinite DEF Counted, Versions
  <2>8. ServerTyped'
    <3>1. HandlerTyped'
      BY <2>1, <2>t, <2>7 DEF HandlerTyped
    <3> QED BY <2>1, <2>t, <2>7, <3>1 DEF ServerTyped, HandlerTyped
  <2>9. ClientTyped' /\ MarkTyped'
    BY <2>1 DEF NewsInv, ClientTyped, MarkTyped, timers
  <2> QED BY <2>6, <2>8, <2>9 DEF NewsInv
<1> QED BY <1>1, <1>2, <1>3, <1>4, <1>5, <1>6 DEF Handle

LEMMA CrashInv == ASSUME NewsInv, Crash PROVE NewsInv'
<1>0. /\ handler' = Cut /\ conn' = IF conn = "none" THEN conn ELSE "dropped"
      /\ version' = version /\ made' = made /\ frames' = frames /\ timers' = timers
      /\ refresh' = refresh /\ view' = view /\ mark' = mark
      /\ excused' \subseteq excused \cup {handler[e].made : e \in {d \in Events : handler[d].pc = "emit"}}
  BY DEF Crash, client
<1>t. ServerTyped /\ HandlerTyped
  BY DEF NewsInv, ServerTyped
<1>1. /\ HandlerTyped'
      /\ \A e \in Events : handler'[e].pc = "done" \/ (handler[e].pc = "idle" /\ handler'[e].pc = "idle")
  BY <1>0, <1>t DEF Cut, HandlerTyped
<1>2. ServerTyped'
  BY <1>0, <1>1, <1>t DEF ServerTyped
<1>3. ClientTyped' /\ MarkTyped'
  BY <1>0 DEF NewsInv, ClientTyped, MarkTyped, timers
<1>4. Handled \subseteq Handled'
  BY <1>1 DEF Handled
<1>5. Counted'
  BY <1>0, <1>t, <1>4, Grows DEF NewsInv, ServerTyped, Settled
<1> QED BY <1>2, <1>3, <1>5 DEF NewsInv

-----------------------------------------------------------------------------
(***************************************************************************)
(* The steps of the client.                                                *)
(***************************************************************************)
LEMMA ServerStays ==
  ASSUME NewsInv, UNCHANGED server, excused' \subseteq made
  PROVE  ServerTyped' /\ Handled' = Handled /\ version' = version /\ version \in Versions
BY DEF NewsInv, ServerTyped, HandlerTyped, server, Handled

LEMMA ServerStaysToo ==
  ASSUME NewsInv, UNCHANGED <<server, excused>>
  PROVE  ServerTyped' /\ Handled' = Handled /\ version' = version /\ version \in Versions
BY ServerStays DEF NewsInv, ServerTyped

LEMMA StreamInv ==
  ASSUME NewsInv, UNCHANGED <<server, excused, refresh, view, mark>>, ClientTyped' PROVE NewsInv'
<1>1. ServerTyped' /\ Handled' = Handled /\ version' = version
  BY ServerStaysToo
<1>2. MarkTyped' /\ Counted'
  BY <1>1 DEF NewsInv, MarkTyped, Counted, Settled
<1> QED BY <1>1, <1>2 DEF NewsInv

(* A refresh that starts takes a free slot.                                 *)
LEMMA StartFacts ==
  ASSUME MarkTyped, NEW x \in RefreshRecord, Start(x)
  PROVE  \E r \in Slots :
           /\ refresh[r].for = "none" /\ refresh'[r] = x
           /\ \A s \in Slots : s # r => refresh'[s] = refresh[s]
           /\ refresh' \in [Slots -> RefreshRecord]
<1>1. PICK r \in Free : refresh' = [refresh EXCEPT ![r] = x]
  BY DEF Start
<1>2. r \in Slots /\ refresh[r].for = "none"
  BY DEF Free, NoRefresh
<1> QED BY <1>1, <1>2 DEF MarkTyped

LEMMA AutoTyped == Automatic \in RefreshRecord /\ Automatic.for = "auto"
BY DEF Automatic, RefreshRecord

LEMMA RefreshInv ==
  ASSUME NewsInv, UNCHANGED <<server, excused, view, mark>>, Start(Automatic), ClientTyped' PROVE NewsInv'
<1>0. MarkTyped
  BY DEF NewsInv
<1>1. PICK r \in Slots :
           /\ refresh[r].for = "none" /\ refresh'[r].for = "auto"
           /\ \A s \in Slots : s # r => refresh'[s] = refresh[s]
           /\ refresh' \in [Slots -> RefreshRecord]
  BY <1>0, StartFacts, AutoTyped
<1>2. ServerTyped' /\ Handled' = Handled /\ version' = version
  BY ServerStaysToo
<1>3. \A s \in Slots : refresh'[s].for = "mark" => refresh'[s] = refresh[s]
  BY <1>1
<1>4. MarkTyped'
  BY <1>0, <1>1, <1>3 DEF MarkTyped
<1>5. Counted'
  BY <1>2 DEF NewsInv, Counted, Settled
<1> QED BY <1>2, <1>4, <1>5 DEF NewsInv

LEMMA ConnectionInv ==
  ASSUME NewsInv, Connecting \/ Notice \/ Soon \/ Poll PROVE NewsInv'
<1>t. ClientTyped
  BY DEF NewsInv
<1>1. CASE Connecting
  BY <1>t, <1>1, StreamInv
     DEF Connecting, Register, Drop, Open, Frame, Reconnect, ClientTyped, client, timers, stream
<1>2. CASE Notice
  BY <1>t, <1>2, RefreshInv DEF Notice, Fallback, ClientTyped
<1>3. CASE Soon
  BY <1>t, <1>3, RefreshInv DEF Soon, ClientTyped, stream
<1>4. CASE Poll
  BY <1>t, <1>4, RefreshInv DEF Poll, ClientTyped, stream, timers
<1> QED BY <1>1, <1>2, <1>3, <1>4

(* The end of a refresh, and of the mark it belongs to.                     *)
LEMMA EndInv ==
  ASSUME NewsInv, NEW r \in Slots, refresh' = [refresh EXCEPT ![r] = NoRefresh], view' \in View,
         UNCHANGED server, excused' \subseteq made, ClientTyped',
         NEW x, x \in MarkRecord, x.pc \in {"done", "failed"}, x.pc = "failed" => x.prev \in View,
         mark' = IF refresh[r].for = "mark" THEN [mark EXCEPT ![refresh[r].of] = x] ELSE mark
  PROVE  NewsInv'
<1>t. MarkTyped /\ Counted
  BY DEF NewsInv
<1>s. ServerTyped' /\ Handled' = Handled /\ version' = version /\ version \in Versions
  BY ServerStays
<1>1. NoRefresh \in RefreshRecord /\ NoRefresh.for = "none"
  BY DEF NoRefresh, RefreshRecord
<1>2. /\ refresh' \in [Slots -> RefreshRecord]
      /\ refresh'[r].for = "none" /\ \A s \in Slots : s # r => refresh'[s] = refresh[s]
  BY <1>t, <1>1 DEF MarkTyped
<1>3. CASE refresh[r].for # "mark"
  <2>1. mark' = mark
    BY <1>3
  <2>2. MarkTyped'
    BY <1>t, <1>2, <2>1 DEF MarkTyped
  <2>3. Counted'
    BY <1>t, <1>s, <2>1 DEF Counted, Settled
  <2> QED BY <1>s, <2>2, <2>3 DEF NewsInv
<1>4. CASE refresh[r].for = "mark"
  <2> DEFINE m == refresh[r].of
  <2>1. m \in Marks /\ mark[m].pc = "refreshing" /\ mark' = [mark EXCEPT ![m] = x]
    BY <1>t, <1>4 DEF MarkTyped
  <2>2. \A s \in Slots : refresh'[s].for = "mark" => refresh'[s] = refresh[s] /\ refresh[s].of # m
    BY <1>t, <1>2, <1>4 DEF MarkTyped
  <2> HIDE DEF m
  <2>3. /\ mark' \in [Marks -> MarkRecord] /\ mark'[m] = x
        /\ \A k \in Marks : k # m => mark'[k] = mark[k]
    BY <1>t, <2>1 DEF MarkTyped
  <2>4. MarkTyped'
    BY <1>t, <1>2, <2>2, <2>3 DEF MarkTyped
  <2>5. Settled \subseteq Settled'
    BY <2>3 DEF Settled
  <2>6. Counted'
    BY <1>t, <1>s, <2>5, Grows
  <2> QED BY <1>s, <2>4, <2>6 DEF NewsInv
<1> QED BY <1>3, <1>4

LEMMA AnswerInv ==
  ASSUME NewsInv, NEW r \in Slots, Read(r) \/ Deliver(r) \/ RefreshFails(r) PROVE NewsInv'
<1>t. MarkTyped /\ version \in Versions /\ Counted /\ excused \subseteq made
  BY DEF NewsInv, ServerTyped
<1>c. ClientTyped'
  BY DEF Read, Deliver, RefreshFails, NewsInv, ClientTyped, stream, timers
<1>1. CASE Read(r)
  <2>1. refresh' = [refresh EXCEPT ![r].at = version] /\ view' = view /\ mark' = mark
    BY <1>1 DEF Read
  <2>2. /\ refresh' \in [Slots -> RefreshRecord]
        /\ \A s \in Slots : refresh'[s].for = refresh[s].for /\ refresh'[s].of = refresh[s].of
    BY <1>t, <2>1 DEF MarkTyped, RefreshRecord
  <2>3. ServerTyped' /\ Handled' = Handled /\ version' = version
    BY <1>1, ServerStaysToo DEF Read
  <2>4. MarkTyped' /\ Counted'
    BY <1>t, <2>1, <2>2, <2>3 DEF MarkTyped, Counted, Settled
  <2> QED BY <1>c, <2>3, <2>4 DEF NewsInv
<1>2. CASE Deliver(r)
  <2> DEFINE x == [pc |-> "done", prev |-> Nil]
  <2>1. /\ refresh' = [refresh EXCEPT ![r] = NoRefresh] /\ refresh[r].at # Nil /\ view' = Answer(r)
        /\ mark' = IF refresh[r].for = "mark" THEN [mark EXCEPT ![refresh[r].of] = x] ELSE mark
        /\ UNCHANGED <<server, excused>>
    BY <1>2 DEF Deliver, Ended
  <2>2. view' \in View
    BY <1>t, <2>1 DEF Answer, View, MarkTyped, RefreshRecord
  <2>3. x \in MarkRecord /\ x.pc = "done"
    BY DEF MarkRecord
  <2> HIDE DEF x
  <2> QED BY <1>t, <1>c, <2>1, <2>2, <2>3, EndInv
<1>3. CASE RefreshFails(r)
  <2>1. /\ refresh' = [refresh EXCEPT ![r] = NoRefresh] /\ UNCHANGED server
        /\ excused' \subseteq made
    BY <1>3, <1>t DEF RefreshFails
  <2>2. CASE refresh[r].for = "mark"
    <3> DEFINE m == refresh[r].of
               x == [mark[m] EXCEPT !.pc = "failed"]
    <3>1. m \in Marks /\ mark[m] \in MarkRecord /\ mark[m].prev \in View
      BY <1>t, <2>2 DEF MarkTyped
    <3>2. x \in MarkRecord /\ x.pc = "failed" /\ x.prev \in View
      BY <3>1 DEF MarkRecord
    <3>3. view' \in View /\ mark' = [mark EXCEPT ![m] = x]
      BY <1>3, <2>2, <3>1 DEF RefreshFails, RolledBack
    <3> HIDE DEF x
    <3> QED BY <1>c, <2>1, <2>2, <3>2, <3>3, EndInv
  <2>3. CASE refresh[r].for # "mark"
    <3> DEFINE x == [pc |-> "done", prev |-> Nil]
    <3>1. x \in MarkRecord /\ x.pc = "done"
      BY DEF MarkRecord
    <3>2. view' \in View /\ mark' = mark
      BY <1>t, <1>3, <2>3 DEF RefreshFails, MarkTyped
    <3> HIDE DEF x
    <3> QED BY <1>c, <2>1, <2>3, <3>1, <3>2, EndInv
  <2> QED BY <2>2, <2>3
<1> QED BY <1>1, <1>2, <1>3

MarkStep(m) == MarkBegin(m) \/ MarkApply(m) \/ MarkReply(m) \/ MarkFails(m)

LEMMA MarkInv == ASSUME NewsInv, NEW m \in Marks, MarkStep(m) PROVE NewsInv'
<1>t. /\ MarkTyped /\ Counted /\ version \in Versions /\ version \in Nat
      /\ mark \in [Marks -> MarkRecord] /\ mark[m] \in MarkRecord /\ view \in View
  BY EventsFinite DEF NewsInv, ServerTyped, MarkTyped, Versions
<1>c. ClientTyped'
  BY DEF MarkStep, MarkBegin, MarkApply, MarkReply, MarkFails, NewsInv, ClientTyped, stream, timers
<1>r. mark[m].pc # "refreshing" =>
        \A r \in Slots : refresh[r].for = "mark" => refresh[r].of # m
  BY <1>t DEF MarkTyped
<1>n. m \in Nat /\ m \in 1..MaxMarks
  BY DEF Marks
\* What all have in common but the version and the refresh a mark ends with.
<1>k. ASSUME NEW x \in MarkRecord, mark' = [mark EXCEPT ![m] = x], view' \in View, refresh' = refresh,
             mark[m].pc # "refreshing", x.pc \notin {"none", "done"} => x.prev \in View
      PROVE  MarkTyped' /\ mark'[m] = x /\ \A k \in Marks : k # m => mark'[k] = mark[k]
  <2>1. /\ mark' \in [Marks -> MarkRecord] /\ mark'[m] = x
        /\ \A k \in Marks : k # m => mark'[k] = mark[k]
    BY <1>t, <1>k
  <2>2. MarkTyped'
    BY <1>t, <1>k, <1>r, <2>1 DEF MarkTyped
  <2> QED BY <2>1, <2>2
<1>1. CASE MarkBegin(m)
  <2> DEFINE x == [pc |-> "put", prev |-> view]
  <2>1. /\ mark[m].pc = "none" /\ mark' = [mark EXCEPT ![m] = x]
        /\ view' = [view EXCEPT !.mine = TRUE] /\ refresh' = refresh /\ UNCHANGED <<server, excused>>
    BY <1>1 DEF MarkBegin, Marked
  <2>2. x \in MarkRecord /\ x.pc = "put" /\ x.prev \in View /\ view' \in View
    BY <1>t, <2>1 DEF MarkRecord, View
  <2> HIDE DEF x
  <2>3. MarkTyped' /\ mark'[m] = x /\ \A k \in Marks : k # m => mark'[k] = mark[k]
    BY <1>k, <2>1, <2>2
  <2>4. ServerTyped' /\ Handled' = Handled /\ version' = version
    BY <2>1, ServerStaysToo
  <2>5. Settled \subseteq Settled'
    BY <2>1, <2>3 DEF Settled
  <2>6. Counted'
    BY <1>t, <2>4, <2>5, Grows
  <2> QED BY <1>c, <2>3, <2>4, <2>6 DEF NewsInv
<1>2. CASE MarkApply(m)
  <2> DEFINE x == [mark[m] EXCEPT !.pc = "applied"]
  <2>1. /\ mark[m].pc = "put" /\ mark' = [mark EXCEPT ![m] = x] /\ version' = version + 1
        /\ view' = view /\ refresh' = refresh /\ handler' = handler /\ made' = made /\ excused' = excused
    BY <1>2, <1>t DEF MarkApply
  <2>2. x \in MarkRecord /\ x.pc = "applied" /\ x.prev \in View
    BY <1>t, <2>1 DEF MarkRecord, MarkTyped
  <2> HIDE DEF x
  <2>3. MarkTyped' /\ mark'[m] = x /\ \A k \in Marks : k # m => mark'[k] = mark[k]
    BY <1>k, <1>t, <2>1, <2>2
  <2>4. Handled' = Handled
    BY <2>1 DEF Handled
  <2>5. Settled' = Settled \cup {m} /\ m \notin Settled
    BY <2>1, <2>2, <2>3 DEF Settled
  <2>6. Cardinality(Settled') = Cardinality(Settled) + 1
    BY <2>5, SettledBound, FS_AddElement
  <2>7. Counted'
    BY <1>t, <2>1, <2>4, <2>6, HandledBound, SettledBound DEF Counted
  <2>8. Cardinality(Settled') <= MaxMarks
    <3>1. Settled' \subseteq Marks
      BY DEF Settled
    <3> QED BY <3>1, MarksFinite, FS_Subset
  <2>9. version' \in Versions
    BY <1>t, <2>1, <2>4, <2>6, <2>7, <2>8, HandledBound, SettledBound, EventsFinite DEF Counted, Versions
  <2>10. ServerTyped'
    BY <2>1, <2>9 DEF NewsInv, ServerTyped, HandlerTyped
  <2> QED BY <1>c, <2>3, <2>7, <2>10 DEF NewsInv
<1>3. CASE MarkReply(m)
  <2> DEFINE x == [mark[m] EXCEPT !.pc = "refreshing"]
  <2>1. /\ mark[m].pc = "applied" /\ mark' = [mark EXCEPT ![m] = x] /\ view' = view
        /\ UNCHANGED <<server, excused>> /\ Start(AfterMark(m))
    BY <1>3, <1>t DEF MarkReply
  <2>2. x \in MarkRecord /\ x.pc = "refreshing" /\ x.prev \in View
    BY <1>t, <2>1 DEF MarkRecord, MarkTyped
  <2> HIDE DEF x
  <2>3. /\ AfterMark(m) \in RefreshRecord /\ AfterMark(m).for = "mark" /\ AfterMark(m).of = m
    BY <1>n DEF AfterMark, RefreshRecord
  <2>4. PICK r \in Slots :
           /\ refresh[r].for = "none" /\ refresh'[r] = AfterMark(m)
           /\ \A s \in Slots : s # r => refresh'[s] = refresh[s]
           /\ refresh' \in [Slots -> RefreshRecord]
    BY <1>t, <2>1, <2>3, StartFacts
  <2>5. /\ mark' \in [Marks -> MarkRecord] /\ mark'[m] = x
        /\ \A k \in Marks : k # m => mark'[k] = mark[k]
    BY <1>t, <2>1, <2>2
  <2>6. MarkTyped'
    <3>1. \A k \in Marks : mark'[k].pc \notin {"none", "done"} => mark'[k].prev \in View
      BY <1>t, <2>2, <2>5 DEF MarkTyped
    <3>2. \A s \in Slots : refresh'[s].for = "mark" =>
            refresh'[s].of \in Marks /\ mark'[refresh'[s].of].pc = "refreshing"
      BY <1>t, <1>r, <2>1, <2>2, <2>3, <2>4, <2>5 DEF MarkTyped
    <3>3. \A s \in Slots : refresh'[s].for = "mark" /\ refresh'[s].of = m => s = r
      BY <1>r, <2>1, <2>4
    <3>4. \A s1, s2 \in Slots : /\ refresh'[s1].for = "mark" /\ refresh'[s2].for = "mark"
                                /\ refresh'[s1].of = refresh'[s2].of
                                => s1 = s2
      BY <1>t, <2>3, <2>4, <3>3 DEF MarkTyped
    <3> QED BY <1>t, <2>1, <2>4, <2>5, <3>1, <3>2, <3>4 DEF MarkTyped
  <2>7. ServerTyped' /\ Handled' = Handled /\ version' = version
    BY <2>1, ServerStaysToo
  <2>8. Settled \subseteq Settled'
    BY <2>2, <2>5 DEF Settled
  <2>9. Counted'
    BY <1>t, <2>7, <2>8, Grows
  <2> QED BY <1>c, <2>6, <2>7, <2>9 DEF NewsInv
<1>4. CASE MarkFails(m)
  <2> DEFINE x == [mark[m] EXCEPT !.pc = "failed"]
  <2>1. /\ mark[m].pc \in {"put", "applied"} /\ mark' = [mark EXCEPT ![m] = x]
        /\ view' = mark[m].prev /\ refresh' = refresh /\ UNCHANGED <<server, excused>>
    BY <1>4, <1>t DEF MarkFails, RolledBack
  <2>2. x \in MarkRecord /\ x.pc = "failed" /\ x.prev \in View /\ view' \in View
    BY <1>t, <2>1 DEF MarkRecord, MarkTyped
  <2> HIDE DEF x
  <2>3. MarkTyped' /\ mark'[m] = x /\ \A k \in Marks : k # m => mark'[k] = mark[k]
    BY <1>k, <2>1, <2>2
  <2>4. ServerTyped' /\ Handled' = Handled /\ version' = version
    BY <2>1, ServerStaysToo
  <2>5. Settled \subseteq Settled'
    BY <2>2, <2>3 DEF Settled
  <2>6. Counted'
    BY <1>t, <2>4, <2>5, Grows
  <2> QED BY <1>c, <2>3, <2>4, <2>6 DEF NewsInv
<1> QED BY <1>1, <1>2, <1>3, <1>4 DEF MarkStep

LEMMA NextInv == NewsInv /\ [Next]_vars => NewsInv'
<1> SUFFICES ASSUME NewsInv, [Next]_vars PROVE NewsInv'
  OBVIOUS
<1>1. CASE UNCHANGED vars
  <2>1. ClientTyped'
    BY <1>1 DEF vars, stream, client, timers, NewsInv, ClientTyped
  <2> QED BY <1>1, <2>1, StreamInv DEF vars, client
<1> QED BY <1>1, HandleInv, CrashInv, ConnectionInv, AnswerInv, MarkInv DEF Next, MarkStep

(* Types: the versions stay within their bound.                             *)
THEOREM TypeCorrect == Spec => []TypeOK
<1>1. Spec => []NewsInv
  BY InitInv, NextInv, PTL DEF Spec
<1> QED BY <1>1, InvTyped, PTL

-----------------------------------------------------------------------------
(***************************************************************************)
(* While the client polls it has a poll or its first connection to wait    *)
(* for, without a connection a new one is due, and while it is live no     *)
(* poll runs beside the stream (useNotifications).                         *)
(***************************************************************************)
ClientInv == NeverStranded /\ ClientTyped

THEOREM ClientIsNeverStranded == Spec => []NeverStranded
<1>1. Init => ClientInv
  BY DEF Init, ClientInv, NeverStranded, FirstTry, ClientTyped
<1>2. ClientInv /\ [Next]_vars => ClientInv'
  <2> SUFFICES ASSUME NeverStranded, ClientTyped, [Next]_vars PROVE ClientInv'
    BY DEF ClientInv
  <2>1. ASSUME UNCHANGED <<conn, status, poll, again>>, frames' \in BOOLEAN, soon' \in BOOLEAN PROVE ClientInv'
    BY <2>1 DEF ClientInv, NeverStranded, FirstTry, ClientTyped
  <2>2. ASSUME NEW e \in Events, Handle(e) \/ HandlerFails(e) PROVE ClientInv'
    BY <2>1, <2>2 DEF Handle, HandleEvent, HandleConfig, HandleResolve, HandleInsert, HandleEmit,
                      HandlerFails, ClientTyped, stream, client, timers
  <2>3. CASE Crash
    BY <2>3 DEF Crash, ClientInv, NeverStranded, FirstTry, ClientTyped, client, timers
  <2>4. CASE Connecting
    BY <2>4 DEF Connecting, Register, Drop, Open, Frame, Reconnect, ClientInv, NeverStranded, FirstTry,
                ClientTyped, stream, client, timers
  <2>5. CASE Notice
    BY <2>5 DEF Notice, Fallback, ClientInv, NeverStranded, FirstTry, ClientTyped
  <2>6. CASE Soon \/ Poll
    BY <2>1, <2>6 DEF Soon, Poll, ClientTyped, stream, timers
  <2>7. ASSUME NEW r \in Slots, Read(r) \/ Deliver(r) \/ RefreshFails(r) PROVE ClientInv'
    BY <2>1, <2>7 DEF Read, Deliver, RefreshFails, ClientTyped, stream, timers
  <2>8. ASSUME NEW m \in Marks, MarkStep(m) PROVE ClientInv'
    BY <2>1, <2>8 DEF MarkStep, MarkBegin, MarkApply, MarkReply, MarkFails, ClientTyped, stream, timers
  <2>9. CASE UNCHANGED vars
    BY <2>1, <2>9 DEF vars, ClientTyped, stream, client, timers
  <2> QED BY <2>2, <2>3, <2>4, <2>5, <2>6, <2>7, <2>8, <2>9 DEF Next, MarkStep
<1>3. ClientInv => NeverStranded
  BY DEF ClientInv
<1> QED BY <1>1, <1>2, <1>3, PTL DEF Spec

-----------------------------------------------------------------------------
(***************************************************************************)
(* What is needed to tell which new notifications an answer shows: none is *)
(* of a version the server has not had, and every new notification is one  *)
(* of its versions.                                                        *)
(***************************************************************************)
Copies(m) == mark[m].pc \notin {"none", "done"}

NothingFromTheFuture ==
  /\ view.at <= version
  /\ \A r \in Slots : refresh[r].at # Nil => refresh[r].at <= version
  /\ \A m \in Marks : Copies(m) => mark[m].prev.at <= version
  /\ made \subseteq 1..version

\* A signal travels on a connection the server has in its table, or had.
FramesOnStream == frames => conn \in {"registered", "open", "dropped"}

KeptInv == NewsInv /\ NothingFromTheFuture /\ NeverStranded /\ FramesOnStream

LEMMA Numbers ==
  ASSUME NewsInv
  PROVE  /\ version \in Nat /\ view.at \in Nat
         /\ \A r \in Slots : refresh[r].at # Nil => refresh[r].at \in Nat
         /\ \A m \in Marks : Copies(m) => mark[m].prev.at \in Nat
<1>1. \A w \in Versions : w \in Nat
  BY EventsFinite DEF Versions
<1> QED BY <1>1 DEF NewsInv, ServerTyped, MarkTyped, View, RefreshRecord, Copies

LEMMA FutureServer ==
  ASSUME NewsInv, NothingFromTheFuture, UNCHANGED <<view, refresh>>,
         version' = version \/ version' = version + 1,
         \A m \in Marks : Copies(m)' => Copies(m) /\ mark'[m].prev = mark[m].prev,
         made' = made \/ (version' = version + 1 /\ made' = made \cup {version'})
  PROVE  NothingFromTheFuture'
<1>1. version <= version' /\ version' \in Nat
  BY Numbers
<1>2. /\ view'.at <= version'
      /\ \A m \in Marks : Copies(m)' => mark'[m].prev.at <= version'
      /\ \A r \in Slots : refresh'[r].at # Nil => refresh'[r].at <= version'
  BY <1>1, Numbers DEF NothingFromTheFuture
<1>3. made' \subseteq 1..version'
  <2>1. \A w \in made : w \in Nat /\ 1 <= w /\ w <= version
    BY Numbers DEF NothingFromTheFuture
  <2>2. \A w \in made' : w \in Nat /\ 1 <= w /\ w <= version'
    BY <1>1, <2>1, Numbers
  <2> QED BY <1>1, <2>2
<1> QED BY <1>2, <1>3 DEF NothingFromTheFuture

LEMMA FutureClient ==
  ASSUME NewsInv, NothingFromTheFuture, UNCHANGED <<version, made>>,
         view'.at <= version,
         \A m \in Marks : Copies(m)' => mark'[m].prev.at <= version,
         \A r \in Slots : refresh'[r].at # Nil => refresh'[r].at <= version
  PROVE  NothingFromTheFuture'
BY DEF NothingFromTheFuture

(* A refresh that starts has read nothing.                                  *)
LEMMA StartReadsNothing ==
  ASSUME NewsInv, NEW x \in RefreshRecord, Start(x)
  PROVE  \E r \in Slots : /\ refresh[r] = NoRefresh /\ refresh'[r] = x
                          /\ \A s \in Slots : s # r => refresh'[s] = refresh[s]
BY DEF Start, Free, NewsInv, MarkTyped

LEMMA AfterMarkTyped ==
  ASSUME NEW m \in Marks
  PROVE  /\ AfterMark(m) \in RefreshRecord /\ AfterMark(m).for = "mark"
         /\ AfterMark(m).of = m /\ AfterMark(m).at = Nil
BY DEF AfterMark, RefreshRecord, Marks

LEMMA FutureNext ==
  ASSUME NewsInv, NothingFromTheFuture, [Next]_vars PROVE NothingFromTheFuture'
<1>n. /\ view.at <= version /\ version <= version
      /\ \A r \in Slots : refresh[r].at # Nil => refresh[r].at <= version
      /\ \A m \in Marks : Copies(m) => mark[m].prev.at <= version
  BY Numbers DEF NothingFromTheFuture
<1>t. MarkTyped
  BY DEF NewsInv
<1>u. UNCHANGED mark => \A m \in Marks : (Copies(m)' <=> Copies(m)) /\ mark'[m].prev = mark[m].prev
  BY DEF Copies
<1>1. CASE UNCHANGED vars
  BY <1>1, <1>u, FutureServer DEF vars, server, client
<1>2. ASSUME NEW e \in Events, Handle(e) \/ HandlerFails(e) PROVE NothingFromTheFuture'
  BY <1>2, <1>u, FutureServer
     DEF Handle, HandleEvent, HandleConfig, HandleResolve, HandleInsert, HandleEmit, HandlerFails, client
<1>3. CASE Crash
  BY <1>3, <1>u, FutureServer DEF Crash, client
<1>4. CASE Connecting
  BY <1>4, <1>u, FutureServer
     DEF Connecting, Register, Drop, Open, Frame, Reconnect, server, client
<1>5. CASE Notice \/ Soon \/ Poll
  <2>1. Start(Automatic) /\ UNCHANGED <<version, made, view, mark>>
    BY <1>5 DEF Notice, Soon, Poll, server
  <2>2. \A r \in Slots : refresh'[r].at # Nil => refresh'[r] = refresh[r]
    BY <2>1, StartReadsNothing, AutoTyped DEF Automatic
  <2> QED BY <1>n, <1>u, <2>1, <2>2, FutureClient
<1>6. ASSUME NEW r \in Slots, Read(r) PROVE NothingFromTheFuture'
  <2>1. \A s \in Slots : refresh'[s].at \in {refresh[s].at, version}
    BY <1>t, <1>6 DEF Read, MarkTyped, RefreshRecord
  <2> QED BY <1>n, <1>u, <1>6, <2>1, FutureClient DEF Read, server
<1>7. ASSUME NEW r \in Slots, Deliver(r) PROVE NothingFromTheFuture'
  <2>1. \A s \in Slots : refresh'[s].at \in {refresh[s].at, Nil}
    BY <1>t, <1>7 DEF Deliver, MarkTyped, NoRefresh
  <2>2. view'.at = refresh[r].at /\ refresh[r].at # Nil
    BY <1>7 DEF Deliver, Answer
  <2>3. \A m \in Marks : Copies(m)' => Copies(m) /\ mark'[m].prev = mark[m].prev
    BY <1>t, <1>u, <1>7 DEF Deliver, Ended, Copies, MarkTyped
  <2> QED BY <1>n, <1>7, <2>1, <2>2, <2>3, FutureClient DEF Deliver, server
<1>r. ASSUME NEW m \in Marks, RolledBack(m), Copies(m)
      PROVE  /\ view'.at <= version
             /\ \A k \in Marks : Copies(k)' => Copies(k) /\ mark'[k].prev = mark[k].prev
  BY <1>n, <1>t, <1>r DEF RolledBack, Copies, MarkTyped, MarkRecord
<1>8. ASSUME NEW r \in Slots, RefreshFails(r) PROVE NothingFromTheFuture'
  <2>1. \A s \in Slots : refresh'[s].at \in {refresh[s].at, Nil}
    BY <1>t, <1>8 DEF RefreshFails, MarkTyped, NoRefresh
  <2>2. CASE refresh[r].for = "mark"
    <3>1. refresh[r].of \in Marks /\ Copies(refresh[r].of) /\ RolledBack(refresh[r].of)
      BY <1>t, <1>8, <2>2 DEF RefreshFails, MarkTyped, Copies
    <3> QED BY <1>n, <1>r, <1>8, <2>1, <3>1, FutureClient DEF RefreshFails, server
  <2>3. CASE refresh[r].for # "mark"
    <3>1. UNCHANGED <<view, mark>>
      BY <1>8, <2>3 DEF RefreshFails
    <3> QED BY <1>n, <1>u, <1>8, <2>1, <3>1, FutureClient DEF RefreshFails, server
  <2> QED BY <2>2, <2>3
<1>9. ASSUME NEW m \in Marks, MarkBegin(m) PROVE NothingFromTheFuture'
  <2>1. /\ view' = [view EXCEPT !.mine = TRUE] /\ mark'[m].prev = view /\ refresh' = refresh
        /\ \A k \in Marks : k # m => mark'[k] = mark[k]
    BY <1>t, <1>9 DEF MarkBegin, Marked, MarkTyped
  <2>2. view'.at = view.at
    BY <1>t, <2>1 DEF MarkTyped, View
  <2>3. \A k \in Marks : Copies(k)' => mark'[k].prev.at <= version
    BY <1>n, <2>1 DEF Copies
  <2> QED BY <1>n, <1>9, <2>1, <2>2, <2>3, FutureClient DEF MarkBegin, server
<1>10. ASSUME NEW m \in Marks, MarkApply(m) PROVE NothingFromTheFuture'
  <2>1. \A k \in Marks : Copies(k)' => Copies(k) /\ mark'[k].prev = mark[k].prev
    BY <1>t, <1>10 DEF MarkApply, MarkTyped, MarkRecord, Copies
  <2> QED BY <1>10, <2>1, FutureServer DEF MarkApply
<1>11. ASSUME NEW m \in Marks, MarkReply(m) PROVE NothingFromTheFuture'
  <2>1. /\ Start(AfterMark(m))
        /\ \A k \in Marks : Copies(k)' => Copies(k) /\ mark'[k].prev = mark[k].prev
    BY <1>t, <1>11 DEF MarkReply, MarkTyped, MarkRecord, Copies
  <2>2. \A r \in Slots : refresh'[r].at # Nil => refresh'[r] = refresh[r]
    BY <2>1, StartReadsNothing, AfterMarkTyped
  <2> QED BY <1>n, <1>11, <2>1, <2>2, FutureClient DEF MarkReply, server
<1>12. ASSUME NEW m \in Marks, MarkFails(m) PROVE NothingFromTheFuture'
  <2>1. RolledBack(m) /\ Copies(m)
    BY <1>12 DEF MarkFails, Copies
  <2> QED BY <1>n, <1>r, <1>12, <2>1, FutureClient DEF MarkFails, server
<1> QED BY <1>1, <1>2, <1>3, <1>4, <1>5, <1>6, <1>7, <1>8, <1>9, <1>10, <1>11, <1>12 DEF Next

LEMMA FramesNext ==
  ASSUME NewsInv, NeverStranded, FramesOnStream, [Next]_vars PROVE FramesOnStream'
<1>1. CASE UNCHANGED vars
  BY <1>1 DEF vars, stream, FramesOnStream
<1>2. ASSUME NEW e \in Events, Handle(e) \/ HandlerFails(e) PROVE FramesOnStream'
  BY <1>2 DEF Handle, HandleEvent, HandleConfig, HandleResolve, HandleInsert, HandleEmit, HandlerFails,
              Registered, FramesOnStream, stream
<1>3. CASE Crash \/ Connecting \/ Notice
  <2>t. frames \in BOOLEAN
    BY DEF NewsInv, ClientTyped
  <2>1. CASE Crash
    BY <2>1, <2>t DEF Crash, FramesOnStream
  <2>2. CASE Register \/ Drop \/ Open
    BY <2>2, <2>t DEF Register, Drop, Open, FramesOnStream
  <2>3. CASE Frame \/ Notice
    BY <2>3 DEF Frame, Notice, FramesOnStream
  <2>4. CASE Reconnect
    BY <2>4, <2>t DEF Reconnect, FramesOnStream, NeverStranded, NewsInv, ClientTyped
  <2> QED BY <1>3, <2>1, <2>2, <2>3, <2>4 DEF Connecting
<1>4. ASSUME Soon \/ Poll \/ \E m \in Marks : MarkStep(m) PROVE FramesOnStream'
  BY <1>4 DEF Soon, Poll, MarkStep, MarkBegin, MarkApply, MarkReply, MarkFails, FramesOnStream, stream
<1>5. ASSUME NEW r \in Slots, Read(r) \/ Deliver(r) \/ RefreshFails(r) PROVE FramesOnStream'
  BY <1>5 DEF Read, Deliver, RefreshFails, FramesOnStream, stream
<1> QED BY <1>1, <1>2, <1>3, <1>4, <1>5 DEF Next, MarkStep

LEMMA Kept == Spec => []KeptInv
<1>1. Init => NewsInv /\ NothingFromTheFuture /\ FramesOnStream
  <2> SUFFICES ASSUME Init PROVE NewsInv /\ NothingFromTheFuture /\ FramesOnStream
    OBVIOUS
  <2>1. \A r \in Slots : refresh[r].at = Nil
    BY DEF Init, NoRefresh, Automatic
  <2>2. NothingFromTheFuture
    BY <2>1 DEF Init, NoMark, NothingFromTheFuture, Copies
  <2> QED BY <2>2, InitInv DEF Init, FramesOnStream
<1>2. /\ NewsInv /\ NothingFromTheFuture /\ NeverStranded /\ FramesOnStream /\ [Next]_vars
      => NewsInv' /\ NothingFromTheFuture' /\ FramesOnStream'
  BY NextInv, FutureNext, FramesNext
<1>3. NewsInv /\ NothingFromTheFuture /\ NeverStranded /\ FramesOnStream <=> KeptInv
  BY DEF KeptInv
<1> QED BY <1>1, <1>2, <1>3, ClientIsNeverStranded, PTL DEF Spec

-----------------------------------------------------------------------------
(***************************************************************************)
(* What a new notification is carried by until it is shown: a handler that *)
(* has still to announce it, a signal or the timer it set, a broken        *)
(* connection the client has still to notice, or a refresh that will read  *)
(* it or has.                                                              *)
(***************************************************************************)
Carried(v) ==
  \/ Announcing(v) \/ frames \/ soon \/ conn = "dropped"
  \/ \E r \in Slots : WillShow(r, v)

PassedOn(v) == Carried(v)' \/ Shown(v)' \/ v \in excused'

NewsIsCarried ==
  [][\A v \in made' : /\ v \in made => (Carried(v) => PassedOn(v))
                     /\ v \notin made => Carried(v)']_vars

LEMMA CarriedKept ==
  ASSUME NEW v, Carried(v), ~Announcing(v), frames => frames' \/ soon', soon => soon',
         conn = "dropped" => conn' = "dropped", refresh' = refresh
  PROVE  Carried(v)'
BY DEF Carried, WillShow

(* A refresh that starts shows whatever has been announced.                 *)
LEMMA StartCarries ==
  ASSUME NewsInv, NEW x \in RefreshRecord, x.for # "none", x.at = Nil, Start(x), NEW v
  PROVE  \E r \in Slots : WillShow(r, v)'
<1>1. PICK r \in Slots : refresh'[r] = x
  BY StartReadsNothing
<1> QED BY <1>1 DEF WillShow

LEMMA CarriedNext ==
  ASSUME KeptInv, [Next]_vars, NEW v \in made, Carried(v)
  PROVE  PassedOn(v)
<1>t. NewsInv /\ ServerTyped /\ HandlerTyped /\ ClientTyped /\ MarkTyped /\ NothingFromTheFuture
  BY DEF KeptInv, NewsInv, ServerTyped
<1>v. v \in Nat /\ v <= version /\ version \in Nat /\ view.at \in Nat
  BY <1>t, Numbers DEF NothingFromTheFuture
<1>a. ASSUME UNCHANGED handler PROVE Announcing(v)' <=> Announcing(v)
  BY <1>a DEF Announcing
<1>1. CASE UNCHANGED vars
  BY <1>1, <1>a DEF vars, server, stream, client, timers, Carried, PassedOn, WillShow
<1>2. ASSUME NEW e \in Events, Handle(e) \/ HandlerFails(e) PROVE Carried(v)' \/ v \in excused'
  <2>1. /\ conn' = conn /\ soon' = soon /\ refresh' = refresh /\ (frames => frames')
        /\ \A d \in Events \ {e} : handler'[d] = handler[d]
    BY <1>2, <1>t DEF Handle, HandleEvent, HandleConfig, HandleResolve, HandleInsert, HandleEmit,
                      HandlerFails, Goes, stream, client, timers, HandlerTyped, ClientTyped
  <2>2. CASE handler[e].pc = "emit" /\ handler[e].made = v
    <3>1. HandleEmit(e) \/ HandlerFails(e)
      BY <1>2, <2>2 DEF Handle, HandleEvent, HandleConfig, HandleResolve, HandleInsert
    <3>2. conn \in {"registered", "open"} \/ Away \/ conn = "dropped"
      BY <1>t DEF ClientTyped, Away
    <3>3. CASE Away
      BY <2>2, <3>1, <3>3 DEF HandleEmit, HandlerFails, Away
    <3>4. CASE conn \in {"registered", "open"}
      BY <2>2, <3>1, <3>4 DEF HandleEmit, HandlerFails, Registered, Carried
    <3>5. CASE conn = "dropped"
      BY <2>1, <3>5 DEF Carried
    <3> QED BY <3>2, <3>3, <3>4, <3>5
  <2>3. CASE Announcing(v) /\ ~(handler[e].pc = "emit" /\ handler[e].made = v)
    <3>1. Announcing(v)'
      BY <2>1, <2>3 DEF Announcing
    <3> QED BY <3>1 DEF Carried
  <2>4. CASE ~Announcing(v)
    BY <2>1, <2>4, CarriedKept
  <2> QED BY <2>2, <2>3, <2>4
<1>3. CASE Crash
  <2>1. CASE ~Announcing(v)
    BY <1>3, <2>1, CarriedKept DEF Crash, client, timers, PassedOn
  <2>2. CASE Announcing(v) /\ Away
    <3>1. PICK e \in Events : handler[e].pc = "emit" /\ handler[e].made = v
      BY <2>2 DEF Announcing
    <3> QED BY <1>3, <2>2, <3>1 DEF Crash, PassedOn
  <2>3. CASE ~Away
    <3>1. conn' = "dropped"
      BY <1>3, <2>3 DEF Crash, Away
    <3> QED BY <3>1 DEF Carried, PassedOn
  <2> QED BY <2>1, <2>2, <2>3
<1>4. CASE Connecting
  <2>1. UNCHANGED <<handler, refresh>>
    BY <1>4 DEF Connecting, Register, Drop, Open, Frame, Reconnect, server, client
  <2>2. /\ frames => frames' \/ soon'
        /\ soon => soon'
        /\ conn = "dropped" => conn' = "dropped"
    <3>1. again => conn = "none"
      BY <1>t DEF KeptInv, NeverStranded, ClientTyped
    <3>2. CASE Register \/ Drop \/ Open
      BY <3>2 DEF Register, Drop, Open, client, timers
    <3>3. CASE Frame
      BY <3>3 DEF Frame
    <3>4. CASE Reconnect
      BY <3>1, <3>4 DEF Reconnect
    <3> QED BY <1>4, <3>2, <3>3, <3>4 DEF Connecting
  <2>3. CASE Announcing(v)
    BY <1>a, <2>1, <2>3 DEF Carried, PassedOn
  <2> QED BY <2>1, <2>2, <2>3, CarriedKept DEF PassedOn
<1>5. ASSUME Notice \/ Soon \/ Poll \/ \E m \in Marks : MarkReply(m) PROVE Carried(v)'
  <2>1. PICK x \in RefreshRecord : x.for # "none" /\ x.at = Nil /\ Start(x)
    <3>1. Automatic.at = Nil
      BY DEF Automatic
    <3> QED BY <1>5, <3>1, AutoTyped, AfterMarkTyped DEF Notice, Soon, Poll, MarkReply
  <2> QED BY <1>t, <2>1, StartCarries DEF Carried
<1>6. ASSUME NEW r \in Slots, Read(r) PROVE Carried(v)'
  <2>1. UNCHANGED <<handler, frames, soon, conn>>
    BY <1>6 DEF Read, server, stream, timers
  <2>2. \A s \in Slots : WillShow(s, v) => WillShow(s, v)'
    BY <1>t, <1>v, <1>6 DEF Read, WillShow, MarkTyped
  <2> QED BY <1>a, <2>1, <2>2 DEF Carried
<1>7. ASSUME NEW r \in Slots, Deliver(r) PROVE Carried(v)' \/ Shown(v)'
  <2>1. UNCHANGED <<handler, frames, soon, conn>> /\ refresh[r].at # Nil
    BY <1>7 DEF Deliver, server, stream, timers
  <2>2. \A s \in Slots : s # r => refresh'[s] = refresh[s]
    BY <1>t, <1>7 DEF Deliver, MarkTyped
  <2>3. CASE WillShow(r, v)
    BY <1>7, <2>1, <2>3 DEF Deliver, Answer, WillShow, Shown
  <2>4. CASE ~WillShow(r, v)
    BY <1>a, <2>1, <2>2, <2>4 DEF Carried, WillShow
  <2> QED BY <2>3, <2>4
<1>8. ASSUME NEW r \in Slots, RefreshFails(r) PROVE Carried(v)' \/ v \in excused'
  <2>1. UNCHANGED <<handler, frames, soon, conn>>
    BY <1>8 DEF RefreshFails, server, stream, timers
  <2>2. \A s \in Slots : s # r => refresh'[s] = refresh[s]
    BY <1>t, <1>8 DEF RefreshFails, MarkTyped
  <2>3. CASE WillShow(r, v)
    BY <1>8, <2>3 DEF RefreshFails
  <2>4. CASE ~WillShow(r, v)
    BY <1>a, <2>1, <2>2, <2>4 DEF Carried, WillShow
  <2> QED BY <2>3, <2>4
<1>9. ASSUME NEW m \in Marks, MarkBegin(m) \/ MarkApply(m) \/ MarkFails(m) PROVE Carried(v)'
  BY <1>9, <1>a DEF MarkBegin, MarkApply, MarkFails, server, stream, timers, Carried, WillShow
<1> QED BY <1>1, <1>2, <1>3, <1>4, <1>5, <1>6, <1>7, <1>8, <1>9 DEF Next, PassedOn

(* A notification that is new is carried by the handler that wrote it.      *)
LEMMA NewIsAnnounced ==
  ASSUME NewsInv, [Next]_vars, NEW v \in made', v \notin made PROVE Carried(v)'
<1>1. PICK e \in Events : HandleInsert(e)
  <2>1. CASE UNCHANGED made
    BY <2>1
  <2>2. CASE ~UNCHANGED made
    BY <2>2 DEF Next, Handle, HandleEvent, HandleConfig, HandleResolve, HandleEmit, HandlerFails, Crash,
                Connecting, Register, Drop, Open, Frame, Reconnect, Notice, Soon, Poll, Read, Deliver,
                RefreshFails, MarkBegin, MarkApply, MarkReply, MarkFails, server, vars
  <2> QED BY <2>1, <2>2
<1>2. v = version' /\ handler'[e] = [pc |-> "emit", made |-> version']
  BY <1>1 DEF HandleInsert, NewsInv, ServerTyped, HandlerTyped
<1> QED BY <1>2 DEF Carried, Announcing

(* A new notification is carried by its handler, and no step of the server, *)
(* the connection, a timer or the user drops its last carrier before it is  *)
(* shown, except a failed refresh that would have shown it, a lost reply to *)
(* its INSERT, and an announcement nobody listens to (emitToUser,           *)
(* onMessage, enterFallback): what AnnouncedIsShown leaves to fairness is   *)
(* only that the carrier moves.                                             *)
THEOREM NewsReachesTheView == Spec => NewsIsCarried
<1>1. KeptInv /\ [Next]_vars
      => [\A v \in made' : /\ v \in made => (Carried(v) => PassedOn(v))
                         /\ v \notin made => Carried(v)']_vars
  BY CarriedNext, NewIsAnnounced DEF KeptInv
<1> QED BY <1>1, Kept, PTL DEF Spec, NewsIsCarried

-----------------------------------------------------------------------------
(***************************************************************************)
(* Where a mark comes from that the client shows on its own word: its      *)
(* request, or the one refresh that ends it, is under way; or a later mark *)
(* that was begun over it has failed and put it back, perhaps long after   *)
(* the first was taken back itself.                                        *)
(***************************************************************************)
UnderWay(m) == mark[m].pc \in {"put", "applied", "refreshing"}
BegunOver(m) == mark[m].pc \notin {"none", "done"} /\ mark[m].prev.mine

MarkHasSource ==
  /\ view.mine => \E m \in Marks : UnderWay(m) \/ (mark[m].pc = "failed" /\ BegunOver(m))
  /\ \A m \in Marks : BegunOver(m) => \E k \in 1..(m - 1) : mark[k].pc # "none"
  /\ \A m \in Marks : mark[m].pc # "none" => \A k \in 1..(m - 1) : mark[k].pc # "none"
  /\ \A m \in Marks : mark[m].pc = "refreshing"
                      <=> \E r \in Slots : refresh[r].for = "mark" /\ refresh[r].of = m

LEMMA SourceKept ==
  ASSUME MarkTyped, MarkHasSource, UNCHANGED <<view, mark>>,
         \A r \in Slots : refresh'[r].for = "mark" => refresh'[r] = refresh[r],
         \A r \in Slots : refresh[r].for = "mark" => refresh'[r].for = "mark"
  PROVE  MarkHasSource'
BY DEF MarkHasSource, UnderWay, BegunOver

(* A mark ends, by the answer to its refresh or by a rollback.              *)
LEMMA SourceAfterEnd ==
  ASSUME MarkTyped, MarkTyped', MarkHasSource, NEW m \in Marks, mark[m].pc \notin {"none", "done"},
         \/ ~view'.mine /\ mark'[m].pc = "done"
         \/ view' = mark[m].prev /\ mark'[m].pc = "failed" /\ mark'[m].prev = mark[m].prev,
         \A k \in Marks : k # m => mark'[k] = mark[k],
         \A r \in Slots : ~(refresh'[r].for = "mark" /\ refresh'[r].of = m),
         \A k \in Marks : k # m =>
           (\E r \in Slots : refresh'[r].for = "mark" /\ refresh'[r].of = k)
           <=> (\E r \in Slots : refresh[r].for = "mark" /\ refresh[r].of = k)
  PROVE  MarkHasSource'
<1>1. (view.mine => \E k \in Marks : UnderWay(k) \/ (mark[k].pc = "failed" /\ BegunOver(k)))'
  BY DEF UnderWay, BegunOver
<1>2. ASSUME NEW k \in Marks, BegunOver(k)'
      PROVE  \E j \in 1..(k - 1) : mark'[j].pc # "none"
  <2>1. BegunOver(k)
    BY <1>2 DEF BegunOver
  <2>2. PICK j \in 1..(k - 1) : mark[j].pc # "none"
    BY <2>1 DEF MarkHasSource
  <2> QED BY <2>2 DEF Marks
<1>3. ASSUME NEW k \in Marks
      PROVE  mark'[k].pc = "refreshing"
             <=> \E r \in Slots : refresh'[r].for = "mark" /\ refresh'[r].of = k
  BY DEF MarkHasSource
<1>4. ASSUME NEW k \in Marks, mark'[k].pc # "none", NEW j \in 1..(k - 1)
      PROVE  mark'[j].pc # "none"
  BY <1>4 DEF MarkHasSource, Marks
<1> QED BY <1>1, <1>2, <1>3, <1>4 DEF MarkHasSource

LEMMA SourceNext ==
  ASSUME NewsInv, NewsInv', MarkHasSource, [Next]_vars PROVE MarkHasSource'
<1>t. MarkTyped /\ MarkTyped'
  BY DEF NewsInv
<1>1. CASE UNCHANGED <<refresh, view, mark>>
  BY <1>1, <1>t, SourceKept
<1>2. CASE Notice \/ Soon \/ Poll
  <2>1. PICK r \in Slots : /\ refresh[r] = NoRefresh /\ refresh'[r] = Automatic
                           /\ \A s \in Slots : s # r => refresh'[s] = refresh[s]
    BY <1>2, StartReadsNothing, AutoTyped DEF Notice, Soon, Poll
  <2> QED BY <1>2, <1>t, <2>1, SourceKept, AutoTyped DEF Notice, Soon, Poll, NoRefresh
<1>3. ASSUME NEW r \in Slots, Read(r) PROVE MarkHasSource'
  BY <1>3, <1>t DEF Read, MarkTyped, MarkHasSource, UnderWay, BegunOver, RefreshRecord
<1>4. ASSUME NEW r \in Slots, Deliver(r) \/ RefreshFails(r), refresh[r].for = "mark"
      PROVE  MarkHasSource'
  <2> DEFINE m == refresh[r].of
  <2>1. m \in Marks /\ mark[m].pc = "refreshing" /\ refresh' = [refresh EXCEPT ![r] = NoRefresh]
    BY <1>4, <1>t DEF Deliver, RefreshFails, MarkTyped
  <2>2. /\ refresh'[r].for = "none" /\ \A s \in Slots : s # r => refresh'[s] = refresh[s]
        /\ \A s \in Slots : ~(refresh'[s].for = "mark" /\ refresh'[s].of = m)
    BY <1>4, <1>t, <2>1 DEF MarkTyped, NoRefresh
  <2>3. \A k \in Marks : k # m =>
           (\E s \in Slots : refresh'[s].for = "mark" /\ refresh'[s].of = k)
           <=> (\E s \in Slots : refresh[s].for = "mark" /\ refresh[s].of = k)
    BY <2>2
  <2>4. /\ \/ ~view'.mine /\ mark'[m].pc = "done"
           \/ view' = mark[m].prev /\ mark'[m].pc = "failed" /\ mark'[m].prev = mark[m].prev
        /\ \A k \in Marks : k # m => mark'[k] = mark[k]
    <3>1. CASE Deliver(r)
      BY <1>4, <1>t, <2>1, <3>1 DEF Deliver, Ended, Answer, MarkTyped
    <3>2. CASE RefreshFails(r)
      BY <1>4, <1>t, <2>1, <3>2 DEF RefreshFails, RolledBack, MarkTyped, MarkRecord
    <3> QED BY <1>4, <3>1, <3>2
  <2> QED BY <1>t, <2>1, <2>2, <2>3, <2>4, SourceAfterEnd
<1>5. ASSUME NEW r \in Slots, Deliver(r) \/ RefreshFails(r), refresh[r].for # "mark"
      PROVE  MarkHasSource'
  <2>1. mark' = mark /\ (view'.mine => view.mine)
    <3>1. CASE Deliver(r)
      BY <1>5, <3>1 DEF Deliver, Answer
    <3>2. CASE RefreshFails(r)
      BY <1>5, <3>2 DEF RefreshFails
    <3> QED BY <1>5, <3>1, <3>2
  <2>2. /\ refresh'[r].for # "mark" /\ \A s \in Slots : s # r => refresh'[s] = refresh[s]
    BY <1>5, <1>t DEF Deliver, RefreshFails, MarkTyped, NoRefresh
  <2> QED BY <1>5, <2>1, <2>2 DEF MarkHasSource, UnderWay, BegunOver
<1>6. ASSUME NEW m \in Marks, MarkBegin(m) PROVE MarkHasSource'
  <2>1. /\ mark[m].pc = "none" /\ mark'[m].pc = "put" /\ mark'[m].prev = view /\ refresh' = refresh
        /\ \A k \in Marks : k # m => mark'[k] = mark[k]
    BY <1>6, <1>t DEF MarkBegin, Marked, MarkTyped
  <2>2. \E k \in Marks : UnderWay(k)'
    BY <2>1 DEF UnderWay
  <2>3. ASSUME NEW k \in Marks, BegunOver(k)'
        PROVE  \E j \in 1..(k - 1) : mark'[j].pc # "none"
    <3>1. CASE k = m
      <4>1. PICK j \in Marks : mark[j].pc # "none"
        BY <2>1, <2>3, <3>1 DEF MarkHasSource, BegunOver, UnderWay
      <4>2. j < m
        BY <2>1, <4>1 DEF MarkHasSource, Marks
      <4> QED BY <2>1, <3>1, <4>1, <4>2 DEF Marks
    <3>2. CASE k # m
      <4>1. PICK j \in 1..(k - 1) : mark[j].pc # "none"
        BY <2>1, <2>3, <3>2 DEF MarkHasSource, BegunOver
      <4> QED BY <2>1, <4>1 DEF Marks
    <3> QED BY <3>1, <3>2
  <2>4. ASSUME NEW k \in Marks
        PROVE  mark'[k].pc = "refreshing"
               <=> \E r \in Slots : refresh'[r].for = "mark" /\ refresh'[r].of = k
    BY <2>1 DEF MarkHasSource
  <2>5. ASSUME NEW k \in Marks, mark'[k].pc # "none", NEW j \in 1..(k - 1)
        PROVE  mark'[j].pc # "none"
    <3>1. j \in Marks
      BY DEF Marks
    <3>2. mark[j].pc # "none" \/ j = m
      BY <1>6, <2>1, <2>5, <3>1 DEF MarkHasSource, MarkBegin
    <3> QED BY <2>1, <3>1, <3>2
  <2> QED BY <2>2, <2>3, <2>4, <2>5 DEF MarkHasSource
<1>7. ASSUME NEW m \in Marks, MarkApply(m) PROVE MarkHasSource'
  <2>1. /\ mark[m].pc = "put" /\ mark'[m].pc = "applied" /\ mark'[m].prev = mark[m].prev
        /\ refresh' = refresh /\ view' = view /\ \A k \in Marks : k # m => mark'[k] = mark[k]
    BY <1>7, <1>t DEF MarkApply, MarkTyped, MarkRecord
  <2>2. \A k \in Marks : mark'[k].pc = "none" <=> mark[k].pc = "none"
    BY <2>1
  <2>3. \A k \in Marks : \A j \in 1..(k - 1) : j \in Marks
    BY DEF Marks
  <2> QED BY <2>1, <2>2, <2>3 DEF MarkHasSource, UnderWay, BegunOver
<1>8. ASSUME NEW m \in Marks, MarkReply(m) PROVE MarkHasSource'
  <2>1. /\ mark[m].pc = "applied" /\ mark'[m].pc = "refreshing" /\ mark'[m].prev = mark[m].prev
        /\ view' = view /\ \A k \in Marks : k # m => mark'[k] = mark[k]
    BY <1>8, <1>t DEF MarkReply, MarkTyped, MarkRecord
  <2>2. PICK r \in Slots : /\ refresh[r] = NoRefresh /\ refresh'[r].for = "mark" /\ refresh'[r].of = m
                           /\ \A s \in Slots : s # r => refresh'[s] = refresh[s]
    BY <1>8, StartReadsNothing, AfterMarkTyped DEF MarkReply
  <2>3. ASSUME NEW k \in Marks
        PROVE  mark'[k].pc = "refreshing"
               <=> \E s \in Slots : refresh'[s].for = "mark" /\ refresh'[s].of = k
    <3>1. refresh[r].for # "mark"
      BY <2>2 DEF NoRefresh
    <3> QED BY <2>1, <2>2, <3>1 DEF MarkHasSource
  <2>4. view'.mine => \E k \in Marks : UnderWay(k)' \/ (mark'[k].pc = "failed" /\ BegunOver(k)')
    BY <2>1 DEF UnderWay
  <2>5. \A k \in Marks : \A j \in 1..(k - 1) : j \in Marks
    BY DEF Marks
  <2>6. ASSUME NEW k \in Marks, BegunOver(k)'
        PROVE  \E j \in 1..(k - 1) : mark'[j].pc # "none"
    BY <2>1, <2>5, <2>6 DEF MarkHasSource, BegunOver
  <2>7. \A k \in Marks : mark'[k].pc # "none" => \A j \in 1..(k - 1) : mark'[j].pc # "none"
    BY <2>1, <2>5 DEF MarkHasSource
  <2> QED BY <2>3, <2>4, <2>6, <2>7 DEF MarkHasSource
<1>9. ASSUME NEW m \in Marks, MarkFails(m) PROVE MarkHasSource'
  <2>1. /\ mark[m].pc \in {"put", "applied"} /\ refresh' = refresh
        /\ view' = mark[m].prev /\ mark'[m].pc = "failed" /\ mark'[m].prev = mark[m].prev
        /\ \A k \in Marks : k # m => mark'[k] = mark[k]
    BY <1>9, <1>t DEF MarkFails, RolledBack, MarkTyped, MarkRecord
  <2>2. \A r \in Slots : ~(refresh'[r].for = "mark" /\ refresh'[r].of = m)
    BY <1>t, <2>1 DEF MarkTyped
  <2> QED BY <1>t, <2>1, <2>2, SourceAfterEnd
<1>10. ASSUME NEW e \in Events, Handle(e) \/ HandlerFails(e) PROVE MarkHasSource'
  BY <1>10, <1>1 DEF Handle, HandleEvent, HandleConfig, HandleResolve, HandleInsert, HandleEmit,
                     HandlerFails, client
<1>11. CASE Crash \/ Connecting
  BY <1>11, <1>1 DEF Crash, Connecting, Register, Drop, Open, Frame, Reconnect, client
<1>12. CASE UNCHANGED vars
  BY <1>12, <1>1 DEF vars, client
<1> QED BY <1>2, <1>3, <1>4, <1>5, <1>6, <1>7, <1>8, <1>9, <1>10, <1>11, <1>12 DEF Next

(* However marks overlap, answers come late, and marks are rolled back, a   *)
(* mark that only the client knows of is under way, or was put back by the  *)
(* failure of a later mark begun over it (markRead, markAllRead of          *)
(* useNotifications): without such an overlap it is under way.              *)
THEOREM MarksHaveSource == Spec => []MarkHasSource
<1>1. Init => MarkHasSource
  BY DEF Init, MarkHasSource, BegunOver, NoMark, NoRefresh, Automatic
<1>2. KeptInv /\ KeptInv' /\ MarkHasSource /\ [Next]_vars => MarkHasSource'
  BY SourceNext DEF KeptInv
<1> QED BY <1>1, <1>2, Kept, PTL DEF Spec
=============================================================================
