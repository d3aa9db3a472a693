---------------------------- MODULE Notifications ----------------------------
(***************************************************************************)
(* The notifications of one user, from the event that causes them to the   *)
(* inbox the user looks at: NotificationEventSubscriber and                *)
(* NotificationService, the stream of NotificationStreamRegistry, and the  *)
(* hook useNotifications of the web client.                                *)
(*                                                                         *)
(* What matters of the user's rows is how new they are: version counts the *)
(* writes to them, and an answer or a view is the version it shows.  A     *)
(* refresh sends two requests, for the unread count and for the latest     *)
(* list, and waits for both: its version is that of the one served first.  *)
(* The answers of two refreshes arrive in any order.  The stream carries a *)
(* signal without content.                                                 *)
(*                                                                         *)
(* A signal that is under way is one flag, since every one has the same    *)
(* effect.  The stream may always break; the rest fails only if CanFail.   *)
(*                                                                         *)
(* The user may mark a notification as read while an earlier mark is under *)
(* way; each mark keeps a copy of its own of what was shown before it, the *)
(* other's effect included, and puts that back when it fails.              *)
(***************************************************************************)
EXTENDS Naturals, FiniteSets

CONSTANTS
  PresenceEvents,  \* presence.status-changed events that may be published
  ProfileEvents,   \* platform.profile-updated events about this user
  MaxRefreshes,    \* bound: refreshes of the client under way at once
  MaxMarks,        \* bound: how often the user marks notifications as read
  MaxCauses,       \* bound: events and marks together
  CanFail,         \* whether requests may fail and the process may stop
  Nil              \* "none"

Events == PresenceEvents \cup ProfileEvents
Slots  == 1..MaxRefreshes
Marks  == 1..MaxMarks
Versions == 0..(Cardinality(Events) + MaxMarks)

ASSUME EventAssumption   == IsFiniteSet(Events) /\ PresenceEvents \cap ProfileEvents = {}
ASSUME BoundAssumption   == MaxRefreshes \in Nat \ {0} /\ MaxMarks \in Nat /\ MaxCauses \in Nat
ASSUME FailureAssumption == CanFail \in BOOLEAN
ASSUME NilAssumption     == Nil \notin Nat

VARIABLES
  handler,   \* handler[e]: where the subscriber is with event e, and the version it made
  version,   \* writes to the user's notifications so far
  conn,      \* the stream: none, requested, registered (server), open (client), dropped
  frames,    \* a signal is on its way to the client
  status,    \* what the client tells the user: "live" or "polling"
  poll,      \* the polling timer is set
  again,     \* the reconnect timer is set
  soon,      \* the debounce timer of a signal is set
  refresh,   \* refresh[r]: a refresh under way, or NoRefresh
  view,      \* what the client shows
  mark,      \* mark[m]: the m-th "mark as read" of the user
  made,      \* history: the versions that are new notifications
  excused    \* history: those no signal or answer was owed for, see below

server == <<handler, version, made>>
stream == <<conn, frames>>
timers == <<status, poll, again, soon>>
client == <<timers, refresh, view, mark>>
vars   == <<server, stream, client, excused>>

NoRefresh == [for |-> "none", of |-> 0, at |-> Nil]
Automatic == [for |-> "auto", of |-> 0, at |-> Nil]
AfterMark(m) == [for |-> "mark", of |-> m, at |-> Nil]
NoMark    == [pc |-> "none", prev |-> Nil]

View == [at : Versions, mine : BOOLEAN]

TypeOK ==
  /\ handler \in [Events -> [pc : {"idle", "config", "resolve", "insert", "emit", "done"},
                             made : Versions]]
  /\ version \in Versions /\ made \subseteq Versions /\ excused \subseteq made
  /\ conn \in {"none", "requested", "registered", "open", "dropped"}
  /\ status \in {"live", "polling"}
  /\ {frames, poll, again, soon} \subseteq BOOLEAN
  /\ refresh \in [Slots -> [for : {"none", "auto", "mark"}, of : 0..MaxMarks,
                            at : Versions \cup {Nil}]]
  /\ view \in View
  /\ mark \in [Marks -> [pc : {"none", "put", "applied", "refreshing", "done", "failed"},
                         prev : View \cup {Nil}]]

(***************************************************************************)
(* Starting a refresh needs a free slot: that is the bound MaxRefreshes,   *)
(* the code has none.                                                      *)
(***************************************************************************)
Free == {r \in Slots : refresh[r] = NoRefresh}

Start(x) ==
  \E r \in Free : /\ \A s \in Free : r <= s
                  /\ refresh' = [refresh EXCEPT ![r] = x]

\* The hook is mounted: it refreshes and asks for the stream, without a timer.
Init ==
  /\ handler = [e \in Events |-> [pc |-> "idle", made |-> 0]]
  /\ version = 0 /\ made = {} /\ excused = {}
  /\ conn = "requested" /\ frames = FALSE
  /\ status = "polling" /\ poll = FALSE /\ again = FALSE /\ soon = FALSE
  /\ refresh = [r \in Slots |-> IF r = 1 THEN Automatic ELSE NoRefresh]
  /\ view = [at |-> 0, mine |-> FALSE]
  /\ mark = [m \in Marks |-> NoMark]

\* The bound MaxCauses: the events and marks there have been so far.
MoreMayCome ==
  Cardinality({e \in Events : handler[e].pc # "idle"})
    + Cardinality({m \in Marks : mark[m].pc # "none"}) < MaxCauses

-----------------------------------------------------------------------------
(***************************************************************************)
(* The server.  A presence event waits for its trigger configuration and   *)
(* for its recipients; a profile event is for its subject in any case.     *)
(***************************************************************************)
Goes(e, pc) == handler' = [handler EXCEPT ![e].pc = pc]

HandleEvent(e) ==
  /\ handler[e].pc = "idle" /\ MoreMayCome
  /\ Goes(e, IF e \in PresenceEvents THEN "config" ELSE "insert")
  /\ UNCHANGED <<version, made, stream, client, excused>>

\* The trigger may be missing or disabled.
HandleConfig(e) ==
  /\ handler[e].pc = "config"
  /\ \E enabled \in BOOLEAN : Goes(e, IF enabled THEN "resolve" ELSE "done")
  /\ UNCHANGED <<version, made, stream, client, excused>>

\* This user may not be among the recipients, or be the one who acted.
HandleResolve(e) ==
  /\ handler[e].pc = "resolve"
  /\ \E recipient \in BOOLEAN : Goes(e, IF recipient THEN "insert" ELSE "done")
  /\ UNCHANGED <<version, made, stream, client, excused>>

\* The INSERT takes effect; its reply is still to come.
HandleInsert(e) ==
  /\ handler[e].pc = "insert"
  /\ version' = version + 1 /\ made' = made \cup {version'}
  /\ handler' = [handler EXCEPT ![e] = [pc |-> "emit", made |-> version']]
  /\ UNCHANGED <<stream, client, excused>>

ListensOnceOpen == conn = "open"
Registered == conn \in {"registered", "open"}
\* Nobody listens, and the client is not about to notice a lost connection either.
Away == conn \in {"none", "requested"}

\* The reply: the signal is handed to whatever connection is in the table.
HandleEmit(e) ==
  /\ handler[e].pc = "emit"
  /\ Goes(e, "done")
  /\ frames' = (frames \/ Registered)
  /\ excused' = IF Away THEN excused \cup {handler[e].made} ELSE excused
  /\ UNCHANGED <<version, made, conn, client>>

\* Whatever a handler throws is logged and forgotten, a lost reply to the INSERT
\* too: then the row is there and nobody is told.
HandlerFails(e) ==
  /\ CanFail /\ handler[e].pc \in {"config", "resolve", "insert", "emit"}
  /\ Goes(e, "done")
  /\ excused' = IF handler[e].pc = "emit" /\ conn # "dropped"
                THEN excused \cup {handler[e].made} ELSE excused
  /\ UNCHANGED <<version, made, stream, client>>

(***************************************************************************)
(* The process stops and is started again: the events in memory are lost,  *)
(* also those that have written their row and not told anybody, and every  *)
(* connection drops.                                                       *)
(***************************************************************************)
Cut == [e \in Events |->
          IF handler[e].pc = "idle" THEN handler[e] ELSE [handler[e] EXCEPT !.pc = "done"]]

Crash ==
  /\ CanFail /\ handler # Cut
  /\ handler' = Cut
  /\ conn' = IF conn = "none" THEN conn ELSE "dropped"
  /\ excused' = IF Away
                THEN excused \cup {handler[e].made : e \in {d \in Events : handler[d].pc = "emit"}}
                ELSE excused
  /\ UNCHANGED <<version, made, frames, client>>

-----------------------------------------------------------------------------
(***************************************************************************)
(* The stream and the timers of the client.                                *)
(***************************************************************************)
\* The server has the connection in its table; the answer is on its way.
Register ==
  /\ conn = "requested"
  /\ conn' = "registered"
  /\ UNCHANGED <<server, frames, client, excused>>

\* onOpen: back to live; nothing is fetched.
Open ==
  /\ conn = "registered"
  /\ conn' = "open"
  /\ status' = "live" /\ poll' = FALSE /\ again' = FALSE
  /\ UNCHANGED <<server, frames, soon, refresh, view, mark, excused>>

\* onMessage: a refresh after REFRESH_DEBOUNCE_MS, counted from the last signal.
Frame ==
  /\ conn \in {"open", "dropped"} /\ frames
  /\ frames' = FALSE
  /\ soon' = TRUE
  /\ UNCHANGED <<server, conn, status, poll, again, refresh, view, mark, excused>>

Soon ==
  /\ soon
  /\ soon' = FALSE
  /\ Start(Automatic)
  /\ UNCHANGED <<server, stream, status, poll, again, view, mark, excused>>

\* The connection, or the request for it, breaks; the client does not know yet.
Drop ==
  /\ conn \in {"requested", "registered", "open"}
  /\ conn' = "dropped"
  /\ UNCHANGED <<server, frames, client, excused>>

FallbackForGood == status' = "polling" /\ poll' = TRUE /\ again' = FALSE
Fallback        == status' = "polling" /\ poll' = TRUE /\ again' = TRUE

\* onError: poll, refresh now, and ask for the stream again later.
Notice ==
  /\ conn = "dropped"
  /\ conn' = "none" /\ frames' = FALSE
  /\ Fallback
  /\ Start(Automatic)
  /\ UNCHANGED <<server, soon, view, mark, excused>>

Reconnect ==
  /\ again
  /\ again' = FALSE
  /\ conn' = "requested"
  /\ UNCHANGED <<server, frames, status, poll, soon, refresh, view, mark, excused>>

Poll ==
  /\ poll
  /\ Start(Automatic)
  /\ UNCHANGED <<server, stream, timers, view, mark, excused>>

-----------------------------------------------------------------------------
(***************************************************************************)
(* A refresh.                                                              *)
(***************************************************************************)
Read(r) ==
  /\ refresh[r].for # "none" /\ refresh[r].at = Nil
  /\ refresh' = [refresh EXCEPT ![r].at = version]
  /\ UNCHANGED <<server, stream, timers, view, mark, excused>>

AnswerMerged(r) == [view EXCEPT !.at = refresh[r].at]
Answer(r)       == [at |-> refresh[r].at, mine |-> FALSE]
Ended(m)        == mark' = [mark EXCEPT ![m] = [pc |-> "done", prev |-> Nil]]

\* The answers are shown, whatever has been shown since they were asked for.
Deliver(r) ==
  /\ refresh[r].at # Nil
  /\ view' = Answer(r)
  /\ IF refresh[r].for = "mark" THEN Ended(refresh[r].of) ELSE UNCHANGED mark
  /\ refresh' = [refresh EXCEPT ![r] = NoRefresh]
  /\ UNCHANGED <<server, stream, timers, excused>>

\* What was shown when the mark began comes back, over whatever came since.
RolledBack(m) ==
  /\ view' = mark[m].prev
  /\ mark' = [mark EXCEPT ![m].pc = "failed"]

\* The failure of a refresh of its own is swallowed; that of a mark undoes the mark.
WillShow(r, v) == refresh[r].for # "none" /\ (refresh[r].at = Nil \/ refresh[r].at >= v)

RefreshFails(r) ==
  /\ CanFail /\ refresh[r].for # "none"
  /\ refresh' = [refresh EXCEPT ![r] = NoRefresh]
  /\ IF refresh[r].for = "mark" THEN RolledBack(refresh[r].of) ELSE UNCHANGED <<view, mark>>
  /\ excused' = excused \cup {v \in made : WillShow(r, v)}
  /\ UNCHANGED <<server, stream, timers>>

-----------------------------------------------------------------------------
(***************************************************************************)
(* The user marks notifications as read.  The client shows it at once.     *)
(***************************************************************************)
MarkUnsaved == [pc |-> "put", prev |-> Nil]
Marked      == [pc |-> "put", prev |-> view]

MarkBegin(m) ==
  /\ MoreMayCome /\ mark[m].pc = "none" /\ \A k \in 1..(m - 1) : mark[k].pc # "none"
  /\ mark' = [mark EXCEPT ![m] = Marked]
  /\ view' = [view EXCEPT !.mine = TRUE]
  /\ UNCHANGED <<server, stream, timers, refresh, excused>>

MarkApply(m) ==
  /\ mark[m].pc = "put"
  /\ mark' = [mark EXCEPT ![m].pc = "applied"]
  /\ version' = version + 1
  /\ UNCHANGED <<handler, made, stream, timers, refresh, view, excused>>

MarkReply(m) ==
  /\ mark[m].pc = "applied"
  /\ mark' = [mark EXCEPT ![m].pc = "refreshing"]
  /\ Start(AfterMark(m))
  /\ UNCHANGED <<server, stream, timers, view, excused>>

\* The request or its answer is lost.
MarkFails(m) ==
  /\ CanFail /\ mark[m].pc \in {"put", "applied"}
  /\ RolledBack(m)
  /\ UNCHANGED <<server, stream, timers, refresh, excused>>

-----------------------------------------------------------------------------
Handle(e) == \/ HandleEvent(e) \/ HandleConfig(e) \/ HandleResolve(e)
             \/ HandleInsert(e) \/ HandleEmit(e)
Connecting == Register \/ Drop \/ Open \/ Frame \/ Reconnect

Next ==
  \/ \E e \in Events : Handle(e) \/ HandlerFails(e)
  \/ Crash
  \/ Connecting \/ Notice \/ Soon \/ Poll
  \/ \E r \in Slots : Read(r) \/ Deliver(r) \/ RefreshFails(r)
  \/ \E m \in Marks : MarkBegin(m) \/ MarkApply(m) \/ MarkReply(m) \/ MarkFails(m)

(***************************************************************************)
(* Timers fire, a request for the stream is answered or breaks, what a     *)
(* connection brings is read, and handlers come to their end.  A timer and *)
(* the end of a connection may have to wait for a slot of a refresh, so    *)
(* theirs is strong fairness; so is that of refreshes, which are not lost  *)
(* for ever when they keep being sent.  New events, the user, failures and *)
(* broken connections owe nothing, except that a request for the stream    *)
(* does not stay unanswered.                                               *)
(***************************************************************************)
Fairness ==
  /\ WF_vars(\E e \in Events : Handle(e) /\ handler[e].pc # "idle")
  /\ WF_vars((conn # "open" /\ Connecting) \/ Frame)
  /\ SF_vars(Notice) /\ SF_vars(Soon) /\ SF_vars(Poll)
  /\ SF_vars(\E r \in Slots : Read(r))
  /\ SF_vars(\E r \in Slots : Deliver(r))

Spec == Init /\ [][Next]_vars /\ Fairness

-----------------------------------------------------------------------------
(***************************************************************************)
(* Whatever the order of connecting, failing and timers, the client is     *)
(* never left without a way to hear of news: while it polls, the timer of  *)
(* a poll is set unless the very first connection is still being made, and *)
(* with no connection under way a new one is due; while it is live no      *)
(* timer of the fallback runs beside the stream (useNotifications).        *)
(***************************************************************************)
FirstTry == conn \in {"requested", "registered", "dropped"} /\ ~again

NeverStranded ==
  /\ status = "polling" => poll \/ FirstTry
  /\ (conn = "none") = again
  /\ status = "live" => conn \in {"open", "dropped"} /\ ~poll

Consistent == view = [at |-> version, mine |-> FALSE]

(***************************************************************************)
(* A client that keeps falling back to polling keeps coming to show what   *)
(* the server has, the count and the list alike: late answers of older     *)
(* refreshes, rollbacks of marks and lost signals do not last              *)
(* (enterFallback, safeRefresh).                                           *)
(***************************************************************************)
PollingConsistent == []<>(status = "polling") => []<>Consistent

(***************************************************************************)
(* A notification whose INSERT has taken effect is shown, also when the    *)
(* process or the connection dies before its signal (emitToUser,           *)
(* onMessage, enterFallback).  It may be overwritten by the answer to an   *)
(* older refresh.  Excused, because the code makes no second attempt, are  *)
(* exactly: one announced while the client had no connection and had       *)
(* refreshed on account of that; one whose INSERT was answered with an     *)
(* error; and one a refresh would have shown that failed.                  *)
(***************************************************************************)
Shown(v) == view.at >= v
Announcing(v) == \E e \in Events : handler[e].pc = "emit" /\ handler[e].made = v

AnnouncedIsShown ==
  \A v \in Versions \ {0} : Announcing(v) ~> (Shown(v) \/ v \in excused)

(***************************************************************************)
(* "Polling guarantees eventual consistency while disconnected, without    *)
(* relying on no frame being lost" (docs/tasks/m7-4b-notification-frontend *)
(* .md:143): a notification announced while the client polls is shown.  It *)
(* is not: onOpen stops the polling and fetches nothing, so one that came  *)
(* between the refresh of the fallback and the reconnect stays unseen for  *)
(* as long as the stream lives and brings no other.                        *)
(***************************************************************************)
PollingCatchesUp ==
  \A v \in Versions \ {0} : (Announcing(v) /\ poll) ~> Shown(v)
=============================================================================
