---- MODULE Notifications ----
(***************************************************************************)
(* The notifications of one user: the documents, written in transactions   *)
(* that publish their signal before they commit; the signal on the user's  *)
(* event stream; and one tab with the bell in its header, the page of      *)
(* notifications, and the two queries they share in the TanStack cache:    *)
(* the list and the unread count.  The bell asks for the count on every    *)
(* page but this one, and again every 60 seconds; the page writes the      *)
(* count itself from the list it shows.                                    *)
(*                                                                         *)
(* The user is not an administrator and sets no filters.  Of a             *)
(* notification only its visibility and its read mark are kept.            *)
(***************************************************************************)
EXTENDS Integers, FiniteSets

CONSTANTS Notices,       \* notifications addressed to the user
          Clicks,        \* bound: what the user does on the page
          MaxLosses,     \* bound: aborts, lost answers and failed requests
          Nothing        \* no data, no request

ASSUME NoticesAssumption == IsFiniteSet(Notices) /\ MaxLosses \in Nat
ASSUME NothingAssumption == Nothing \notin Int /\ Nothing \notin Clicks

VARIABLES notice,        \* the documents
          readBy, dismissedBy, \* those the user has read or dismissed
          click,         \* the user's mutations
          signal,        \* an event is on its way to the tab
          open,          \* the page /notifications is shown
          list, unread,  \* the two queries
          losses

serverVars == <<notice, readBy, dismissedBy>>
clientVars == <<open, list, unread>>
notificationVars == <<serverVars, click, signal, clientVars, losses>>

----
(* The server. *)
\* What a reader sees outside the transactions still open.
Visible == {n \in Notices : notice[n] \in {"there", "deleting"}} \ dismissedBy
ListNow == [n \in Visible |-> n \in readBy]
UnreadNow == Cardinality(Visible \ readBy)

\* POST and DELETE of an administrator, or another service: the signal leaves with the write.
Post(n) ==
  /\ notice[n] = "new" /\ notice' = [notice EXCEPT ![n] = "creating"] /\ signal' = TRUE
  /\ UNCHANGED <<readBy, dismissedBy, click, clientVars, losses>>

DeleteAsAdmin(n) ==
  /\ notice[n] = "there" /\ notice' = [notice EXCEPT ![n] = "deleting"] /\ signal' = TRUE
  /\ UNCHANGED <<readBy, dismissedBy, click, clientVars, losses>>

Commit(n) ==
  /\ \/ notice[n] = "creating" /\ notice' = [notice EXCEPT ![n] = "there"]
     \/ notice[n] = "deleting" /\ notice' = [notice EXCEPT ![n] = "gone"]
  /\ UNCHANGED <<readBy, dismissedBy, click, signal, clientVars, losses>>

Abort(n) ==
  /\ losses < MaxLosses /\ losses' = losses + 1
  /\ \/ notice[n] = "creating" /\ notice' = [notice EXCEPT ![n] = "gone"]
     \/ notice[n] = "deleting" /\ notice' = [notice EXCEPT ![n] = "there"]
  /\ UNCHANGED <<readBy, dismissedBy, click, signal, clientVars>>

----
(* The queries: data, an invalidation mark, and the request under way with the answer it carries. *)
NoQuery == [data |-> Nothing, invalid |-> FALSE, fetch |-> "none", answer |-> Nothing]

Fetch(query) == IF query.fetch = "none" THEN [query EXCEPT !.fetch = "asked"] ELSE query
Refetch(query) == [query EXCEPT !.fetch = "asked", !.answer = Nothing]
Cancel(query) == [query EXCEPT !.fetch = "none", !.answer = Nothing]
SetData(query, data) == [query EXCEPT !.data = data, !.invalid = FALSE]

\* A query that nothing on the screen uses is only marked; another is fetched anew.
Invalidated(query, used) ==
  LET marked == [query EXCEPT !.invalid = TRUE] IN IF used THEN Refetch(marked) ELSE marked

\* A query is fetched when it comes into use with no data, old data or marked data; data may be old
\* at any time after they came.
Mounted(query) == IF query.data = Nothing \/ query.invalid THEN {Fetch(query)}
                  ELSE {query, Fetch(query)}

\* syncUnreadCount writes a plain number (here under a field of its own), where the server's answer
\* is an object with a count.
Unread(data) == Cardinality({n \in DOMAIN data : ~data[n]})
Sync(data) == SetData(unread, [plain |-> Unread(data)])

\* What the bell displays: unread?.count ?? 0.
BellCount == IF unread.data # Nothing /\ "count" \in DOMAIN unread.data THEN unread.data.count ELSE 0

----
(* The tab. *)
\* The page reads the list, and its effect the data the cache already has.
OpenPage ==
  /\ ~open /\ open' = TRUE
  /\ list' \in Mounted(list)
  /\ unread' = IF list.data = Nothing THEN unread ELSE Sync(list.data)
  /\ UNCHANGED <<serverVars, click, signal, losses>>

LeavePage ==
  /\ open /\ open' = FALSE
  /\ unread' \in Mounted(unread)
  /\ UNCHANGED <<serverVars, click, signal, list, losses>>

\* Mutant: the bell relies on the signals.
PollOfMarked ==
  /\ ~open /\ unread.fetch = "none" /\ unread.invalid /\ unread' = Fetch(unread)
  /\ UNCHANGED <<serverVars, click, signal, open, list, losses>>

\* refetchInterval of the bell.
Poll ==
  /\ ~open /\ unread.fetch = "none" /\ unread' = Fetch(unread)
  /\ UNCHANGED <<serverVars, click, signal, open, list, losses>>

\* GET /notifications and /notifications/unread-count.
FindByUser ==
  /\ list.fetch = "asked" /\ list' = [list EXCEPT !.fetch = "served", !.answer = ListNow]
  /\ UNCHANGED <<serverVars, click, signal, open, unread, losses>>

GetUnreadCount ==
  /\ unread.fetch = "asked"
  /\ unread' = [unread EXCEPT !.fetch = "served", !.answer = [count |-> UnreadNow]]
  /\ UNCHANGED <<serverVars, click, signal, open, list, losses>>

\* The page's effect runs when the list it shows has changed.
ListArrives ==
  /\ list.fetch = "served"
  /\ list' = Cancel(SetData(list, list.answer))
  /\ unread' = IF open /\ list.answer # list.data THEN Sync(list.answer) ELSE unread
  /\ UNCHANGED <<serverVars, click, signal, open, losses>>

UnreadArrives ==
  /\ unread.fetch = "served"
  /\ unread' = Cancel(SetData(unread, unread.answer))
  /\ UNCHANGED <<serverVars, click, signal, open, list, losses>>

\* A request fails, once retried; what is shown stays.
QueryFails ==
  /\ losses < MaxLosses /\ losses' = losses + 1
  /\ \/ list.fetch # "none" /\ list' = Cancel(list) /\ UNCHANGED unread
     \/ unread.fetch # "none" /\ unread' = Cancel(unread) /\ UNCHANGED list
  /\ UNCHANGED <<serverVars, click, signal, open>>

InvalidateAll ==
  /\ list' = Invalidated(list, open)
  /\ unread' = Invalidated(unread, ~open)

\* notifications.changed: both queries are invalidated.  A stream that is down loses the signal.
SignalArrives ==
  /\ signal /\ signal' = FALSE
  /\ InvalidateAll
  /\ UNCHANGED <<serverVars, click, open, losses>>

SignalLost ==
  /\ signal /\ signal' = FALSE
  /\ UNCHANGED <<serverVars, click, clientVars, losses>>

----
(* What the user does on the page: a request, shown as done before it is answered. *)
Ops == [do : {"read", "dismiss"}, on : SUBSET Notices]

\* One notification of the list, or all.
OpsOn(data) == {op \in Ops : op.on \in {{n} : n \in DOMAIN data} \cup {DOMAIN data}}
Optimistic(op, data) == IF op.do = "read" THEN [n \in DOMAIN data |-> data[n] \/ n \in op.on]
                        ELSE [n \in DOMAIN data \ op.on |-> data[n]]

NoClick == [at |-> "unused", op |-> Nothing, before |-> Nothing]

\* onMutate: the list's request is cancelled, the old list kept, the new one shown and counted.
Mutate(c, op) ==
  /\ open /\ list.data # Nothing /\ click[c].at = "unused" /\ op \in OpsOn(list.data)
  /\ click' = [click EXCEPT ![c] = [at |-> "sent", op |-> op, before |-> list.data]]
  /\ list' = SetData(Cancel(list), Optimistic(op, list.data))
  /\ unread' = Sync(Optimistic(op, list.data))
  /\ UNCHANGED <<serverVars, signal, open, losses>>

\* The handler writes what it finds and publishes the signal; one notification that is not visible
\* is an error.
Handle(c) ==
  /\ click[c].at = "sent"
  /\ \/ /\ click[c].op.on \cap Visible # {} \/ Cardinality(click[c].op.on) # 1
        /\ click' = [click EXCEPT ![c].at = "written", ![c].op.on = @ \cap Visible]
        /\ signal' = TRUE
     \/ /\ click[c].op.on \cap Visible = {} /\ Cardinality(click[c].op.on) = 1
        /\ click' = [click EXCEPT ![c].at = "failed"]
        /\ UNCHANGED signal
  /\ UNCHANGED <<serverVars, clientVars, losses>>

HandleCommits(c) ==
  /\ click[c].at = "written"
  /\ click' = [click EXCEPT ![c].at = "done"]
  /\ readBy' = IF click[c].op.do = "read" THEN readBy \cup click[c].op.on ELSE readBy
  /\ dismissedBy' = IF click[c].op.do = "dismiss" THEN dismissedBy \cup click[c].op.on ELSE dismissedBy
  /\ UNCHANGED <<notice, signal, clientVars, losses>>

\* The transaction aborts, or the request or its answer is lost.
ClickFails(c) ==
  /\ click[c].at \in {"sent", "written", "done"} /\ losses < MaxLosses /\ losses' = losses + 1
  /\ click' = [click EXCEPT ![c].at = "failed"]
  /\ UNCHANGED <<serverVars, signal, clientVars>>

\* onSettled, after onError has put the old list back: both queries are invalidated.
Settle(c) ==
  /\ click[c].at \in {"done", "failed"}
  /\ click' = [click EXCEPT ![c] = [NoClick EXCEPT !.at = "settled"]]
  /\ IF click[c].at = "done" THEN InvalidateAll
     ELSE /\ list' = Invalidated(SetData(list, click[c].before), open)
          /\ unread' = Invalidated(Sync(click[c].before), ~open)
  /\ UNCHANGED <<serverVars, signal, open, losses>>

----
NotificationsInit ==
  /\ notice \in [Notices -> {"new", "there"}] /\ readBy = {} /\ dismissedBy = {}
  /\ click = [c \in Clicks |-> NoClick] /\ signal = FALSE /\ losses = 0
  /\ open = FALSE /\ list = NoQuery /\ unread = Fetch(NoQuery)

NotificationsNext ==
  \/ \E n \in Notices : Post(n) \/ DeleteAsAdmin(n) \/ Commit(n) \/ Abort(n)
  \/ OpenPage \/ LeavePage \/ Poll
  \/ FindByUser \/ GetUnreadCount \/ ListArrives \/ UnreadArrives \/ QueryFails
  \/ SignalArrives \/ SignalLost
  \/ \E c \in Clicks : \/ \E op \in Ops : Mutate(c, op)
                       \/ Handle(c) \/ HandleCommits(c) \/ ClickFails(c) \/ Settle(c)

NotificationsSpec == NotificationsInit /\ [][NotificationsNext]_notificationVars

----
Lists == UNION {[S -> BOOLEAN] : S \in SUBSET Notices}
Counts == 0..Cardinality(Notices)

NotificationsTypeOK ==
  /\ notice \in [Notices -> {"new", "creating", "there", "deleting", "gone"}]
  /\ readBy \subseteq Notices /\ dismissedBy \subseteq Notices
  /\ click \in [Clicks -> [at : {"unused", "sent", "written", "done", "failed", "settled"},
                           op : Ops \cup {Nothing}, before : Lists \cup {Nothing}]]
  /\ signal \in BOOLEAN /\ open \in BOOLEAN /\ losses \in 0..MaxLosses
  /\ list \in [data : Lists \cup {Nothing}, invalid : BOOLEAN,
               fetch : {"none", "asked", "served"}, answer : Lists \cup {Nothing}]
  /\ unread \in [data : [plain : Counts] \cup [count : Counts] \cup {Nothing}, invalid : BOOLEAN,
                 fetch : {"none", "asked", "served"}, answer : [count : Counts] \cup {Nothing}]

\* Once the user stays away from the page the bell comes to show the number of unread notifications
\* and keeps to it, although every signal leaves before its transaction commits and may be lost,
\* answers and rollbacks arrive late, and the page has overwritten the count.
BellCatchesUp == <>[]~open => <>[](BellCount = UnreadNow)

\* "Notifications, {{count}} unread": on the page, with the list shown and nothing under way, the
\* bell counts the unread notifications of that list.
BellMatchesList ==
  (/\ open /\ list.data # Nothing
   /\ list.fetch = "none" /\ unread.fetch = "none" /\ ~signal
   /\ \A c \in Clicks : click[c].at \in {"unused", "settled"})
  => BellCount = Unread(list.data)
====
