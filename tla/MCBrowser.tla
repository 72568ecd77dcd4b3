---- MODULE MCBrowser ----
(* One tab of a browser from which two users sign in, and one user's bell and page of             *)
(* notifications.  The two share no state: a behaviour has one of them in its focus.              *)
EXTENDS ClientSession, Notifications

VARIABLE focus

browserVars == <<focus, vars, notificationVars>>

\* Out of focus nothing has happened: no cookies, no notification.
BrowserInit ==
  /\ focus \in {"session", "notifications"} /\ Init /\ NotificationsInit
  /\ focus = "session" => notice = [n \in Notices |-> "new"]
  /\ focus = "notifications" => jar = NoCookies /\ tab = NewTab("public")

BrowserNext ==
  /\ UNCHANGED focus
  /\ \/ focus = "session" /\ Next /\ UNCHANGED notificationVars
     \/ focus = "notifications" /\ NotificationsNext /\ UNCHANGED vars

\* The bell's timer fires and its requests are answered or fail; clicks and transactions end.
BellFairness ==
  /\ WF_notificationVars(focus = "notifications" /\ (Poll \/ GetUnreadCount \/ UnreadArrives))
  /\ WF_notificationVars(focus = "notifications" /\
       (\/ \E n \in Notices : Commit(n) \/ Abort(n)
        \/ \E c \in Clicks : Handle(c) \/ HandleCommits(c) \/ Settle(c)))

\* Without a focus on the session nothing is requested in it, and its fairness asks for nothing.
BrowserSpec == BrowserInit /\ [][BrowserNext]_browserVars /\ Fairness /\ BellFairness

\* The store, the requests, the cookies and both queries of the tab have their declared types.
BrowserTypeOK == TypeOK /\ NotificationsTypeOK
====
