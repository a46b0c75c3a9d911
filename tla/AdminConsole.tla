---------------------------- MODULE AdminConsole ----------------------------
(***************************************************************************)
(* The mail history of the admin console (internal/web/static/admin/app.js)*)
(* as one page of the browser sees it: a list with a filter, a next-page   *)
(* button, a search that waits for typing to stop, a poll while mail is in *)
(* progress, a key menu that every refresh rebuilds, and the dialog of one *)
(* mail with its "Send again". Fetches overlap and are answered in any     *)
(* order, or not at all, while mail moves and keys are deleted.            *)
(*                                                                         *)
(* One task of the page's event loop is one action.                        *)
(***************************************************************************)
EXTENDS Integers, Sequences, FiniteSets

CONSTANTS
  Mails,          \* ids of deliveries: the larger, the newer
  Keys,           \* API keys
  SenderOf,       \* SenderOf[m]: the key mail m was sent with, or "system"
  Searches,       \* what can be typed into the search box, beside nothing
  Hits,           \* Hits[q]: the mails that match the search q
  StatusFilters,  \* choices of the status filter
  PageSize,       \* MAIL_PAGE
  Failures,       \* whether fetches may fail and the session may end
  MaxEvents,      \* bound: clicks, changes of the database and failures
  MaxCalls,       \* bound: list fetches in flight
  Refreshes,      \* bound: refreshes in flight, each at a place of its own
  MaxOpens        \* bound: detail fetches in flight

Statuses == {"queued", "sending", "sent", "failed", "simulated"}
InProgress == {"queued", "sending"}
Final == {"sent", "simulated"}

ASSUME AdminConsoleConstants ==
  /\ Mails \subseteq Nat \ {0}
  /\ SenderOf \in [Mails -> Keys \cup {"system"}]
  /\ Hits \in [Searches -> SUBSET Mails]
  /\ StatusFilters \subseteq Statuses \cup {"all"} /\ "all" \in StatusFilters
  /\ "all" \notin Keys \cup Searches /\ "system" \notin Keys
  /\ PageSize \in Nat \ {0}
  /\ Failures \in BOOLEAN
  /\ MaxEvents \in Nat /\ MaxCalls \in Nat /\ MaxOpens \in Nat

VARIABLES
  status,     \* the database: status of each delivery
  keys,       \* the database: keys that exist
  signedIn,   \* the app is shown, not the sign-in form
  view,       \* state.view: "mails", or another section
  hash,       \* the section that the address names
  moves,      \* hashchange events that are not handled
  events,     \* clicks, changes of the database and failures so far
  filter,     \* state.mailFilter
  options,    \* the keys in the menu of senders
  timer,      \* mailSearchTimer is armed
  rows,       \* state.mails
  hasMore,    \* state.mailHasMore
  open,       \* whether state.mailCounts has mail queued or sending
  calls,      \* loadMails calls that are not answered
  refresh,    \* refreshes that are not answered
  spliced,    \* history: a next page was asked for before the filter's first
  lost,       \* history: the last reload failed
  dialog,     \* the mail dialog: shown, its openMailId, the mail rendered
  gets,       \* openMail calls that are not answered
  retry       \* a "Send again" that is not answered

database == <<status, keys>>
list == <<filter, options, timer, rows, hasMore, open, calls, refresh, spliced, lost>>
detail == <<dialog, gets, retry>>
address == <<hash, moves>>
place == <<signedIn, view, address>>
shell == <<place, events>>
vars == <<database, list, detail, shell>>

Filter == [status : StatusFilters, key : Keys \cup {"all", "system"},
           q : Searches \cup {"all"}]
Shown == [id : Mails, status : Statuses]

(* A loadMails call: mailQuery of its time, whether it appends, whether    *)
(* its seq is still mailSeq, and what the server has answered so far.      *)
Call(f, before, more) ==
  [filter |-> f, before |-> before, more |-> more, newest |-> TRUE,
   stage |-> "asked", page |-> <<>>, open |-> FALSE]

ListCall ==
  [filter : Filter, before : Mails \cup {0}, more : BOOLEAN, newest : BOOLEAN,
   stage : {"asked", "listed", "answered"}, page : Seq(Shown), open : BOOLEAN]

(* What comes from outside the page is bounded; what it does by itself,    *)
(* polls and fetches, is not.                                              *)
Event == events < MaxEvents /\ events' = events + 1

None == [stage |-> "none"]
NoMail == 0

----------------------------------------------------------------------------
(* The server: what listMails and getMail answer.                          *)
Counted(f) ==
  {m \in Mails :
     /\ status[m] # "none"
     /\ f.key # "all" => f.key = SenderOf[m] /\ f.key \in keys \cup {"system"}
     /\ f.q # "all" => m \in Hits[f.q]}

ListedInclusive(f, before) ==
  {m \in Counted(f) :
     /\ f.status # "all" => status[m] = f.status
     /\ before # 0 => m <= before}
ListedAnyStatus(f, before) == {m \in Counted(f) : before # 0 => m < before}
Listed(f, before) ==
  {m \in Counted(f) :
     /\ f.status # "all" => status[m] = f.status
     /\ before # 0 => m < before}

(* A page: the first PageSize of the mails listed, newest first.           *)
IsPage(ids, listed) ==
  /\ \A i, j \in DOMAIN ids : i < j => ids[i] > ids[j]
  /\ \A m \in listed : \/ \E i \in DOMAIN ids : ids[i] = m
                       \/ Len(ids) = PageSize /\ m < ids[PageSize]

(* Mail is recorded in any order: ids are drawn before transactions commit.*)
RecordMail(m) ==
  /\ Event
  /\ status[m] = "none"
  /\ status' = [status EXCEPT ![m] = "queued"]
  /\ UNCHANGED <<keys, list, detail, place>>

MarkDelivery(m) ==
  /\ Event
  /\ status[m] \in InProgress
  /\ \E s \in Statuses \ {"queued", status[m]} : status' = [status EXCEPT ![m] = s]
  /\ UNCHANGED <<keys, list, detail, place>>

(* A retry from another page, or one whose answer this page did not get.   *)
RequeueDelivery(m) ==
  /\ Event
  /\ status[m] = "failed"
  /\ status' = [status EXCEPT ![m] = "queued"]
  /\ UNCHANGED <<keys, list, detail, place>>

(* A key deleted from another page; this one learns it by a refresh.       *)
DeleteKey(k) ==
  /\ Event
  /\ k \in keys
  /\ keys' = keys \ {k}
  /\ UNCHANGED <<status, list, detail, place>>

(* listMails runs two statements: the page, then the counts.               *)
Answering(c, d) ==
  /\ calls' = (calls \ {c}) \cup {d}
  /\ UNCHANGED <<database, detail, shell, filter, options, timer, rows,
                 hasMore, open, refresh, spliced, lost>>

ListMails(c) ==
  /\ c.stage = "asked"
  /\ \E n \in 0..PageSize : \E ids \in [1..n -> Listed(c.filter, c.before)] :
       /\ IsPage(ids, Listed(c.filter, c.before))
       /\ Answering(c, [c EXCEPT !.stage = "listed",
            !.page = [i \in 1..n |-> [id |-> ids[i], status |-> status[ids[i]]]]])

MailCounts(c) ==
  /\ c.stage = "listed"
  /\ Answering(c, [c EXCEPT !.stage = "answered",
       !.open = \E m \in Counted(c.filter) : status[m] \in InProgress])

----------------------------------------------------------------------------
(* loadMails: the new call supersedes those in flight.                     *)
LoadMails(f, more) ==
  /\ Cardinality(calls) < MaxCalls
  /\ calls' = {[c EXCEPT !.newest = FALSE] : c \in calls}
                \cup {Call(f, IF more THEN rows[Len(rows)].id ELSE 0, more)}

Reload == LoadMails(filter, FALSE)

(* What a call does when its answer arrives: a superseded one is dropped.  *)
IsShownAlways(c) == TRUE
IsShown(c) == c.newest

Arrive(c) ==
  /\ c.stage = "answered"
  /\ calls' = calls \ {c}
  /\ IF IsShown(c)
     THEN /\ rows' = IF c.more THEN rows \o c.page ELSE c.page
          /\ spliced' = (spliced /\ c.more)
          /\ hasMore' = (Len(c.page) = PageSize)
          /\ open' = c.open
          /\ lost' = (lost /\ c.more)
     ELSE UNCHANGED <<rows, spliced, hasMore, open, lost>>
  /\ UNCHANGED <<database, detail, shell, filter, options, timer, refresh>>

(* A fetch fails; a 401 also shows the sign-in form.                       *)
FetchFails ==
  /\ Failures
  /\ Event
  /\ signedIn' \in {signedIn, FALSE}
  /\ UNCHANGED <<view, address>>

Fail(c) ==
  /\ calls' = calls \ {c}
  /\ lost' = (lost \/ (c.newest /\ ~c.more))
  /\ FetchFails
  /\ UNCHANGED <<database, detail, filter, options, timer, rows, hasMore,
                 open, refresh, spliced>>

----------------------------------------------------------------------------
(* The super user and the timers. The dialog covers the page.              *)
AtPage == signedIn /\ ~dialog.shown /\ Event

ChooseStatus(s) ==
  /\ AtPage /\ view = "mails"
  /\ filter' = [filter EXCEPT !.status = s]
  /\ LoadMails(filter', FALSE)
  /\ UNCHANGED <<database, detail, place, options, timer, rows, hasMore,
                 open, refresh, spliced, lost>>

ChooseKey(k) ==
  /\ AtPage /\ view = "mails"
  /\ k \in options \cup {"all", "system"}
  /\ filter' = [filter EXCEPT !.key = k]
  /\ LoadMails(filter', FALSE)
  /\ UNCHANGED <<database, detail, place, options, timer, rows, hasMore,
                 open, refresh, spliced, lost>>

(* "View sent mail" of a key, in another section: the filter changes now,  *)
(* the section and the list when the hashchange event is handled, unless   *)
(* the address names the section already.                                  *)
ShowMailsFor(k) ==
  /\ AtPage /\ view = "other"
  /\ k \in options
  /\ filter' = [filter EXCEPT !.key = k]
  /\ IF hash = "mails"
     THEN LoadMails(filter', FALSE) /\ UNCHANGED address
     ELSE hash' = "mails" /\ moves' = moves + 1 /\ UNCHANGED calls
  /\ UNCHANGED <<database, detail, signedIn, view, options, timer, rows,
                 hasMore, open, refresh, spliced, lost>>

TypeSearch(q) ==
  /\ AtPage /\ view = "mails"
  /\ filter' = [filter EXCEPT !.q = q]
  /\ timer' = TRUE
  /\ UNCHANGED <<database, detail, place, options, rows, hasMore, open,
                 calls, refresh, spliced, lost>>

SearchTimer ==
  /\ timer
  /\ timer' = FALSE
  /\ Reload
  /\ UNCHANGED <<database, detail, shell, filter, options, rows, hasMore,
                 open, refresh, spliced, lost>>

Loading == UNCHANGED <<database, detail, filter, options, timer, rows,
                       hasMore, open, refresh, spliced, lost>>

(* Nothing stops a next page while a reload is in flight or due: the call  *)
(* has the new filter, and starts where the list of the old one ends.      *)
ClickMore ==
  /\ AtPage /\ view = "mails" /\ hasMore
  /\ LoadMails(filter, TRUE)
  /\ spliced' = (spliced \/ timer \/ \E c \in calls : c.newest /\ ~c.more)
  /\ UNCHANGED <<database, detail, place, filter, options, timer, rows,
                 hasMore, open, refresh, lost>>

(* setInterval: a list of more than one page is left alone.                *)
Poll ==
  /\ signedIn /\ view = "mails"
  /\ open /\ Len(rows) <= PageSize
  /\ Reload
  /\ Loading /\ UNCHANGED shell

(* Another section, by a link or the history of the browser.              *)
SetHash ==
  /\ Event
  /\ hash' = IF hash = "mails" THEN "other" ELSE "mails"
  /\ moves' = moves + 1
  /\ Loading /\ UNCHANGED <<signedIn, view, calls>>

SetView(shown) ==
  /\ view' = hash
  /\ IF hash = "mails" /\ shown THEN Reload ELSE UNCHANGED calls

HashChange ==
  /\ moves > 0
  /\ moves' = moves - 1
  /\ SetView(signedIn)
  /\ Loading /\ UNCHANGED <<signedIn, hash, events>>

----------------------------------------------------------------------------
(* refresh: the keys, then the list in any case. Refreshes overlap, and    *)
(* whatever keys are answered last are shown.                              *)
Refreshing ==
  \E r \in Refreshes :
    /\ refresh[r].stage = "none"
    /\ refresh' = [refresh EXCEPT ![r] = [stage |-> "asked"]]

ClickRefresh ==
  /\ AtPage
  /\ Refreshing
  /\ UNCHANGED <<database, detail, place, filter, options, timer, rows,
                 hasMore, open, calls, spliced, lost>>

ListKeys(r) ==
  /\ refresh[r].stage = "asked"
  /\ refresh' = [refresh EXCEPT ![r] = [stage |-> "answered", keys |-> keys]]
  /\ UNCHANGED <<database, detail, shell, filter, options, timer, rows,
                 hasMore, open, calls, spliced, lost>>

(* renderMailKeyFilter: a chosen key that is gone is no longer a filter.   *)
KeyFilter(f, ks) ==
  IF f.key \in ks \cup {"all", "system"} THEN f ELSE [f EXCEPT !.key = "all"]

RenderRefresh(r) ==
  /\ refresh[r].stage = "answered"
  /\ options' = refresh[r].keys
  /\ filter' = KeyFilter(filter, refresh[r].keys)
  /\ LoadMails(filter', FALSE)
  /\ refresh' = [refresh EXCEPT ![r] = None]
  /\ UNCHANGED <<database, detail, shell, timer, rows, hasMore, open, spliced, lost>>

FailRefresh(r) ==
  /\ refresh[r].stage # "none"
  /\ refresh' = [refresh EXCEPT ![r] = None]
  /\ FetchFails
  /\ Reload
  /\ UNCHANGED <<database, detail, filter, options, timer, rows, hasMore,
                 open, spliced, lost>>

Logout ==
  /\ AtPage
  /\ signedIn' = FALSE
  /\ UNCHANGED <<database, list, detail, view, address>>

(* showApp: the section of the address, then a refresh.                    *)
SignIn ==
  /\ ~signedIn /\ ~dialog.shown
  /\ signedIn' = TRUE
  /\ SetView(TRUE)
  /\ Refreshing
  /\ UNCHANGED <<database, detail, address, events, filter, options, timer, rows,
                 hasMore, open, spliced, lost>>

----------------------------------------------------------------------------
(* The dialog of one mail. openMail empties it and asks; whatever answer   *)
(* arrives is rendered. It covers the page while it is shown.              *)
OpenMail(id) ==
  /\ Cardinality(gets) < MaxOpens
  /\ dialog' = [shown |-> TRUE, id |-> id, mail |-> None]
  /\ gets' = gets \cup {[id |-> id, stage |-> "asked"]}

ClickMail(i) ==
  /\ AtPage /\ view = "mails"
  /\ OpenMail(rows[i].id)
  /\ UNCHANGED <<database, list, place, retry>>

CloseMail ==
  /\ Event /\ dialog.shown
  /\ dialog' = [dialog EXCEPT !.shown = FALSE]
  /\ UNCHANGED <<database, list, place, gets, retry>>

GetMail(g) ==
  /\ g.stage = "asked"
  /\ gets' = (gets \ {g}) \cup {[id |-> g.id, stage |-> status[g.id]]}
  /\ UNCHANGED <<database, list, shell, dialog, retry>>

RenderMailUnawaited(g) ==
  /\ gets' = gets \ {g}
  /\ dialog' = [dialog EXCEPT !.mail = g]
  /\ UNCHANGED <<database, list, shell, retry>>
RenderMail(g) ==
  /\ g.stage # "asked"
  /\ gets' = gets \ {g}
  /\ dialog' = [dialog EXCEPT !.mail = g]
  /\ UNCHANGED <<database, list, shell, retry>>

FailMail(g) ==
  /\ gets' = gets \ {g}
  /\ FetchFails
  /\ UNCHANGED <<database, list, dialog, retry>>

(* "Send again" is offered for a failed mail, and acts on openMailId.      *)
ClickRetry ==
  /\ Event /\ dialog.shown /\ dialog.mail.stage = "failed"
  /\ retry.stage = "none"
  /\ retry' = [stage |-> "asked", id |-> dialog.id]
  /\ UNCHANGED <<database, list, place, dialog, gets>>

RetryMail ==
  /\ retry.stage = "asked"
  /\ IF status[retry.id] = "failed"
     THEN /\ status' = [status EXCEPT ![retry.id] = "queued"]
          /\ retry' = [stage |-> "queued"]
     ELSE /\ retry' = [stage |-> "conflict"]
          /\ UNCHANGED status
  /\ UNCHANGED <<keys, list, shell, dialog, gets>>

(* Accepted: the mail whose dialog was opened last is read again, and the  *)
(* list. (Its button waits for both; the dialog offers it no sooner.)      *)
RetryQueued ==
  /\ retry.stage = "queued"
  /\ retry' = None
  /\ OpenMail(dialog.id)
  /\ Reload
  /\ UNCHANGED <<database, shell, filter, options, timer, rows, hasMore,
                 open, refresh, spliced, lost>>

RetryFails ==
  /\ \/ retry.stage = "conflict" /\ UNCHANGED shell
     \/ retry.stage # "none" /\ FetchFails
  /\ retry' = None
  /\ UNCHANGED <<database, list, dialog, gets>>

----------------------------------------------------------------------------
(* A page that has just been loaded, with a session.                       *)
Init ==
  /\ status \in [Mails -> {"none", "queued", "failed"}]
  /\ keys = Keys
  /\ signedIn = FALSE
  /\ view = "other"
  /\ hash \in {"mails", "other"}
  /\ moves = 0
  /\ events = 0
  /\ filter = [status |-> "all", key |-> "all", q |-> "all"]
  /\ options = {}
  /\ timer = FALSE
  /\ rows = <<>>
  /\ hasMore = FALSE
  /\ open = FALSE
  /\ calls = {}
  /\ refresh = [r \in Refreshes |-> None]
  /\ spliced = FALSE
  /\ lost = FALSE
  /\ dialog = [shown |-> FALSE, id |-> NoMail, mail |-> None]
  /\ gets = {}
  /\ retry = None

Serving ==
  \/ \E m \in Mails : RecordMail(m) \/ MarkDelivery(m) \/ RequeueDelivery(m)
  \/ \E k \in Keys : DeleteKey(k)

Answered == \E c \in calls : ListMails(c) \/ MailCounts(c) \/ Arrive(c) \/ Fail(c)

Listing ==
  \/ \E s \in StatusFilters : ChooseStatus(s)
  \/ \E k \in Keys \cup {"all", "system"} : ChooseKey(k) \/ ShowMailsFor(k)
  \/ \E q \in Searches \cup {"all"} : TypeSearch(q)
  \/ SearchTimer \/ ClickMore \/ Poll \/ SetHash \/ HashChange

Shell ==
  \/ \E r \in Refreshes : ListKeys(r) \/ RenderRefresh(r) \/ FailRefresh(r)
  \/ ClickRefresh \/ Logout \/ SignIn

Dialog ==
  \/ \E i \in DOMAIN rows : ClickMail(i)
  \/ \E g \in gets : GetMail(g) \/ RenderMail(g) \/ FailMail(g)
  \/ CloseMail \/ ClickRetry \/ RetryMail \/ RetryQueued \/ RetryFails

Next == Serving \/ Answered \/ Listing \/ Shell \/ Dialog

Spec == Init /\ [][Next]_vars

(* The poll goes on while its tab is in the foreground, and an answer      *)
(* arrives before the next poll again and again (five seconds apart).      *)
Fairness ==
  /\ WF_vars(SearchTimer) /\ WF_vars(HashChange)
  /\ \A r \in Refreshes : WF_vars(ListKeys(r)) /\ WF_vars(RenderRefresh(r))
  /\ SF_vars(Poll)
  /\ SF_vars(\E c \in calls : c.newest /\ ListMails(c))
  /\ SF_vars(\E c \in calls : c.newest /\ MailCounts(c))
  /\ SF_vars(\E c \in calls : c.newest /\ Arrive(c))

FairSpec == Spec /\ Fairness

----------------------------------------------------------------------------
TypeOK ==
  /\ status \in [Mails -> Statuses \cup {"none"}]
  /\ keys \subseteq Keys
  /\ events \in 0..MaxEvents /\ signedIn \in BOOLEAN /\ view \in {"mails", "other"}
  /\ hash \in {"mails", "other"} /\ moves \in Nat
  /\ filter \in Filter /\ options \subseteq Keys /\ timer \in BOOLEAN
  /\ rows \in Seq(Shown) /\ hasMore \in BOOLEAN /\ open \in BOOLEAN
  /\ calls \subseteq ListCall
  /\ refresh \in [Refreshes -> {None, [stage |-> "asked"]} \cup
                               [stage : {"answered"}, keys : SUBSET Keys]]
  /\ spliced \in BOOLEAN /\ lost \in BOOLEAN
  /\ dialog \in [shown : BOOLEAN, id : Mails \cup {NoMail},
                 mail : {None} \cup [id : Mails, stage : Statuses]]
  /\ gets \subseteq [id : Mails, stage : Statuses \cup {"asked"}]
  /\ retry \in {None, [stage |-> "queued"], [stage |-> "conflict"]}
                 \cup [stage : {"asked"}, id : Mails]

(* No mail is listed twice and the newest comes first, however next pages,  *)
(* reloads and polls overlap and whatever mail arrives meanwhile.          *)
NewestFirst ==
  \A i, j \in DOMAIN rows : i < j => rows[i].id > rows[j].id

(* The list is on the screen, and nothing is under way that will still     *)
(* change it by itself.                                                    *)
Showing == signedIn /\ view = "mails"
AtRest == Showing /\ ~timer /\ (\A c \in calls : ~c.newest) /\ ~lost

(* "Only the newest call's result is shown, so a slow response cannot      *)
(* overwrite a newer filter" (app.js, lines 845 and 846): once the page is *)
(* at rest, every mail listed is one the filter lets through by its        *)
(* status, as it is listed, by its key and by the search, however answers, *)
(* searches, refreshes, sections and deletions of keys overlapped. The     *)
(* exception is a next page asked for before the filter's first page came: *)
(* it supersedes that page and is appended to the old filter's list.       *)
(* And the key the list is filtered by is always one the menu offers.      *)
ListMatchesFilter ==
  /\ filter.key \in options \cup {"all", "system"}
  /\ AtRest /\ ~spliced =>
       \A i \in DOMAIN rows :
         /\ filter.status # "all" => rows[i].status = filter.status
         /\ filter.key # "all" => SenderOf[rows[i].id] = filter.key
         /\ filter.q # "all" => rows[i].id \in Hits[filter.q]

(* The list never goes back in time: a mail shown as sent or simulated,    *)
(* which is final, is not shown otherwise by a later answer.               *)
StatusesGoForward ==
  [][\A i \in DOMAIN rows, j \in DOMAIN rows' :
       rows[i].status \in Final /\ rows'[j].id = rows[i].id =>
         rows'[j].status = rows[i].status]_vars

(* "Open a mail to see its full body" (README.md of the repository, line   *)
(* 116): the dialog shows the mail that was opened last, the one "Send     *)
(* again" acts on. It fails: openMail renders whatever answer arrives.     *)
DialogShowsOpened == dialog.mail = None \/ dialog.mail.id = dialog.id

(* "While mail is queued or being sent, keep the list current so statuses  *)
(* update on their own" (app.js): a mail listed as in progress that has    *)
(* settled does not stay so on the open list of one page. It fails: the    *)
(* counts are read after the list, and stop the poll.                      *)
Watching == Showing /\ Len(rows) <= PageSize
Outdated(m) ==
  /\ status[m] \in Final \cup {"failed"}
  /\ \E i \in DOMAIN rows : rows[i].id = m /\ rows[i].status \in InProgress
StatusesUpdate ==
  \A m \in Mails : (Watching /\ Outdated(m)) ~> ~(Watching /\ Outdated(m))
=============================================================================
