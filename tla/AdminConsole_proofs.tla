------------------------- MODULE AdminConsole_proofs -------------------------
(***************************************************************************)
(* Proofs about AdminConsole: the list of mail is ordered, belongs to the  *)
(* chosen filter once the page is at rest, and never goes back in time,    *)
(* for any mail, keys and searches, any page size, and any number of       *)
(* fetches that overlap, fail or are answered in another order.            *)
(***************************************************************************)
EXTENDS AdminConsole, TLAPS

----------------------------------------------------------------------------
(* The inductive invariant. A call may be shown if it is the newest; there *)
(* is one such call at most.                                               *)
OneNewest == \A c, d \in calls : c.newest /\ d.newest => c = d

MoreHasRows == hasMore => rows # <<>>

Decreasing(s) == \A i, j \in DOMAIN s : i < j => s[i].id > s[j].id

(* A next page that will be shown continues the list as it still is.       *)
Continues ==
  \A c \in calls : c.newest /\ c.more => rows # <<>> /\ c.before = rows[Len(rows)].id

PagesSorted ==
  \A c \in calls :
    /\ Decreasing(c.page)
    /\ c.before # 0 => \A i \in DOMAIN c.page : c.page[i].id < c.before

Matches(s, f) ==
  \A i \in DOMAIN s :
    /\ f.status # "all" => s[i].status = f.status
    /\ f.key # "all" => SenderOf[s[i].id] = f.key
    /\ f.q # "all" => s[i].id \in Hits[f.q]

PagesMatch == \A c \in calls : Matches(c.page, c.filter)

(* A filter that changed without a call has armed the timer for one, or    *)
(* was chosen in another section.                                          *)
NewestCurrent == Showing /\ ~timer => \A c \in calls : c.newest => c.filter = filter

(* The list is of the filter unless a reload is due, on its way or lost,   *)
(* or it was spliced.                                                      *)
RowsMatch ==
  Showing /\ ~timer /\ ~lost /\ ~spliced /\ (\A c \in calls : c.newest => c.more) =>
    Matches(rows, filter)

KeyOffered == filter.key \in options \cup {"all", "system"}

(* What a list says is sent or simulated is so in the database for good.   *)
Settled(s) ==
  \A i \in DOMAIN s :
    /\ status[s[i].id] # "none"
    /\ s[i].status \in Final => status[s[i].id] = s[i].status

Truthful == Settled(rows) /\ \A c \in calls : Settled(c.page)

(* The answer that may still be shown was read after the list that is.     *)
Forward ==
  \A c \in calls : c.newest =>
    \A k \in DOMAIN c.page, i \in DOMAIN rows :
      rows[i].id = c.page[k].id /\ rows[i].status \in Final =>
        c.page[k].status = rows[i].status

ListInv ==
  /\ OneNewest /\ MoreHasRows /\ Decreasing(rows) /\ Continues /\ PagesSorted
  /\ PagesMatch /\ NewestCurrent /\ RowsMatch /\ KeyOffered /\ Truthful /\ Forward

(* The dialog and its calls are about mail that exists.                    *)
DialogInv ==
  /\ dialog.shown \/ retry.stage # "none" => dialog.id # NoMail
  /\ dialog.id # NoMail => status[dialog.id] # "none"
  /\ \A g \in gets : status[g.id] # "none"

Inv == TypeOK /\ ListInv /\ DialogInv

(* What the database may do to a mail meanwhile.                           *)
StatusGrows ==
  \A m \in Mails :
    /\ status[m] # "none" => status'[m] # "none"
    /\ status[m] \in Final => status'[m] = status[m]

Refresh ==
  {None, [stage |-> "asked"]} \cup [stage : {"answered"}, keys : SUBSET Keys]

ListTyped ==
  /\ filter \in Filter /\ options \subseteq Keys /\ timer \in BOOLEAN
  /\ rows \in Seq(Shown) /\ hasMore \in BOOLEAN /\ open \in BOOLEAN
  /\ calls \subseteq ListCall
  /\ refresh \in [Refreshes -> Refresh]
  /\ spliced \in BOOLEAN /\ lost \in BOOLEAN

----------------------------------------------------------------------------
(* What calls are made of.                                                 *)
LEMMA ShownIds ==
  ASSUME NEW s \in Seq(Shown), NEW i \in DOMAIN s
  PROVE  s[i] \in Shown /\ s[i].id \in Mails /\ s[i].id \in Nat \ {0}
<1>1. s[i] \in Shown
  OBVIOUS
<1>2. s[i].id \in Mails
  BY <1>1 DEF Shown
<1> QED
  BY <1>1, <1>2, AdminConsoleConstants

LEMMA NewCall ==
  ASSUME NEW f \in Filter, NEW before \in Mails \cup {0}, NEW more \in BOOLEAN
  PROVE  /\ Call(f, before, more) \in ListCall
         /\ Call(f, before, more).filter = f
         /\ Call(f, before, more).before = before
         /\ Call(f, before, more).more = more
         /\ Call(f, before, more).newest = TRUE
         /\ Call(f, before, more).stage = "asked"
         /\ Call(f, before, more).page = <<>>
<1>0. <<>> \in Seq(Shown)
  OBVIOUS
<1>1. PICK page \in Seq(Shown) : page = <<>>
  BY <1>0
<1> DEFINE c == [filter |-> f, before |-> before, more |-> more, newest |-> TRUE,
                 stage |-> "asked", page |-> page, open |-> FALSE]
<1>2. /\ c \in ListCall /\ c.filter = f /\ c.before = before /\ c.more = more
      /\ c.newest = TRUE /\ c.stage = "asked" /\ c.page = page
  BY DEF ListCall
<1>3. Call(f, before, more) = c
  BY <1>1 DEF Call
<1> QED
  BY <1>1, <1>2, <1>3

LEMMA SupersededCall ==
  ASSUME NEW c \in ListCall
  PROVE  /\ [c EXCEPT !.newest = FALSE] \in ListCall
         /\ [c EXCEPT !.newest = FALSE].newest = FALSE
         /\ [c EXCEPT !.newest = FALSE].filter = c.filter
         /\ [c EXCEPT !.newest = FALSE].before = c.before
         /\ [c EXCEPT !.newest = FALSE].page = c.page
BY DEF ListCall

(* loadMails: one newest call, with nothing in it yet; the others keep     *)
(* what they are but for that.                                             *)
LEMMA LoadEffect ==
  ASSUME calls \subseteq ListCall, rows \in Seq(Shown), NEW f \in Filter, NEW more \in BOOLEAN,
         more => rows # <<>>, LoadMails(f, more)
  PROVE  \E n \in ListCall :
           /\ n \in calls'
           /\ n.newest /\ n.filter = f /\ n.more = more /\ n.page = <<>>
           /\ more => n.before = rows[Len(rows)].id
           /\ \A d \in calls' : d = n \/
                /\ d \in ListCall /\ ~d.newest
                /\ \E c \in calls : d.filter = c.filter /\ d.before = c.before /\ d.page = c.page
<1> DEFINE before == IF more THEN rows[Len(rows)].id ELSE 0
           n == Call(f, before, more)
<1>1. before \in Mails \cup {0}
  <2>1. CASE more
    <3>1. Len(rows) \in DOMAIN rows
      BY <2>1
    <3> QED
      BY <2>1, <3>1, ShownIds
  <2>2. CASE ~more
    BY <2>2
  <2> QED
    BY <2>1, <2>2
<1>2. calls' = {[c EXCEPT !.newest = FALSE] : c \in calls} \cup {n}
  BY DEF LoadMails
<1>3. /\ n \in ListCall /\ n.newest /\ n.filter = f /\ n.more = more /\ n.page = <<>>
      /\ n.before = before
  BY <1>1, NewCall
<1> HIDE DEF n
<1>4. ASSUME NEW d \in calls', d # n
      PROVE  /\ d \in ListCall /\ ~d.newest
             /\ \E c \in calls : d.filter = c.filter /\ d.before = c.before /\ d.page = c.page
  <2>1. PICK c \in calls : d = [c EXCEPT !.newest = FALSE]
    BY <1>2, <1>4
  <2> QED
    BY <2>1, SupersededCall
<1> QED
  BY <1>2, <1>3, <1>4

----------------------------------------------------------------------------
(* Steps that leave the list and its calls alone, whatever else moves.     *)
LEMMA ListQuiet ==
  ASSUME ListTyped, ListInv, StatusGrows,
         UNCHANGED <<filter, options, timer, rows, hasMore, calls, spliced, lost>>,
         Showing' => Showing
  PROVE  ListInv'
<1>1. Truthful'
  <2>1. \A c \in calls : c.page \in Seq(Shown)
    BY DEF ListTyped, ListCall
  <2>2. ASSUME NEW s \in Seq(Shown), Settled(s)
        PROVE  \A i \in DOMAIN s :
                 /\ status'[s[i].id] # "none"
                 /\ s[i].status \in Final => status'[s[i].id] = s[i].status
    BY <2>2, ShownIds DEF Settled, StatusGrows
  <2> QED
    BY <2>1, <2>2 DEF ListInv, Truthful, Settled, ListTyped
<1> QED
  BY <1>1 DEF ListInv, OneNewest, MoreHasRows, Decreasing, Continues, PagesSorted,
     PagesMatch, Matches, NewestCurrent, RowsMatch, KeyOffered, Forward

(* Every way to ask for the list: a reload with the filter as it is now,   *)
(* or a next page.                                                         *)
LEMMA LoadStep ==
  ASSUME ListTyped, ListInv, NEW more \in BOOLEAN, filter' \in Filter,
         more => rows # <<>>, LoadMails(filter', more),
         UNCHANGED <<status, rows, hasMore, lost>>, KeyOffered',
         ~more => spliced' = spliced,
         more => filter' = filter /\ timer' = timer /\ (Showing' => Showing),
         more /\ ~spliced' => ~spliced /\ ~timer /\ \A c \in calls : c.newest => c.more
  PROVE  ListInv' /\ calls' \subseteq ListCall
<1> USE DEF ListInv
<1>1. PICK n \in ListCall :
        /\ n \in calls'
        /\ n.newest /\ n.filter = filter' /\ n.more = more /\ n.page = <<>>
        /\ more => n.before = rows[Len(rows)].id
        /\ \A d \in calls' : d = n \/
             /\ d \in ListCall /\ ~d.newest
             /\ \E c \in calls : d.filter = c.filter /\ d.before = c.before /\ d.page = c.page
  BY LoadEffect DEF ListTyped
<1>2. calls' \subseteq ListCall /\ \A d \in calls' : d.newest => d = n
  BY <1>1
<1>3. DOMAIN n.page = {}
  BY <1>1
<1>4. OneNewest' /\ MoreHasRows' /\ Decreasing(rows)'
  BY <1>2 DEF OneNewest, MoreHasRows, Decreasing
<1>5. Continues'
  BY <1>1, <1>2 DEF Continues
<1>6. PagesSorted' /\ PagesMatch'
  BY <1>1, <1>3 DEF PagesSorted, PagesMatch, Decreasing, Matches
<1>7. NewestCurrent'
  BY <1>1, <1>2 DEF NewestCurrent
<1>8. RowsMatch'
  <2>1. CASE more
    BY <1>1, <2>1 DEF RowsMatch, Matches
  <2>2. CASE ~more
    BY <1>1, <2>2 DEF RowsMatch
  <2> QED
    BY <2>1, <2>2
<1>9. Truthful'
  <2>1. ASSUME NEW d \in calls', NEW i \in DOMAIN d.page
        PROVE  /\ status[d.page[i].id] # "none"
               /\ d.page[i].status \in Final => status[d.page[i].id] = d.page[i].status
    BY <1>1, <1>3, <2>1 DEF Truthful, Settled
  <2> QED
    BY <2>1 DEF Truthful, Settled
<1>10. Forward'
  BY <1>2, <1>3 DEF Forward
<1> QED
  BY <1>2, <1>4, <1>5, <1>6, <1>7, <1>8, <1>9, <1>10

----------------------------------------------------------------------------
(* The server's two answers.                                               *)
LEMMA AnswerStep ==
  ASSUME ListTyped, ListInv, NEW c \in calls, NEW d \in ListCall,
         calls' = (calls \ {c}) \cup {d},
         d.newest = c.newest, d.more = c.more, d.filter = c.filter, d.before = c.before,
         Decreasing(d.page),
         d.before # 0 => \A i \in DOMAIN d.page : d.page[i].id < d.before,
         Matches(d.page, d.filter), Settled(d.page),
         d.newest => \A k \in DOMAIN d.page, i \in DOMAIN rows :
           rows[i].id = d.page[k].id /\ rows[i].status \in Final =>
             d.page[k].status = rows[i].status,
         UNCHANGED <<status, shell, filter, options, timer, rows, hasMore, spliced, lost>>
  PROVE  ListInv' /\ calls' \subseteq ListCall
<1> USE DEF ListInv
<1>1. OneNewest'
  BY DEF OneNewest
<1>2. MoreHasRows' /\ Decreasing(rows)' /\ KeyOffered'
  BY DEF MoreHasRows, Decreasing, KeyOffered
<1>0. Showing' = Showing
  BY DEF Showing, shell, place, address
<1>3. Continues' /\ NewestCurrent'
  BY <1>0 DEF Continues, NewestCurrent
<1>4. PagesSorted' /\ PagesMatch'
  BY DEF PagesSorted, PagesMatch, Decreasing, Matches
<1>5. RowsMatch'
  <2>1. (\A e \in calls' : e.newest => e.more) => \A e \in calls : e.newest => e.more
    OBVIOUS
  <2> QED
    BY <1>0, <2>1 DEF RowsMatch, Matches
<1>6. Truthful'
  BY DEF Truthful, Settled
<1>7. Forward'
  BY DEF Forward
<1> QED
  BY <1>1, <1>2, <1>3, <1>4, <1>5, <1>6, <1>7 DEF ListTyped

(* The page that listMails reads is of its filter, and true.               *)
LEMMA ListMailsStep ==
  ASSUME TypeOK, ListTyped, ListInv, NEW c \in calls, ListMails(c)
  PROVE  ListInv' /\ calls' \subseteq ListCall
<1> DEFINE listed == Listed(c.filter, c.before)
<1>0. PICK n \in 0..PageSize : \E ids \in [1..n -> listed] :
        /\ IsPage(ids, listed)
        /\ Answering(c, [c EXCEPT !.stage = "listed",
             !.page = [i \in 1..n |-> [id |-> ids[i], status |-> status[ids[i]]]]])
  BY DEF ListMails
<1>1. PICK ids \in [1..n -> listed] :
        /\ IsPage(ids, listed)
        /\ Answering(c, [c EXCEPT !.stage = "listed",
             !.page = [i \in 1..n |-> [id |-> ids[i], status |-> status[ids[i]]]]])
  BY <1>0
<1>2. \A m \in listed :
        /\ m \in Mails /\ status[m] \in Statuses
        /\ c.filter.status # "all" => status[m] = c.filter.status
        /\ c.filter.key # "all" => SenderOf[m] = c.filter.key
        /\ c.filter.q # "all" => m \in Hits[c.filter.q]
        /\ c.before # 0 => m < c.before
  BY DEF Listed, Counted, TypeOK
<1>3. \A i, j \in 1..n : i < j => ids[i] > ids[j]
  BY <1>1 DEF IsPage
<1>4. \A i \in 1..n : ids[i] \in listed
  BY <1>1
<1> HIDE DEF listed
<1>5. n \in Nat
  BY <1>1, AdminConsoleConstants
<1>6. \A i \in 1..n : [id |-> ids[i], status |-> status[ids[i]]] \in Shown
  BY <1>2, <1>4 DEF Shown
<1>7. PICK page \in Seq(Shown) :
        page = [i \in 1..n |-> [id |-> ids[i], status |-> status[ids[i]]]]
  <2> DEFINE e(i) == [id |-> ids[i], status |-> status[ids[i]]]
  <2>1. \A i \in 1..n : e(i) \in Shown
    BY <1>6
  <2> HIDE DEF e
  <2>2. [i \in 1..n |-> e(i)] \in Seq(Shown)
    BY <1>5, <2>1
  <2> QED
    BY <2>2 DEF e
<1>8. /\ DOMAIN page = 1..n
      /\ \A i \in 1..n : page[i].id = ids[i] /\ page[i].status = status[ids[i]]
  BY <1>7
<1>9. PICK d \in ListCall :
        /\ d = [c EXCEPT !.stage = "listed", !.page = page]
        /\ d.newest = c.newest /\ d.more = c.more /\ d.filter = c.filter
        /\ d.before = c.before /\ d.page = page
  <2>1. c \in ListCall
    BY DEF ListTyped
  <2>2. /\ [c EXCEPT !.stage = "listed", !.page = page] \in ListCall
        /\ [c EXCEPT !.stage = "listed", !.page = page].newest = c.newest
        /\ [c EXCEPT !.stage = "listed", !.page = page].more = c.more
        /\ [c EXCEPT !.stage = "listed", !.page = page].filter = c.filter
        /\ [c EXCEPT !.stage = "listed", !.page = page].before = c.before
        /\ [c EXCEPT !.stage = "listed", !.page = page].page = page
    BY <2>1 DEF ListCall
  <2> QED
    BY <2>2
<1>10. Answering(c, d)
  BY <1>1, <1>7, <1>9
<1>11. /\ calls' = (calls \ {c}) \cup {d}
       /\ UNCHANGED <<status, shell, filter, options, timer, rows, hasMore, spliced, lost>>
  BY <1>10 DEF Answering, database
<1>12. /\ Decreasing(d.page)
       /\ d.before # 0 => \A i \in DOMAIN d.page : d.page[i].id < d.before
  BY <1>2, <1>3, <1>4, <1>8, <1>9 DEF Decreasing
<1>14. Matches(d.page, d.filter) /\ Settled(d.page)
  <2>1. \A i \in 1..n : d.page[i].id = ids[i] /\ d.page[i].status = status[ids[i]]
    BY <1>8, <1>9
  <2>2. DOMAIN d.page = 1..n
    BY <1>8, <1>9
  <2>3. Matches(d.page, d.filter)
    BY <1>2, <1>4, <1>9, <2>1, <2>2 DEF Matches
  <2>4. \A i \in 1..n : status[ids[i]] # "none"
    BY <1>2, <1>4 DEF Statuses
  <2>5. Settled(d.page)
    BY <2>1, <2>2, <2>4 DEF Settled
  <2> QED
    BY <2>3, <2>5
<1>13. \A k \in DOMAIN d.page, i \in DOMAIN rows :
         rows[i].id = d.page[k].id /\ rows[i].status \in Final =>
           d.page[k].status = rows[i].status
  BY <1>1, <1>8, <1>9 DEF ListInv, Truthful, Settled
<1> QED
  BY <1>9, <1>11, <1>12, <1>13, <1>14, AnswerStep

LEMMA MailCountsStep ==
  ASSUME ListTyped, ListInv, NEW c \in calls, MailCounts(c)
  PROVE  ListInv' /\ calls' \subseteq ListCall
<1>1. PICK b \in BOOLEAN : b = \E m \in Counted(c.filter) : status[m] \in InProgress
  OBVIOUS
<1>2. PICK d \in ListCall :
        /\ d = [c EXCEPT !.stage = "answered", !.open = b]
        /\ d.newest = c.newest /\ d.more = c.more /\ d.filter = c.filter
        /\ d.before = c.before /\ d.page = c.page
  <2>1. c \in ListCall
    BY DEF ListTyped
  <2>2. /\ [c EXCEPT !.stage = "answered", !.open = b] \in ListCall
        /\ [c EXCEPT !.stage = "answered", !.open = b].newest = c.newest
        /\ [c EXCEPT !.stage = "answered", !.open = b].more = c.more
        /\ [c EXCEPT !.stage = "answered", !.open = b].filter = c.filter
        /\ [c EXCEPT !.stage = "answered", !.open = b].before = c.before
        /\ [c EXCEPT !.stage = "answered", !.open = b].page = c.page
    BY <2>1 DEF ListCall
  <2> QED
    BY <2>2
<1>3. Answering(c, d)
  BY <1>1, <1>2 DEF MailCounts
<1>4. /\ calls' = (calls \ {c}) \cup {d}
      /\ UNCHANGED <<status, shell, filter, options, timer, rows, hasMore, spliced, lost>>
  BY <1>3 DEF Answering, database
<1>5. /\ Decreasing(c.page)
      /\ c.before # 0 => \A i \in DOMAIN c.page : c.page[i].id < c.before
      /\ Matches(c.page, c.filter)
      /\ Settled(c.page)
      /\ c.newest => \A k \in DOMAIN c.page, i \in DOMAIN rows :
           rows[i].id = c.page[k].id /\ rows[i].status \in Final =>
             c.page[k].status = rows[i].status
  BY DEF ListInv, PagesSorted, PagesMatch, Truthful, Forward
<1>6. /\ Decreasing(d.page)
      /\ d.before # 0 => \A i \in DOMAIN d.page : d.page[i].id < d.before
      /\ Matches(d.page, d.filter)
      /\ Settled(d.page)
      /\ d.newest => \A k \in DOMAIN d.page, i \in DOMAIN rows :
           rows[i].id = d.page[k].id /\ rows[i].status \in Final =>
             d.page[k].status = rows[i].status
  BY <1>2, <1>5
<1> QED
  BY <1>2, <1>4, <1>6, AnswerStep

----------------------------------------------------------------------------
(* The answer arrives.                                                     *)
LEMMA Concat ==
  ASSUME NEW s \in Seq(Shown), NEW t \in Seq(Shown)
  PROVE  /\ s \o t \in Seq(Shown)
         /\ \A i \in DOMAIN s : i \in DOMAIN (s \o t) /\ (s \o t)[i] = s[i]
         /\ \A i \in DOMAIN (s \o t) :
              \/ i \in DOMAIN s /\ (s \o t)[i] = s[i]
              \/ /\ i > Len(s) /\ i - Len(s) \in DOMAIN t
                 /\ (s \o t)[i] = t[i - Len(s)]
<1>1. s \o t \in Seq(Shown) /\ Len(s \o t) = Len(s) + Len(t)
  OBVIOUS
<1>2. \A i \in 1..Len(s \o t) : (s \o t)[i] = IF i <= Len(s) THEN s[i] ELSE t[i - Len(s)]
  OBVIOUS
<1>3. DOMAIN (s \o t) = 1..(Len(s) + Len(t)) /\ DOMAIN s = 1..Len(s) /\ DOMAIN t = 1..Len(t)
      /\ Len(s) \in Nat /\ Len(t) \in Nat
  BY <1>1
<1> QED
  BY <1>1, <1>2, <1>3

(* A next page goes on where the list ends.                                *)
LEMMA ConcatDecreasing ==
  ASSUME NEW s \in Seq(Shown), NEW t \in Seq(Shown), Decreasing(s), Decreasing(t),
         s # <<>>, \A i \in DOMAIN t : t[i].id < s[Len(s)].id
  PROVE  Decreasing(s \o t)
<1> DEFINE u == s \o t
<1>1. /\ u \in Seq(Shown)
      /\ \A i \in DOMAIN u :
           \/ i \in DOMAIN s /\ u[i] = s[i]
           \/ i > Len(s) /\ i - Len(s) \in DOMAIN t /\ u[i] = t[i - Len(s)]
  BY Concat
<1> HIDE DEF u
<1>2. /\ DOMAIN s = 1..Len(s) /\ Len(s) \in Nat /\ Len(s) \in DOMAIN s
      /\ DOMAIN u \subseteq Nat
  BY <1>1
<1>3. \A i \in DOMAIN s : s[i].id >= s[Len(s)].id /\ s[i].id \in Nat
  <2>1. \A i \in DOMAIN s : i = Len(s) \/ i < Len(s)
    BY <1>2
  <2>2. \A i \in DOMAIN s : s[i].id \in Nat
    BY ShownIds
  <2> QED
    BY <1>2, <2>1, <2>2 DEF Decreasing
<1>4. \A i \in DOMAIN t : t[i].id \in Nat
  BY ShownIds
<1>5. ASSUME NEW i \in DOMAIN u, NEW j \in DOMAIN u, i < j
      PROVE  u[i].id > u[j].id
  <2>1. CASE j \in DOMAIN s
    <3>1. i \in DOMAIN s /\ u[i] = s[i] /\ u[j] = s[j]
      BY <1>1, <1>2, <1>5, <2>1
    <3> QED
      BY <1>5, <2>1, <3>1 DEF Decreasing
  <2>2. CASE j \notin DOMAIN s
    <3>1. j - Len(s) \in DOMAIN t /\ u[j] = t[j - Len(s)]
      BY <1>1, <2>2
    <3>2. CASE i \in DOMAIN s
      <4>1. u[i] = s[i]
        BY <1>1, <1>2, <3>2
      <4>2. s[i].id >= s[Len(s)].id /\ t[j - Len(s)].id < s[Len(s)].id
            /\ s[i].id \in Nat /\ s[Len(s)].id \in Nat /\ t[j - Len(s)].id \in Nat
        BY <1>2, <1>3, <1>4, <3>1, <3>2
      <4> QED
        BY <3>1, <4>1, <4>2
    <3>3. CASE i \notin DOMAIN s
      <4>1. i - Len(s) \in DOMAIN t /\ u[i] = t[i - Len(s)]
        BY <1>1, <3>3
      <4>2. i - Len(s) < j - Len(s)
        BY <1>2, <1>5
      <4> QED
        BY <3>1, <4>1, <4>2 DEF Decreasing
    <3> QED
      BY <3>2, <3>3
  <2> QED
    BY <2>1, <2>2
<1> QED
  BY <1>5 DEF Decreasing, u

(* What the list is after the answer c, when it is shown.                  *)
LEMMA ArriveEffect ==
  ASSUME ListTyped, ListInv, NEW c \in calls, Arrive(c), c.newest
  PROVE  /\ rows' \in Seq(Shown)
         /\ Decreasing(rows')
         /\ hasMore' => rows' # <<>>
         /\ \A j \in DOMAIN rows' :
              \/ \E k \in DOMAIN c.page : rows'[j] = c.page[k]
              \/ c.more /\ \E i \in DOMAIN rows : rows'[j] = rows[i]
<1>1. c.page \in Seq(Shown) /\ c.more \in BOOLEAN /\ rows \in Seq(Shown)
  BY DEF ListTyped, ListCall
<1>2. /\ rows' = IF c.more THEN rows \o c.page ELSE c.page
      /\ hasMore' = (Len(c.page) = PageSize)
  BY DEF Arrive, IsShown
<1>3. Decreasing(c.page) /\ (c.before # 0 => \A i \in DOMAIN c.page : c.page[i].id < c.before)
  BY DEF ListInv, PagesSorted
<1>4. PageSize >= 1 /\ PageSize \in Nat
  BY AdminConsoleConstants
<1>5. CASE c.more
  <2>1. rows # <<>> /\ c.before = rows[Len(rows)].id
    BY <1>5 DEF ListInv, Continues
  <2>2. c.before # 0
    <3>1. Len(rows) \in DOMAIN rows
      BY <1>1, <2>1
    <3> QED
      BY <1>1, <2>1, <3>1, ShownIds
  <2>3. Decreasing(rows \o c.page)
    BY <1>1, <1>3, <2>1, <2>2, ConcatDecreasing DEF ListInv
  <2>4. rows \o c.page \in Seq(Shown) /\ rows \o c.page # <<>>
    BY <1>1, <2>1, Concat
  <2>5. \A j \in DOMAIN (rows \o c.page) :
          \/ \E k \in DOMAIN c.page : (rows \o c.page)[j] = c.page[k]
          \/ \E i \in DOMAIN rows : (rows \o c.page)[j] = rows[i]
    BY <1>1, Concat
  <2> QED
    BY <1>2, <1>5, <2>3, <2>4, <2>5
<1>6. CASE ~c.more
  <2>1. c.page = <<>> => Len(c.page) = 0
    OBVIOUS
  <2>2. hasMore' => Len(c.page) = PageSize
    BY <1>2
  <2>3. hasMore' => c.page # <<>>
    BY <1>4, <2>1, <2>2
  <2> QED
    BY <1>1, <1>2, <1>3, <1>6, <2>3
<1> QED
  BY <1>1, <1>5, <1>6

(* An answer that is dropped, or a fetch that fails, only goes.            *)
LEMMA GoneStep ==
  ASSUME ListTyped, ListInv, NEW c \in calls, calls' = calls \ {c},
         UNCHANGED <<status, filter, options, timer, rows, hasMore, spliced>>,
         lost' = (lost \/ (c.newest /\ ~c.more)),
         Showing' => Showing
  PROVE  ListInv'
<1> USE DEF ListInv
<1>1. OneNewest' /\ MoreHasRows' /\ Decreasing(rows)' /\ KeyOffered'
  BY DEF OneNewest, MoreHasRows, Decreasing, KeyOffered
<1>2. Continues' /\ NewestCurrent' /\ Forward'
  BY DEF Continues, NewestCurrent, Forward
<1>3. PagesSorted' /\ PagesMatch' /\ Truthful'
  BY DEF PagesSorted, PagesMatch, Decreasing, Matches, Truthful, Settled
<1>4. RowsMatch'
  <2>1. ~lost' => ~lost /\ (c.newest => c.more)
    OBVIOUS
  <2>2. ~lost' /\ (\A e \in calls' : e.newest => e.more) =>
          \A e \in calls : e.newest => e.more
    BY <2>1
  <2> QED
    BY <2>1, <2>2 DEF RowsMatch, Matches
<1> QED
  BY <1>1, <1>2, <1>3, <1>4

LEMMA ArriveStep ==
  ASSUME ListTyped, ListInv, NEW c \in calls, Arrive(c)
  PROVE  ListInv' /\ calls' \subseteq ListCall /\ rows' \in Seq(Shown)
         /\ hasMore' \in BOOLEAN /\ open' \in BOOLEAN /\ spliced' \in BOOLEAN /\ lost' \in BOOLEAN
<1>0. /\ calls' = calls \ {c} /\ c \in ListCall
      /\ UNCHANGED <<status, filter, options, timer>>
      /\ Showing' = Showing
  BY DEF Arrive, ListTyped, database, Showing, shell, place, address
<1>1. CASE ~c.newest
  <2>1. UNCHANGED <<rows, spliced, hasMore, open, lost>>
    BY <1>1 DEF Arrive, IsShown
  <2>2. lost' = (lost \/ (c.newest /\ ~c.more))
    BY <1>1, <2>1 DEF ListTyped
  <2>3. ListInv'
    BY <1>0, <2>1, <2>2, GoneStep
  <2> QED
    BY <1>0, <2>1, <2>3 DEF ListTyped
<1>2. CASE c.newest
  <2>1. /\ rows' \in Seq(Shown)
        /\ Decreasing(rows')
        /\ hasMore' => rows' # <<>>
        /\ \A j \in DOMAIN rows' :
             \/ \E k \in DOMAIN c.page : rows'[j] = c.page[k]
             \/ c.more /\ \E i \in DOMAIN rows : rows'[j] = rows[i]
    BY <1>2, ArriveEffect
  <2>2. /\ spliced' = (spliced /\ c.more) /\ lost' = (lost /\ c.more)
        /\ hasMore' = (Len(c.page) = PageSize) /\ open' = c.open
    BY <1>2 DEF Arrive, IsShown
  <2>3. \A d \in calls' : d \in calls /\ ~d.newest
    BY <1>0, <1>2 DEF ListInv, OneNewest
  <2>4. OneNewest' /\ Continues' /\ NewestCurrent' /\ Forward'
    BY <1>0, <2>3 DEF OneNewest, Continues, NewestCurrent, Forward
  <2>5. MoreHasRows' /\ Decreasing(rows)' /\ KeyOffered'
    BY <1>0, <2>1 DEF ListInv, MoreHasRows, Decreasing, KeyOffered
  <2>6. PagesSorted' /\ PagesMatch'
    BY <2>3 DEF ListInv, PagesSorted, PagesMatch, Decreasing, Matches
  <2>7. Truthful'
    <3>1. Settled(rows)'
      BY <1>0, <2>1 DEF ListInv, Truthful, Settled
    <3> QED
      BY <1>0, <2>3, <3>1 DEF ListInv, Truthful, Settled
  <2>8. RowsMatch'
    <3> SUFFICES ASSUME Showing, ~timer, ~lost', ~spliced' PROVE Matches(rows', filter)
      BY <1>0 DEF RowsMatch, Matches
    <3>1. Matches(c.page, filter)
      BY <1>2 DEF ListInv, PagesMatch, NewestCurrent
    <3>2. c.more => Matches(rows, filter)
      <4>1. c.more => \A d \in calls : d.newest => d.more
        BY <1>2 DEF ListInv, OneNewest
      <4> QED
        BY <2>2, <4>1 DEF ListInv, RowsMatch
    <3> QED
      BY <2>1, <3>1, <3>2 DEF Matches
  <2>9. /\ c.open \in BOOLEAN /\ hasMore' \in BOOLEAN /\ spliced' \in BOOLEAN
        /\ lost' \in BOOLEAN /\ calls' \subseteq ListCall
    BY <1>0, <2>2 DEF ListCall, ListTyped
  <2> QED
    BY <2>1, <2>2, <2>4, <2>5, <2>6, <2>7, <2>8, <2>9 DEF ListInv
<1> QED
  BY <1>1, <1>2

(* Typing only arms the timer: until it fires, the list may be of another  *)
(* search.                                                                 *)
LEMMA TypeSearchStep ==
  ASSUME ListTyped, ListInv, NEW q \in Searches \cup {"all"}, TypeSearch(q)
  PROVE  ListInv' /\ filter' \in Filter
<1>1. /\ timer' = TRUE
      /\ UNCHANGED <<status, options, rows, hasMore, calls, spliced, lost>>
  BY DEF TypeSearch, database
<1>2. filter' \in Filter /\ filter'.key = filter.key
  BY DEF TypeSearch, ListTyped, Filter
<1>3. RowsMatch' /\ NewestCurrent' /\ KeyOffered'
  BY <1>1, <1>2 DEF ListInv, RowsMatch, NewestCurrent, KeyOffered
<1> QED
  BY <1>1, <1>2, <1>3 DEF ListInv, OneNewest, MoreHasRows, Decreasing, Continues, PagesSorted,
     PagesMatch, Matches, Truthful, Settled, Forward

----------------------------------------------------------------------------
(* The parts of the type invariant, by who changes them.                   *)
DataTyped ==
  status \in [Mails -> Statuses \cup {"none"}] /\ keys \subseteq Keys

PlaceTyped ==
  /\ events \in 0..MaxEvents /\ signedIn \in BOOLEAN /\ view \in {"mails", "other"}
  /\ hash \in {"mails", "other"} /\ moves \in Nat

DetailTyped ==
  /\ dialog \in [shown : BOOLEAN, id : Mails \cup {NoMail},
                 mail : {None} \cup [id : Mails, stage : Statuses]]
  /\ gets \subseteq [id : Mails, stage : Statuses \cup {"asked"}]
  /\ retry \in {None, [stage |-> "queued"], [stage |-> "conflict"]}
                 \cup [stage : {"asked"}, id : Mails]

LEMMA TypeParts == TypeOK <=> DataTyped /\ PlaceTyped /\ DetailTyped /\ ListTyped
BY DEF TypeOK, DataTyped, PlaceTyped, DetailTyped, ListTyped, Refresh

LEMMA EventTyped == ASSUME PlaceTyped, Event PROVE events' \in 0..MaxEvents
BY AdminConsoleConstants DEF PlaceTyped, Event

LEMMA FetchFailsTyped ==
  ASSUME PlaceTyped, FetchFails
  PROVE  PlaceTyped' /\ (Showing' => Showing)
<1>1. events' \in 0..MaxEvents
  BY EventTyped DEF FetchFails
<1>2. PlaceTyped'
  BY <1>1 DEF PlaceTyped, FetchFails, address
<1>3. Showing' => Showing
  BY DEF Showing, FetchFails
<1> QED
  BY <1>2, <1>3

LEMMA PlaceStays ==
  ASSUME PlaceTyped, UNCHANGED place, Event \/ UNCHANGED events
  PROVE  PlaceTyped' /\ (Showing' => Showing)
<1>1. events' \in 0..MaxEvents
  BY EventTyped DEF PlaceTyped
<1>2. PlaceTyped'
  BY <1>1 DEF PlaceTyped, place, address
<1>3. Showing' => Showing
  BY DEF Showing, place
<1> QED
  BY <1>2, <1>3

----------------------------------------------------------------------------
(* The database moves, and the rest of the page stays.                     *)
LEMMA MailMoves ==
  ASSUME DataTyped, NEW m \in Mails, NEW s \in Statuses,
         status[m] \notin Final, status' = [status EXCEPT ![m] = s], keys' = keys
  PROVE  DataTyped' /\ StatusGrows
BY DEF DataTyped, StatusGrows, Statuses

LEMMA DialogQuiet ==
  ASSUME DetailTyped, DialogInv, StatusGrows, UNCHANGED detail
  PROVE  DetailTyped' /\ DialogInv'
BY DEF DetailTyped, DialogInv, StatusGrows, detail, NoMail

LEMMA ServingStep ==
  ASSUME Inv, Serving
  PROVE  Inv'
<1>1. DataTyped /\ PlaceTyped /\ DetailTyped /\ ListTyped /\ ListInv /\ DialogInv
  BY TypeParts DEF Inv
<1>2. Event /\ UNCHANGED <<list, detail, place>>
  BY DEF Serving, RecordMail, MarkDelivery, RequeueDelivery, DeleteKey
<1>3. PlaceTyped' /\ (Showing' => Showing)
  BY <1>1, <1>2, PlaceStays
<1>4. DataTyped' /\ StatusGrows
  <2>1. ASSUME NEW m \in Mails, RecordMail(m) \/ MarkDelivery(m) \/ RequeueDelivery(m)
        PROVE  DataTyped' /\ StatusGrows
    <3>1. PICK s \in Statuses :
            status[m] \notin Final /\ status' = [status EXCEPT ![m] = s] /\ keys' = keys
      BY <2>1 DEF RecordMail, MarkDelivery, RequeueDelivery, Statuses, Final, InProgress
    <3> QED
      BY <1>1, <3>1, MailMoves
  <2>2. ASSUME NEW k \in Keys, DeleteKey(k) PROVE DataTyped' /\ StatusGrows
    BY <1>1, <2>2 DEF DeleteKey, DataTyped, StatusGrows
  <2> QED
    BY <2>1, <2>2 DEF Serving
<1>5. ListTyped' /\ UNCHANGED <<filter, options, timer, rows, hasMore, calls, spliced, lost>>
  BY <1>1, <1>2 DEF ListTyped, list
<1>6. ListInv'
  BY <1>1, <1>3, <1>4, <1>5, ListQuiet
<1>7. DetailTyped' /\ DialogInv'
  BY <1>1, <1>2, <1>4, DialogQuiet
<1>8. TypeOK'
  BY <1>3, <1>4, <1>5, <1>7, TypeParts DEF TypeOK, DataTyped, PlaceTyped, DetailTyped, ListTyped, Refresh
<1> QED
  BY <1>6, <1>7, <1>8 DEF Inv

(* The list moves, and the database and the dialog stay.                   *)
LEMMA ListMoves ==
  ASSUME Inv, UNCHANGED <<database, detail>>, PlaceTyped', ListTyped', ListInv'
  PROVE  Inv'
<1>1. DataTyped' /\ DetailTyped' /\ DialogInv'
  BY TypeParts DEF Inv, DataTyped, DetailTyped, DialogInv, database, detail
<1>2. TypeOK'
  BY <1>1 DEF TypeOK, DataTyped, PlaceTyped, DetailTyped, ListTyped, Refresh
<1> QED
  BY <1>1, <1>2 DEF Inv

LEMMA AnsweredStep ==
  ASSUME Inv, Answered
  PROVE  Inv'
<1>1. TypeOK /\ DataTyped /\ PlaceTyped /\ DetailTyped /\ ListTyped /\ ListInv /\ DialogInv
  BY TypeParts DEF Inv
<1>2. PICK c \in calls : ListMails(c) \/ MailCounts(c) \/ Arrive(c) \/ Fail(c)
  BY DEF Answered
<1>3. CASE ListMails(c) \/ MailCounts(c)
  <2>1. ListInv' /\ calls' \subseteq ListCall
    BY <1>1, <1>3, ListMailsStep, MailCountsStep
  <2>2. UNCHANGED <<database, detail, shell, filter, options, timer, rows,
                    hasMore, open, refresh, spliced, lost>>
    BY <1>3 DEF ListMails, MailCounts, Answering
  <2>3. ListTyped' /\ PlaceTyped'
    BY <1>1, <2>1, <2>2, PlaceStays DEF ListTyped, shell
  <2> QED
    BY <2>1, <2>2, <2>3, ListMoves
<1>4. CASE Arrive(c)
  <2>1. ListInv' /\ calls' \subseteq ListCall /\ rows' \in Seq(Shown)
        /\ hasMore' \in BOOLEAN /\ open' \in BOOLEAN /\ spliced' \in BOOLEAN /\ lost' \in BOOLEAN
    BY <1>1, <1>4, ArriveStep
  <2>2. UNCHANGED <<database, detail, shell, filter, options, timer, refresh>>
    BY <1>4 DEF Arrive
  <2>3. ListTyped' /\ PlaceTyped'
    BY <1>1, <2>1, <2>2, PlaceStays DEF ListTyped, shell
  <2> QED
    BY <2>1, <2>2, <2>3, ListMoves
<1>5. CASE Fail(c)
  <2>1. /\ calls' = calls \ {c} /\ lost' = (lost \/ (c.newest /\ ~c.more))
        /\ UNCHANGED <<database, detail, filter, options, timer, rows, hasMore,
                       open, refresh, spliced>>
        /\ FetchFails
    BY <1>5 DEF Fail
  <2>2. ListInv'
    BY <1>1, <2>1, GoneStep, FetchFailsTyped DEF database
  <2>3. lost' \in BOOLEAN
    BY <1>1, <2>1 DEF ListTyped, ListCall
  <2>4. ListTyped' /\ PlaceTyped'
    BY <1>1, <2>1, <2>3, FetchFailsTyped DEF ListTyped
  <2> QED
    BY <2>1, <2>2, <2>4, ListMoves
<1> QED
  BY <1>2, <1>3, <1>4, <1>5

(* A reload with whatever the filter is after the step.                    *)
LEMMA Reloads ==
  ASSUME Inv, LoadMails(filter', FALSE), filter' \in Filter, options' \subseteq Keys,
         KeyOffered', timer' \in BOOLEAN, PlaceTyped',
         refresh' \in [Refreshes -> Refresh],
         UNCHANGED <<database, detail, rows, hasMore, open, spliced, lost>>
  PROVE  Inv'
<1>1. ListTyped /\ ListInv
  BY TypeParts DEF Inv
<1>2. ListInv' /\ calls' \subseteq ListCall
  BY <1>1, LoadStep DEF database
<1>3. ListTyped'
  BY <1>1, <1>2 DEF ListTyped
<1> QED
  BY <1>2, <1>3, ListMoves

LEMMA ReloadsSame ==
  ASSUME Inv, Reload, UNCHANGED <<database, detail, filter, options, rows, hasMore, open,
                                  spliced, lost>>,
         timer' \in BOOLEAN, PlaceTyped',
         refresh' \in [Refreshes -> Refresh]
  PROVE  Inv'
<1>1. ListTyped /\ ListInv
  BY TypeParts DEF Inv
<1>2. LoadMails(filter', FALSE)
  BY DEF Reload
<1>3. filter' \in Filter /\ options' \subseteq Keys /\ KeyOffered'
  BY <1>1 DEF ListTyped, ListInv, KeyOffered
<1> QED
  BY <1>2, <1>3, Reloads

(* Nothing about the list changes but a refresh on its way.                *)
LEMMA ListStays ==
  ASSUME Inv, UNCHANGED <<database, detail, filter, options, timer, rows, hasMore, open,
                          calls, spliced, lost>>,
         PlaceTyped', Showing' => Showing,
         refresh' \in [Refreshes -> Refresh]
  PROVE  Inv'
<1>1. ListTyped /\ ListInv
  BY TypeParts DEF Inv
<1>2. StatusGrows
  BY DEF StatusGrows, database
<1>3. ListInv'
  BY <1>1, <1>2, ListQuiet
<1>4. ListTyped'
  BY <1>1 DEF ListTyped
<1> QED
  BY <1>3, <1>4, ListMoves

(* "View sent mail" changes the filter of a list that is not on the screen.*)
LEMMA ShowMailsForStep ==
  ASSUME Inv, NEW k \in Keys \cup {"all", "system"}, ShowMailsFor(k)
  PROVE  Inv'
<1>1. ListTyped /\ ListInv /\ PlaceTyped
  BY TypeParts DEF Inv
<1>2. /\ view = "other" /\ view' = view /\ signedIn' = signedIn /\ Event
      /\ filter' = [filter EXCEPT !.key = k] /\ k \in options
      /\ UNCHANGED <<database, detail, options, timer, rows, hasMore, open, refresh,
                     spliced, lost>>
  BY DEF ShowMailsFor, AtPage
<1>3. filter' \in Filter /\ filter'.key = k
  BY <1>1, <1>2 DEF ListTyped, Filter
<1>4. KeyOffered'
  BY <1>2, <1>3 DEF KeyOffered
<1>5. PlaceTyped'
  <2>1. events' \in 0..MaxEvents
    BY <1>1, <1>2, EventTyped
  <2>2. hash' \in {"mails", "other"} /\ moves' \in Nat
    <3>1. hash \in {"mails", "other"} /\ moves \in Nat
      BY <1>1 DEF PlaceTyped
    <3>2. CASE UNCHANGED address
      BY <3>1, <3>2 DEF address
    <3>3. CASE hash' = "mails" /\ moves' = moves + 1
      BY <3>1, <3>3
    <3> QED
      BY <3>2, <3>3 DEF ShowMailsFor
  <2> QED
    BY <1>1, <1>2, <2>1, <2>2 DEF PlaceTyped
<1>6. CASE LoadMails(filter', FALSE)
  BY <1>1, <1>2, <1>3, <1>4, <1>5, <1>6, Reloads DEF ListTyped
<1>7. CASE UNCHANGED calls
  <2>1. ~Showing'
    BY <1>2 DEF Showing
  <2>2. NewestCurrent' /\ RowsMatch'
    BY <2>1 DEF NewestCurrent, RowsMatch
  <2>3. UNCHANGED <<status, options, timer, rows, hasMore, calls, spliced, lost>>
    BY <1>2, <1>7 DEF database
  <2>4. ListInv'
    BY <1>1, <1>4, <2>2, <2>3 DEF ListInv, OneNewest, MoreHasRows, Decreasing, Continues,
       PagesSorted, PagesMatch, Matches, Truthful, Settled, Forward
  <2>5. ListTyped'
    BY <1>1, <1>2, <1>3, <1>7 DEF ListTyped
  <2> QED
    BY <1>2, <1>5, <2>4, <2>5, ListMoves
<1> QED
  BY <1>6, <1>7 DEF ShowMailsFor

LEMMA SetViewEffect ==
  ASSUME PlaceTyped, NEW shown \in BOOLEAN, SetView(shown), signedIn' = shown
  PROVE  /\ view' \in {"mails", "other"}
         /\ Reload \/ (UNCHANGED calls /\ ~Showing')
BY DEF PlaceTyped, SetView, Showing

LEMMA ListingStep ==
  ASSUME Inv, Listing
  PROVE  Inv'
<1>1. TypeOK /\ DataTyped /\ PlaceTyped /\ DetailTyped /\ ListTyped /\ ListInv /\ DialogInv
  BY TypeParts DEF Inv
<1>2. ASSUME NEW s \in StatusFilters, ChooseStatus(s) PROVE Inv'
  <2>1. filter' \in Filter /\ filter'.key = filter.key
    BY <1>1, <1>2 DEF ChooseStatus, ListTyped, Filter
  <2>2. KeyOffered'
    BY <1>1, <1>2, <2>1 DEF ChooseStatus, ListInv, KeyOffered
  <2>3. PlaceTyped'
    BY <1>1, <1>2, PlaceStays DEF ChooseStatus, AtPage
  <2> QED
    BY <1>1, <1>2, <2>1, <2>2, <2>3, Reloads DEF ChooseStatus, ListTyped
<1>3. ASSUME NEW k \in Keys \cup {"all", "system"}, ChooseKey(k) PROVE Inv'
  <2>1. filter' \in Filter /\ filter'.key = k
    BY <1>1, <1>3 DEF ChooseKey, ListTyped, Filter
  <2>2. KeyOffered'
    BY <1>3, <2>1 DEF ChooseKey, KeyOffered
  <2>3. PlaceTyped'
    BY <1>1, <1>3, PlaceStays DEF ChooseKey, AtPage
  <2> QED
    BY <1>1, <1>3, <2>1, <2>2, <2>3, Reloads DEF ChooseKey, ListTyped
<1>4. ASSUME NEW q \in Searches \cup {"all"}, TypeSearch(q) PROVE Inv'
  <2>1. ListInv' /\ filter' \in Filter
    BY <1>1, <1>4, TypeSearchStep
  <2>2. PlaceTyped'
    BY <1>1, <1>4, PlaceStays DEF TypeSearch, AtPage
  <2>3. ListTyped' /\ UNCHANGED <<database, detail>>
    BY <1>1, <1>4, <2>1 DEF TypeSearch, ListTyped
  <2> QED
    BY <2>1, <2>2, <2>3, ListMoves
<1>5. CASE SearchTimer
  BY <1>1, <1>5, ReloadsSame, PlaceStays DEF SearchTimer, ListTyped, shell
<1>6. CASE ClickMore
  <2>1. rows # <<>>
    BY <1>1, <1>6 DEF ClickMore, ListInv, MoreHasRows
  <2>2. /\ LoadMails(filter, TRUE)
        /\ spliced' = (spliced \/ timer \/ \E c \in calls : c.newest /\ ~c.more)
        /\ UNCHANGED <<database, detail, place, filter, options, timer, rows,
                       hasMore, open, refresh, lost>>
    BY <1>6 DEF ClickMore
  <2>3. ~spliced' => ~spliced /\ ~timer /\ \A c \in calls : c.newest => c.more
    BY <2>2
  <2>4. filter' \in Filter /\ KeyOffered' /\ LoadMails(filter', TRUE)
    BY <1>1, <2>2 DEF ListTyped, ListInv, KeyOffered
  <2>5. PlaceTyped' /\ (Showing' => Showing)
    BY <1>1, <1>6, PlaceStays DEF ClickMore, AtPage
  <2>6. spliced' \in BOOLEAN
    BY <1>1, <2>2 DEF ListTyped, ListCall
  <2>7. ListInv' /\ calls' \subseteq ListCall
    BY <1>1, <2>1, <2>2, <2>3, <2>4, <2>5, LoadStep DEF database
  <2>8. ListTyped'
    BY <1>1, <2>2, <2>6, <2>7 DEF ListTyped
  <2> QED
    BY <2>2, <2>5, <2>7, <2>8, ListMoves
<1>7. CASE Poll
  BY <1>1, <1>7, ReloadsSame, PlaceStays DEF Poll, Loading, ListTyped, shell
<1>8. CASE SetHash
  <2>1. events' \in 0..MaxEvents /\ hash' \in {"mails", "other"} /\ moves' \in Nat
        /\ UNCHANGED <<signedIn, view>>
    BY <1>1, <1>8, EventTyped DEF SetHash, PlaceTyped
  <2>2. PlaceTyped' /\ (Showing' => Showing)
    BY <1>1, <2>1 DEF PlaceTyped, Showing
  <2> QED
    BY <1>1, <1>8, <2>2, ListStays DEF SetHash, Loading, ListTyped
<1>9. CASE HashChange
  <2>1. /\ moves > 0 /\ moves' = moves - 1 /\ SetView(signedIn)
        /\ UNCHANGED <<signedIn, hash, events>>
        /\ UNCHANGED <<database, detail, filter, options, timer, rows,
                       hasMore, open, refresh, spliced, lost>>
    BY <1>9 DEF HashChange, Loading
  <2>2. view' \in {"mails", "other"} /\ (Reload \/ (UNCHANGED calls /\ ~Showing'))
    BY <1>1, <2>1, SetViewEffect DEF PlaceTyped
  <2>3. moves' \in Nat
    BY <1>1, <2>1 DEF PlaceTyped
  <2>4. PlaceTyped'
    BY <1>1, <2>1, <2>2, <2>3 DEF PlaceTyped
  <2>5. CASE Reload
    BY <1>1, <2>1, <2>4, <2>5, ReloadsSame DEF ListTyped
  <2>6. CASE UNCHANGED calls /\ ~Showing'
    BY <1>1, <2>1, <2>4, <2>6, ListStays DEF ListTyped
  <2> QED
    BY <2>2, <2>5, <2>6
<1> QED
  BY <1>2, <1>3, <1>4, <1>5, <1>6, <1>7, <1>8, <1>9, ShowMailsForStep DEF Listing

LEMMA KeyFilterEffect ==
  ASSUME NEW f \in Filter, NEW ks \in SUBSET Keys
  PROVE  KeyFilter(f, ks) \in Filter /\ KeyFilter(f, ks).key \in ks \cup {"all", "system"}
BY DEF KeyFilter, Filter

LEMMA RefreshTypes ==
  None \in Refresh /\ [stage |-> "asked"] \in Refresh /\ None.stage = "none"
BY DEF None, Refresh

LEMMA RefreshingTyped ==
  ASSUME ListTyped, Refreshing
  PROVE  refresh' \in [Refreshes -> Refresh]
BY RefreshTypes DEF ListTyped, Refreshing

LEMMA ShellStep ==
  ASSUME Inv, Shell
  PROVE  Inv'
<1>1. TypeOK /\ DataTyped /\ PlaceTyped /\ DetailTyped /\ ListTyped /\ ListInv /\ DialogInv
  BY TypeParts DEF Inv
<1>2. CASE ClickRefresh
  <2>1. PlaceTyped' /\ (Showing' => Showing)
    BY <1>1, <1>2, PlaceStays DEF ClickRefresh, AtPage
  <2>2. refresh' \in [Refreshes -> Refresh]
    BY <1>1, <1>2, RefreshingTyped DEF ClickRefresh
  <2> QED
    BY <1>2, <2>1, <2>2, ListStays DEF ClickRefresh
<1>3. ASSUME NEW r \in Refreshes, ListKeys(r) PROVE Inv'
  <2>1. [stage |-> "answered", keys |-> keys] \in Refresh
    BY <1>1 DEF DataTyped, Refresh
  <2>2. refresh' \in [Refreshes -> Refresh]
    BY <1>1, <1>3, <2>1 DEF ListKeys, ListTyped
  <2>3. PlaceTyped' /\ (Showing' => Showing)
    BY <1>1, <1>3, PlaceStays DEF ListKeys, shell
  <2> QED
    BY <1>3, <2>2, <2>3, ListStays DEF ListKeys
<1>4. ASSUME NEW r \in Refreshes, RenderRefresh(r) PROVE Inv'
  <2>1. refresh[r] \in Refresh /\ refresh[r].stage = "answered"
    BY <1>1, <1>4 DEF RenderRefresh, ListTyped
  <2>2. PICK ks \in SUBSET Keys : refresh[r].keys = ks
    BY <2>1 DEF Refresh, None
  <2>3. /\ options' = ks /\ filter' = KeyFilter(filter, ks)
        /\ LoadMails(filter', FALSE) /\ refresh' = [refresh EXCEPT ![r] = None]
        /\ UNCHANGED <<database, detail, shell, timer, rows, hasMore, open, spliced, lost>>
    BY <1>4, <2>2 DEF RenderRefresh
  <2>4. filter' \in Filter /\ options' \subseteq Keys /\ KeyOffered'
    BY <1>1, <2>2, <2>3, KeyFilterEffect DEF ListTyped, KeyOffered
  <2>5. PlaceTyped' /\ timer' \in BOOLEAN /\ refresh' \in [Refreshes -> Refresh]
    BY <1>1, <2>3, PlaceStays, RefreshTypes DEF ListTyped, shell
  <2> QED
    BY <2>3, <2>4, <2>5, Reloads
<1>5. ASSUME NEW r \in Refreshes, FailRefresh(r) PROVE Inv'
  <2>1. PlaceTyped'
    BY <1>1, <1>5, FetchFailsTyped DEF FailRefresh
  <2>2. refresh' \in [Refreshes -> Refresh]
    BY <1>1, <1>5, RefreshTypes DEF FailRefresh, ListTyped
  <2> QED
    BY <1>1, <1>5, <2>1, <2>2, ReloadsSame DEF FailRefresh, ListTyped
<1>6. CASE Logout
  <2>1. PlaceTyped'
    BY <1>1, <1>6, EventTyped DEF Logout, AtPage, PlaceTyped, address
  <2>2. ~Showing'
    BY <1>6 DEF Logout, Showing
  <2> QED
    BY <1>1, <1>6, <2>1, <2>2, ListStays DEF Logout, list, ListTyped
<1>7. CASE SignIn
  <2>1. /\ signedIn' = TRUE /\ SetView(TRUE) /\ Refreshing
        /\ UNCHANGED <<database, detail, address, events, filter, options, timer, rows,
                       hasMore, open, spliced, lost>>
    BY <1>7 DEF SignIn
  <2>2. view' \in {"mails", "other"} /\ (Reload \/ (UNCHANGED calls /\ ~Showing'))
    BY <1>1, <2>1, SetViewEffect
  <2>3. PlaceTyped' /\ refresh' \in [Refreshes -> Refresh]
    BY <1>1, <2>1, <2>2, RefreshingTyped DEF PlaceTyped, address
  <2>4. CASE Reload
    BY <1>1, <2>1, <2>3, <2>4, ReloadsSame DEF ListTyped
  <2>5. CASE UNCHANGED calls /\ ~Showing'
    BY <2>1, <2>3, <2>5, ListStays
  <2> QED
    BY <2>2, <2>4, <2>5
<1> QED
  BY <1>2, <1>3, <1>4, <1>5, <1>6, <1>7 DEF Shell

----------------------------------------------------------------------------
(* The dialog. Its retry writes to the database.                           *)
LEMMA DialogMoves ==
  ASSUME Inv, UNCHANGED list, DataTyped', StatusGrows, PlaceTyped', Showing' => Showing,
         DetailTyped', DialogInv'
  PROVE  Inv'
<1>1. ListTyped /\ ListInv
  BY TypeParts DEF Inv
<1>2. ListTyped' /\ UNCHANGED <<filter, options, timer, rows, hasMore, calls, spliced, lost>>
  BY <1>1 DEF ListTyped, list
<1>3. ListInv'
  BY <1>1, <1>2, ListQuiet
<1>4. TypeOK'
  BY <1>2 DEF TypeOK, DataTyped, PlaceTyped, DetailTyped, ListTyped, Refresh
<1> QED
  BY <1>3, <1>4 DEF Inv

LEMMA OpenMailStep ==
  ASSUME DetailTyped, DialogInv, NEW id \in Mails, status[id] # "none", OpenMail(id),
         status' = status,
         retry' = retry \/ retry' = None
  PROVE  DetailTyped' /\ DialogInv'
<1>1. dialog' = [shown |-> TRUE, id |-> id, mail |-> None]
      /\ gets' = gets \cup {[id |-> id, stage |-> "asked"]}
  BY DEF OpenMail
<1>2. DetailTyped'
  BY <1>1 DEF DetailTyped
<1>3. id # NoMail
  BY AdminConsoleConstants DEF NoMail
<1>4. DialogInv'
  BY <1>1, <1>3 DEF DialogInv
<1> QED
  BY <1>2, <1>4

LEMMA DialogStep ==
  ASSUME Inv, Dialog
  PROVE  Inv'
<1>1. TypeOK /\ DataTyped /\ PlaceTyped /\ DetailTyped /\ ListTyped /\ ListInv /\ DialogInv
  BY TypeParts DEF Inv
<1>2. UNCHANGED database => DataTyped' /\ StatusGrows
  BY <1>1 DEF database, DataTyped, StatusGrows
<1>3. ASSUME NEW i \in DOMAIN rows, ClickMail(i) PROVE Inv'
  <2>1. rows[i].id \in Mails /\ status[rows[i].id] # "none"
    BY <1>1, ShownIds DEF ListTyped, ListInv, Truthful, Settled
  <2>2. OpenMail(rows[i].id) /\ UNCHANGED <<database, list, place, retry>>
    BY <1>3 DEF ClickMail
  <2>3. DetailTyped' /\ DialogInv'
    BY <1>1, <2>1, <2>2, OpenMailStep DEF database
  <2>4. PlaceTyped' /\ (Showing' => Showing)
    BY <1>1, <1>3, PlaceStays DEF ClickMail, AtPage
  <2> QED
    BY <1>2, <2>2, <2>3, <2>4, DialogMoves
<1>4. ASSUME NEW g \in gets, GetMail(g) PROVE Inv'
  <2>1. g \in [id : Mails, stage : Statuses \cup {"asked"}] /\ status[g.id] # "none"
    BY <1>1 DEF DetailTyped, DialogInv
  <2>2. /\ gets' = (gets \ {g}) \cup {[id |-> g.id, stage |-> status[g.id]]}
        /\ UNCHANGED <<database, list, shell, dialog, retry>>
    BY <1>4 DEF GetMail
  <2>3. [id |-> g.id, stage |-> status[g.id]]
          \in [id : Mails, stage : Statuses \cup {"asked"}]
    BY <1>1, <2>1 DEF DataTyped
  <2>4. DetailTyped' /\ DialogInv'
    BY <1>1, <2>1, <2>2, <2>3 DEF DetailTyped, DialogInv, database
  <2>5. PlaceTyped' /\ (Showing' => Showing)
    BY <1>1, <2>2, PlaceStays DEF shell
  <2> QED
    BY <1>2, <2>2, <2>4, <2>5, DialogMoves
<1>5. ASSUME NEW g \in gets, RenderMail(g) PROVE Inv'
  <2>1. g \in [id : Mails, stage : Statuses]
    BY <1>1, <1>5 DEF DetailTyped, RenderMail
  <2>2. /\ gets' = gets \ {g} /\ dialog' = [dialog EXCEPT !.mail = g]
        /\ UNCHANGED <<database, list, shell, retry>>
    BY <1>5 DEF RenderMail
  <2>3. DetailTyped' /\ DialogInv'
    BY <1>1, <2>1, <2>2 DEF DetailTyped, DialogInv, database
  <2>4. PlaceTyped' /\ (Showing' => Showing)
    BY <1>1, <2>2, PlaceStays DEF shell
  <2> QED
    BY <1>2, <2>2, <2>3, <2>4, DialogMoves
<1>6. ASSUME NEW g \in gets, FailMail(g) PROVE Inv'
  <2>1. gets' = gets \ {g} /\ UNCHANGED <<database, list, dialog, retry>>
    BY <1>6 DEF FailMail
  <2>2. DetailTyped' /\ DialogInv'
    BY <1>1, <2>1 DEF DetailTyped, DialogInv, database
  <2>3. PlaceTyped' /\ (Showing' => Showing)
    BY <1>1, <1>6, FetchFailsTyped DEF FailMail
  <2> QED
    BY <1>2, <2>1, <2>2, <2>3, DialogMoves
<1>7. CASE CloseMail
  <2>1. dialog' = [dialog EXCEPT !.shown = FALSE] /\ UNCHANGED <<database, list, place, gets, retry>>
    BY <1>7 DEF CloseMail
  <2>2. DetailTyped' /\ DialogInv'
    BY <1>1, <2>1 DEF DetailTyped, DialogInv, database
  <2>3. PlaceTyped' /\ (Showing' => Showing)
    BY <1>1, <1>7, PlaceStays DEF CloseMail
  <2> QED
    BY <1>2, <2>1, <2>2, <2>3, DialogMoves
<1>8. CASE ClickRetry
  <2>1. /\ dialog.shown /\ retry' = [stage |-> "asked", id |-> dialog.id]
        /\ UNCHANGED <<database, list, place, dialog, gets>>
    BY <1>8 DEF ClickRetry
  <2>2. dialog.id # NoMail /\ dialog.id \in Mails
    BY <1>1, <2>1 DEF DialogInv, DetailTyped
  <2>3. DetailTyped' /\ DialogInv'
    BY <1>1, <2>1, <2>2 DEF DetailTyped, DialogInv, database
  <2>4. PlaceTyped' /\ (Showing' => Showing)
    BY <1>1, <1>8, PlaceStays DEF ClickRetry
  <2> QED
    BY <1>2, <2>1, <2>3, <2>4, DialogMoves
<1>9. CASE RetryMail
  <2>1. retry.id \in Mails /\ retry.stage = "asked"
    BY <1>1, <1>9 DEF RetryMail, DetailTyped, None
  <2>2. UNCHANGED <<keys, list, shell, dialog, gets>>
    BY <1>9 DEF RetryMail
  <2>3. PlaceTyped' /\ (Showing' => Showing)
    BY <1>1, <2>2, PlaceStays DEF shell
  <2>4. DataTyped' /\ StatusGrows
    <3>1. CASE status[retry.id] = "failed"
      <4>1. status' = [status EXCEPT ![retry.id] = "queued"]
        BY <1>9, <3>1 DEF RetryMail
      <4>2. status[retry.id] \notin Final /\ "queued" \in Statuses
        BY <3>1 DEF Final, Statuses
      <4> QED
        BY <1>1, <2>1, <2>2, <4>1, <4>2, MailMoves
    <3>2. CASE status[retry.id] # "failed"
      BY <1>2, <1>9, <2>2, <3>2 DEF RetryMail, database
    <3> QED
      BY <3>1, <3>2
  <2>5. DetailTyped'
    BY <1>1, <1>9, <2>2 DEF RetryMail, DetailTyped
  <2>6. DialogInv'
    <3>1. dialog.id # NoMail /\ dialog.id \in Mails \cup {NoMail}
      BY <1>1, <2>1 DEF DialogInv, DetailTyped
    <3>2. \A g \in gets : g.id \in Mails
      BY <1>1 DEF DetailTyped
    <3> QED
      BY <1>1, <2>2, <2>4, <3>1, <3>2 DEF DialogInv, StatusGrows
  <2> QED
    BY <2>2, <2>3, <2>4, <2>5, <2>6, DialogMoves
<1>10. CASE RetryQueued
  <2>1. /\ retry.stage = "queued" /\ retry' = None /\ OpenMail(dialog.id) /\ Reload
        /\ UNCHANGED <<database, shell, filter, options, timer, rows, hasMore,
                       open, refresh, spliced, lost>>
    BY <1>10 DEF RetryQueued
  <2>2. dialog.id \in Mails /\ status[dialog.id] # "none"
    BY <1>1, <2>1 DEF DialogInv, DetailTyped
  <2>3. DetailTyped' /\ DialogInv'
    BY <1>1, <2>1, <2>2, OpenMailStep DEF database
  <2>4. LoadMails(filter', FALSE) /\ filter' \in Filter /\ KeyOffered'
    BY <1>1, <2>1 DEF Reload, ListTyped, ListInv, KeyOffered
  <2>5. ListInv' /\ calls' \subseteq ListCall
    BY <1>1, <2>1, <2>4, LoadStep DEF database
  <2>6. ListTyped' /\ PlaceTyped'
    BY <1>1, <2>1, <2>5, PlaceStays DEF ListTyped, shell
  <2>7. TypeOK'
    BY <1>2, <2>1, <2>3, <2>6 DEF TypeOK, DataTyped, PlaceTyped, DetailTyped, ListTyped, Refresh
  <2> QED
    BY <2>3, <2>5, <2>7 DEF Inv
<1>11. CASE RetryFails
  <2>1. retry' = None /\ UNCHANGED <<database, list, dialog, gets>>
    BY <1>11 DEF RetryFails
  <2>2. DetailTyped' /\ DialogInv'
    BY <1>1, <2>1, RefreshTypes DEF DetailTyped, DialogInv, database
  <2>3. PlaceTyped' /\ (Showing' => Showing)
    <3>1. CASE UNCHANGED shell
      BY <1>1, <3>1, PlaceStays DEF shell
    <3>2. CASE FetchFails
      BY <1>1, <3>2, FetchFailsTyped
    <3> QED
      BY <1>11, <3>1, <3>2 DEF RetryFails
  <2> QED
    BY <1>2, <2>1, <2>2, <2>3, DialogMoves
<1> QED
  BY <1>3, <1>4, <1>5, <1>6, <1>7, <1>8, <1>9, <1>10, <1>11 DEF Dialog

----------------------------------------------------------------------------
LEMMA InitInv == Init => Inv
<1> SUFFICES ASSUME Init PROVE Inv
  OBVIOUS
<1>1. DataTyped /\ PlaceTyped
  <2>1. status \in [Mails -> Statuses \cup {"none"}]
    BY DEF Init, Statuses
  <2>2. keys \subseteq Keys
    BY DEF Init
  <2>3. /\ events = 0 /\ signedIn = FALSE /\ view = "other"
        /\ hash \in {"mails", "other"} /\ moves = 0
    BY DEF Init
  <2>4. 0 \in 0..MaxEvents
    BY AdminConsoleConstants
  <2>5. signedIn \in BOOLEAN
    BY <2>3
  <2>6. PlaceTyped
    BY <2>3, <2>4, <2>5 DEF PlaceTyped
  <2> QED
    BY <2>1, <2>2, <2>6 DEF DataTyped
<1>2. DetailTyped
  <2>1. [shown |-> FALSE, id |-> NoMail, mail |-> None]
          \in [shown : BOOLEAN, id : Mails \cup {NoMail},
               mail : {None} \cup [id : Mails, stage : Statuses]]
    OBVIOUS
  <2> QED
    BY <2>1 DEF Init, DetailTyped
<1>3. filter \in Filter /\ filter.key = "all"
  BY AdminConsoleConstants DEF Init, Filter
<1>4. rows = <<>> /\ rows \in Seq(Shown) /\ DOMAIN rows = {}
  BY DEF Init
<1>5. ListTyped
  BY <1>3, <1>4, RefreshTypes DEF Init, ListTyped
<1>6. calls = {} /\ ~hasMore
  BY DEF Init
<1>7. ListInv
  BY <1>3, <1>4, <1>6 DEF ListInv, OneNewest, MoreHasRows, Decreasing, Continues, PagesSorted,
     PagesMatch, Matches, NewestCurrent, RowsMatch, KeyOffered, Truthful, Settled, Forward
<1>8. DialogInv
  BY DEF Init, DialogInv, None
<1> QED
  BY <1>1, <1>2, <1>5, <1>7, <1>8, TypeParts DEF Inv

LEMMA StepInv == Inv /\ [Next]_vars => Inv'
<1> SUFFICES ASSUME Inv, [Next]_vars PROVE Inv'
  OBVIOUS
<1>1. CASE UNCHANGED vars
  <2>1. PlaceTyped' /\ (Showing' => Showing) /\ refresh' = refresh
    BY <1>1, TypeParts, PlaceStays DEF Inv, vars, shell, list
  <2>2. UNCHANGED <<database, detail, filter, options, timer, rows, hasMore, open,
                    calls, spliced, lost>>
    BY <1>1 DEF vars, list
  <2> QED
    BY <2>1, <2>2, ListStays, TypeParts DEF Inv, ListTyped
<1> QED
  BY <1>1, ServingStep, AnsweredStep, ListingStep, ShellStep, DialogStep DEF Next

(* The invariant holds in every reachable state.                           *)
THEOREM Invariance == Spec => []Inv
BY InitInv, StepInv, PTL DEF Spec

(* Every variable keeps its type.                                          *)
THEOREM TypeCorrect == Spec => []TypeOK
<1>1. Inv => TypeOK
  BY DEF Inv
<1> QED
  BY <1>1, Invariance, PTL

(* loadMails: whatever pages, reloads and polls overlap, and whatever mail *)
(* arrives meanwhile, no mail is listed twice and the newest comes first.  *)
THEOREM NewestFirstTheorem == Spec => []NewestFirst
<1>1. Inv => NewestFirst
  BY DEF Inv, ListInv, Decreasing, NewestFirst
<1> QED
  BY <1>1, Invariance, PTL

(* A page at rest lists mail of the chosen status, key and search only,    *)
(* unless a next page overtook the first one of a new filter; and the      *)
(* chosen key is always one that the menu offers.                          *)
THEOREM ListMatchesFilterTheorem == Spec => []ListMatchesFilter
<1>1. Inv => ListMatchesFilter
  BY TypeParts DEF Inv, ListInv, RowsMatch, KeyOffered, Matches, ListMatchesFilter, AtRest
<1> QED
  BY <1>1, Invariance, PTL

(* A mail once shown as sent or simulated is not shown otherwise by a      *)
(* later answer: the one answer that may still be shown was read after the *)
(* list that is.                                                           *)
THEOREM StatusesGoForwardTheorem == Spec => StatusesGoForward
<1> DEFINE Kept ==
      \A i \in DOMAIN rows, j \in DOMAIN rows' :
        rows[i].status \in Final /\ rows'[j].id = rows[i].id =>
          rows'[j].status = rows[i].status
<1>1. ASSUME Inv PROVE ListTyped /\ ListInv /\ Decreasing(rows) /\ Forward
  BY <1>1, TypeParts DEF Inv, ListInv
<1>2. ASSUME Inv, NEW i \in DOMAIN rows, NEW j \in DOMAIN rows, rows[j].id = rows[i].id
      PROVE  i = j
  <2>1. i \in Nat /\ j \in Nat /\ rows[i].id \in Nat /\ rows[j].id \in Nat
    BY <1>1, <1>2, ShownIds DEF ListTyped
  <2>2. ~(i < j) /\ ~(j < i)
    BY <1>1, <1>2, <2>1 DEF Decreasing
  <2> QED
    BY <2>1, <2>2
<1>3. ASSUME Inv, UNCHANGED rows PROVE Kept
  BY <1>2, <1>3
<1>4. ASSUME Inv, NEW c \in calls, Arrive(c) PROVE Kept
  <2>1. CASE c.newest
    <3>1. \A j \in DOMAIN rows' :
            \/ \E k \in DOMAIN c.page : rows'[j] = c.page[k]
            \/ c.more /\ \E i \in DOMAIN rows : rows'[j] = rows[i]
      BY <1>1, <1>4, <2>1, ArriveEffect
    <3> SUFFICES ASSUME NEW i \in DOMAIN rows, NEW j \in DOMAIN rows',
                        rows[i].status \in Final, rows'[j].id = rows[i].id
                 PROVE  rows'[j].status = rows[i].status
      OBVIOUS
    <3>2. CASE \E k \in DOMAIN c.page : rows'[j] = c.page[k]
      BY <1>1, <1>4, <2>1, <3>2 DEF Forward
    <3>3. CASE \E l \in DOMAIN rows : rows'[j] = rows[l]
      BY <1>2, <1>4, <3>3
    <3> QED
      BY <3>1, <3>2, <3>3
  <2>2. CASE ~c.newest
    BY <1>3, <1>4, <2>2 DEF Arrive, IsShown
  <2> QED
    BY <2>1, <2>2
<1> HIDE DEF Kept
<1>5. Inv /\ [Next]_vars => [Kept]_vars
  <2> SUFFICES ASSUME Inv, [Next]_vars PROVE Kept
    OBVIOUS
  <2>1. CASE UNCHANGED rows
    BY <1>3, <2>1
  <2>2. CASE \E c \in calls : Arrive(c)
    BY <1>4, <2>2
  <2>3. CASE UNCHANGED vars
    BY <2>1, <2>3 DEF vars, list
  <2>4. CASE Serving
    BY <2>1, <2>4 DEF Serving, RecordMail, MarkDelivery, RequeueDelivery, DeleteKey, list
  <2>5. CASE Answered
    BY <2>1, <2>2, <2>5 DEF Answered, ListMails, MailCounts, Answering, Fail
  <2>6. CASE Listing
    BY <2>1, <2>6 DEF Listing, ChooseStatus, ChooseKey, TypeSearch, SearchTimer, ClickMore,
       ShowMailsFor, Poll, SetHash, HashChange, Loading
  <2>7. CASE Shell
    BY <2>1, <2>7 DEF Shell, ClickRefresh, ListKeys, RenderRefresh, FailRefresh, Logout,
       SignIn, list
  <2>8. CASE Dialog
    BY <2>1, <2>8 DEF Dialog, ClickMail, GetMail, RenderMail, FailMail, CloseMail, ClickRetry,
       RetryMail, RetryQueued, RetryFails, list
  <2> QED
    BY <2>3, <2>4, <2>5, <2>6, <2>7, <2>8 DEF Next
<1>6. Spec => [][Kept]_vars
  BY <1>5, Invariance, PTL DEF Spec
<1> QED
  BY <1>6 DEF StatusesGoForward, Kept
=============================================================================
