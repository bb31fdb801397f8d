---------------------------- MODULE ChannelPage ----------------------------
(***************************************************************************)
(* The page of one channel (ChannelPage.tsx with api/client.ts) in one     *)
(* browser tab, and the backend as the page sees it: the table as module   *)
(* Lifecycle promises it, read by GET /downloads and extended by POST.     *)
(*                                                                         *)
(* The browser runs one callback at a time, so each callback is an action; *)
(* between them requests are under way, a fetch of the list every two      *)
(* seconds, answered in any order and with what the table held when the    *)
(* server looked.  Of a download a list holds the id and the status.       *)
(***************************************************************************)
EXTENDS SequencesExt

CONSTANTS
  Ids,         \* the downloads of the channel
  Fetches,     \* the fetches that may be under way at once (bound)
  Unreliable   \* requests and answers may be lost

ASSUME FlagAssumption == Unreliable \in BOOLEAN

VARIABLES
  status,      \* server: the life of each download (module Lifecycle)
  created,     \* server: the ids in the table, newest first
  phase,       \* page: what it renders; "ready" once the channel's name is known
  shown,       \* page: downloads, the list on the screen
  ref,         \* page: pollingRef.current is set
  intervals,   \* page: how many setInterval timers are live
  fetch,       \* the listDownloads calls under way
  post,        \* the createDownload call under way
  overlapped   \* history: a request was sent while another was under way

server == <<status, created>>
page   == <<phase, shown, ref, intervals>>
calls  == <<fetch, post, overlapped>>
vars   == <<server, page, calls>>

Server == INSTANCE Lifecycle

\* ACTIVE_STATUSES
Active == {"pending", "downloading", "converting"}
Final  == {"completed", "error"}

Entry == [id : Ids, status : Active \union Final]

\* A request, and once it is answered the entries of the answer.
Call == [stage : {"none", "sent", "answered"}, entries : Seq(Entry)]
Idle == [stage |-> "none", entries |-> <<>>]
Sent == [stage |-> "sent", entries |-> <<>>]
Answered(entries) == [stage |-> "answered", entries |-> entries]

TypeOK ==
  /\ status \in [Ids -> Active \union Final \union {"absent"}]
  /\ created \in Seq(Ids)
  /\ ToSet(created) = {d \in Ids : status[d] # "absent"}
  /\ phase \in {"loading", "ready", "notFound", "loadError"}
  /\ shown \in Seq(Entry)
  /\ ref \in BOOLEAN
  /\ intervals \in Nat
  /\ fetch \in [Fetches -> Call]
  /\ post \in Call
  /\ overlapped \in BOOLEAN

OpenPage == /\ phase = "loading"
            /\ shown = <<>>
            /\ ref = FALSE
            /\ intervals = 0
            /\ fetch = [f \in Fetches |-> Idle]
            /\ post = Idle
            /\ overlapped = FALSE

Init == Server!Init /\ created = <<>> /\ OpenPage

\* A request is sent; nothing in the code waits for the answers of others.
NoteOverlap == overlapped' = (overlapped \/ post # Idle \/ \E f \in Fetches : fetch[f] # Idle)

\* Mutant: every entry has to be active.
AllActive(entries) == \A i \in DOMAIN entries : entries[i].status \in Active

SomeActive(entries) == \E i \in DOMAIN entries : entries[i].status \in Active

-----------------------------------------------------------------------------
(* The backend.                                                            *)

\* A row is inserted: it is the newest.
Insert(d) == Server!Register(d) /\ created' = Cons(d, created)

\* A worker reports, whoever is looking.
Report(d) ==
  /\ Server!Report(d)
  /\ UNCHANGED <<created, page, calls>>

\* Another tab, or a request of this page before it was reloaded, adds one.
AddElsewhere(d) ==
  /\ Insert(d)
  /\ UNCHANGED <<page, calls>>

\* ListDownloads: the rows of the channel as they are now, newest first.
ServeList(f) ==
  /\ fetch[f].stage = "sent"
  /\ fetch' = [fetch EXCEPT ![f] =
                 Answered([i \in DOMAIN created |-> [id |-> created[i], status |-> status[created[i]]]])]
  /\ UNCHANGED <<server, page, post, overlapped>>

\* CreateDownload: the answer carries the row as it was inserted.
ServePost(d) ==
  /\ post.stage = "sent"
  /\ Insert(d)
  /\ post' = Answered(<<[id |-> d, status |-> "pending"]>>)
  /\ UNCHANGED <<page, fetch, overlapped>>

-----------------------------------------------------------------------------
(* The page.                                                               *)

\* Mutant: a timer is started although one is running.
StartPollingAgain ==
  /\ ref' = TRUE
  /\ intervals' = intervals + 1

\* startPolling
StartPolling ==
  /\ ref' = TRUE
  /\ intervals' = IF ref THEN intervals ELSE intervals + 1

\* Mutant: a timer is taken for granted.
StopPollingUnchecked ==
  /\ ref' = FALSE
  /\ intervals' = intervals - 1

\* clearInterval(pollingRef.current), if it is set
StopPolling ==
  /\ ref' = FALSE
  /\ intervals' = IF ref THEN intervals - 1 ELSE intervals

\* fetchDownloads up to its await
SendFetch(f) ==
  /\ fetch[f] = Idle
  /\ fetch' = [fetch EXCEPT ![f] = Sent]
  /\ NoteOverlap

\* getChannelInfo answers: the name is shown and the list fetched once.
LoadChannel(f) ==
  /\ phase = "loading"
  /\ phase' = "ready"
  /\ SendFetch(f)
  /\ UNCHANGED <<server, shown, ref, intervals, post>>

\* ... or the channel is unknown, or the request failed.
LoadFails ==
  /\ phase = "loading"
  /\ phase' \in {"notFound", "loadError"}
  /\ UNCHANGED <<server, shown, ref, intervals, calls>>

\* The interval fires.
Tick(f) ==
  /\ intervals > 0
  /\ SendFetch(f)
  /\ UNCHANGED <<server, page, post>>

\* Mutant: the answer replaces the list and nothing else.
ReceiveListOnly(f) ==
  /\ fetch[f].stage = "answered"
  /\ shown' = fetch[f].entries
  /\ fetch' = [fetch EXCEPT ![f] = Idle]
  /\ UNCHANGED <<server, phase, ref, intervals, post, overlapped>>

\* fetchDownloads after its await: the answer replaces the list, and polling
\* stops if nothing in the answer is active.
ReceiveList(f) ==
  /\ fetch[f].stage = "answered"
  /\ shown' = fetch[f].entries
  /\ IF SomeActive(fetch[f].entries) THEN UNCHANGED <<ref, intervals>> ELSE StopPolling
  /\ fetch' = [fetch EXCEPT ![f] = Idle]
  /\ UNCHANGED <<server, phase, post, overlapped>>

\* A fetch that fails is ignored.
FetchFails(f) ==
  /\ Unreliable
  /\ fetch[f] # Idle
  /\ fetch' = [fetch EXCEPT ![f] = Idle]
  /\ UNCHANGED <<server, page, post, overlapped>>

\* handleSubmit up to its await; the form is disabled until it ends.
Submit ==
  /\ phase = "ready"
  /\ post = Idle
  /\ post' = Sent
  /\ NoteOverlap
  /\ UNCHANGED <<server, page, fetch>>

\* Mutant: the new download is shown as if it were under way.
ReceivePostAsStarted ==
  /\ post.stage = "answered"
  /\ shown' = <<[id |-> post.entries[1].id, status |-> "downloading"]>> \o shown
  /\ StartPolling
  /\ post' = Idle
  /\ UNCHANGED <<server, phase, fetch, overlapped>>

\* Mutant: the new download replaces the list.
ReceivePostAlone ==
  /\ post.stage = "answered"
  /\ shown' = post.entries
  /\ StartPolling
  /\ post' = Idle
  /\ UNCHANGED <<server, phase, fetch, overlapped>>

\* handleSubmit after its await: the new download goes on top of the list.
ReceivePost ==
  /\ post.stage = "answered"
  /\ shown' = post.entries \o shown
  /\ StartPolling
  /\ post' = Idle
  /\ UNCHANGED <<server, phase, fetch, overlapped>>

\* The server refuses the URL, or the request or its answer is lost: the error
\* is shown and neither the list nor polling changes.
PostFails ==
  /\ \/ post.stage = "sent"
     \/ post.stage = "answered" /\ Unreliable
  /\ post' = Idle
  /\ UNCHANGED <<server, page, fetch, overlapped>>

\* The user loads the page anew: its timers and requests are gone.
Reload ==
  /\ phase' = "loading"
  /\ shown' = <<>>
  /\ ref' = FALSE
  /\ intervals' = 0
  /\ fetch' = [f \in Fetches |-> Idle]
  /\ post' = Idle
  /\ overlapped' = FALSE
  /\ UNCHANGED server

-----------------------------------------------------------------------------

AnswerPost == (\E d \in Ids : ServePost(d)) \/ PostFails

Next ==
  \/ \E d \in Ids : Report(d) \/ AddElsewhere(d)
  \/ \E f \in Fetches : LoadChannel(f) \/ Tick(f) \/ ServeList(f) \/ ReceiveList(f) \/ FetchFails(f)
  \/ LoadFails \/ Submit \/ AnswerPost \/ ReceivePost \/ Reload

Spec == Init /\ [][Next]_vars

\* The browser runs due timers and arrived answers, and the backend answers
\* every request.  Fairness is strong where an action may be disabled again and
\* again: the timer fires however many requests are under way (the bound
\* Fetches is ours), and a network that may lose any answer does
\* not lose them all.  Nothing is assumed of users or of workers.
Fairness ==
  /\ SF_vars(\E f \in Fetches : Tick(f))
  /\ \A f \in Fetches : SF_vars(ServeList(f)) /\ SF_vars(ReceiveList(f))
  /\ WF_vars(AnswerPost)
  /\ WF_vars(ReceivePost)

FairSpec == Spec /\ Fairness

-----------------------------------------------------------------------------
(* Properties.                                                             *)

Polling == intervals > 0

\* However submits, answers and reloads follow each other, there is at most one
\* polling timer, and the page can still stop it.  (ChannelPage.tsx:45-60)
OneTimer == intervals <= 1 /\ (Polling <=> ref)

\* No list, shown or under way, shows a download the server does not have, or
\* one further on than it is.  (ChannelPage.tsx:44, ChannelPage.tsx:88)
NeverAhead ==
  \A entries \in {shown, post.entries} \union {fetch[f].entries : f \in Fetches} :
    \A i \in DOMAIN entries :
      /\ status[entries[i].id] # "absent"
      /\ Server!Rank[entries[i].status] <= Server!Rank[status[entries[i].id]]

\* Once every download has ended, polling comes to an end for good, though
\* answers from before may still arrive.  (ChannelPage.tsx:46-51)
AllEnded == \A d \in Ids : status[d] \in Final
PollingStops == AllEnded ~> [](~Polling)

\* As long as no two requests overlapped, a shown download never disappears from
\* the list nor goes back in it, unless the page is loaded anew, whatever is
\* lost on the way.  (ChannelPage.tsx:44, ChannelPage.tsx:88)
ShownAdvances ==
  [][phase' # "loading" /\ ~overlapped =>
       \A i \in DOMAIN shown : \E j \in DOMAIN shown' :
         /\ shown'[j].id = shown[i].id
         /\ Server!Rank[shown[i].status] <= Server!Rank[shown'[j].status]]_shown

\* As long as no two requests overlap, polling does its job, though it may lose
\* many of its requests: the end of a download that is shown as active while
\* polling is seen.  (ChannelPage.tsx:41-60)
Shows(d, S) == \E i \in DOMAIN shown : shown[i].id = d /\ shown[i].status \in S
EndIsShown ==
  \A d \in Ids :
    (Polling /\ Shows(d, Active) /\ status[d] \in Final) 
      ~> (Shows(d, Final) \/ phase = "loading" \/ overlapped)

-----------------------------------------------------------------------------
(* What the documentation and the comments say and the code does not do.   *)

\* docs/specification.md:407: the list is polled while a download is active.
\* Here: while no answer is awaited and an active download is on the screen.
PollsWhileActive ==
  (phase = "ready" /\ post = Idle /\ (\A f \in Fetches : fetch[f] = Idle) /\ SomeActive(shown))
    => Polling

\* ChannelPage.tsx:45: polling stops if no active downloads remain.  Here: none
\* of those on the screen at that moment.
StopsWhenNoneRemain ==
  [][Polling /\ intervals' = 0 /\ phase' = "ready" =>
       \A i \in DOMAIN shown : status[shown[i].id] \in Final]_intervals

=============================================================================
