------------------------- MODULE ChannelPageProofs -------------------------
(***************************************************************************)
(* Proofs about module ChannelPage, for any number of downloads and of     *)
(* requests under way, on a network that loses them or does not.           *)
(***************************************************************************)
EXTENDS ChannelPage, TLAPS

-----------------------------------------------------------------------------
(* What the server has, and what a list says of it.                        *)

Life == Active \union Final \union {"absent"}

\* The entries are of stored downloads, and no further on than these.
Behind(st, entries) ==
  \A i \in DOMAIN entries :
    /\ st[entries[i].id] # "absent"
    /\ Server!Rank[entries[i].status] <= Server!Rank[st[entries[i].id]]

\* The server after a step: no download disappears, and none goes back.
Later(st, next) ==
  \A d \in Ids : st[d] # "absent" =>
    next[d] # "absent" /\ Server!Rank[st[d]] <= Server!Rank[next[d]]

LEMMA RankIsNat == \A s \in Life : Server!Rank[s] \in Nat
<1>1. /\ Server!Rank["absent"] = 0 /\ Server!Rank["pending"] = 1 /\ Server!Rank["downloading"] = 2
      /\ Server!Rank["converting"] = 3 /\ Server!Rank["completed"] = 4 /\ Server!Rank["error"] = 4
  BY DEF Server!Rank
<1> QED BY <1>1 DEF Life, Active, Final

\* What the server promises of a step, module Lifecycle's two actions.
LEMMA ServerAdvances ==
  ASSUME status \in [Ids -> Life], NEW d \in Ids, Server!Register(d) \/ Server!Report(d)
  PROVE  /\ status' \in [Ids -> Life]
         /\ Later(status, status')
         /\ status'[d] # "absent"
         /\ \A e \in Ids \ {d} : status'[e] = status[e]
<1>1. CASE Server!Register(d)
  <2>1. status[d] = "absent" /\ status' = [status EXCEPT ![d] = "pending"]
    BY <1>1 DEF Server!Register
  <2>2. "pending" \in Life /\ \A e \in Ids : Server!Rank[status[e]] \in Nat
    BY RankIsNat DEF Life, Active
  <2> QED BY <2>1, <2>2 DEF Later
<1>2. CASE Server!Report(d)
  <2>1. PICK s \in {"downloading", "converting", "completed", "error"} :
          /\ status[d] # "absent"
          /\ Server!Rank[status[d]] < Server!Rank[s]
          /\ status' = [status EXCEPT ![d] = s]
    BY <1>2 DEF Server!Report
  <2>2. s \in Life /\ s # "absent" /\ \A e \in Ids : Server!Rank[status[e]] \in Nat
    BY RankIsNat DEF Life, Active, Final
  <2>3. Server!Rank[s] \in Nat
    BY <2>2, RankIsNat
  <2> QED BY <2>1, <2>2, <2>3 DEF Later
<1> QED BY <1>1, <1>2

\* A list that was right of the server stays right of it as downloads advance.
LEMMA StaysBehind ==
  ASSUME NEW st \in [Ids -> Life], NEW next \in [Ids -> Life], Later(st, next),
         NEW entries \in Seq(Entry), Behind(st, entries)
  PROVE  Behind(next, entries)
<1> SUFFICES ASSUME NEW i \in DOMAIN entries
             PROVE  /\ next[entries[i].id] # "absent"
                    /\ Server!Rank[entries[i].status] <= Server!Rank[next[entries[i].id]]
  BY DEF Behind
<1>1. entries[i] \in Entry
  OBVIOUS
<1>2. entries[i].id \in Ids /\ entries[i].status \in Life
  BY <1>1 DEF Entry, Life
<1>3. /\ Server!Rank[entries[i].status] \in Nat
      /\ Server!Rank[st[entries[i].id]] \in Nat
      /\ Server!Rank[next[entries[i].id]] \in Nat
  BY <1>2, RankIsNat
<1> QED BY <1>2, <1>3 DEF Behind, Later

\* What is put in front of a list moves its entries back, and no more.
LEMMA ConcatKeeps ==
  ASSUME NEW T, NEW a \in Seq(T), NEW b \in Seq(T), NEW i \in DOMAIN b
  PROVE  Len(a) + i \in DOMAIN (a \o b) /\ (a \o b)[Len(a) + i] = b[i]
<1>1. DOMAIN b = 1 .. Len(b) /\ Len(a) \in Nat /\ Len(b) \in Nat /\ i \in Int
  OBVIOUS
<1>2. a \o b \in Seq(T) /\ Len(a \o b) = Len(a) + Len(b)
  OBVIOUS
<1>3. DOMAIN (a \o b) = 1 .. Len(a) + Len(b)
  BY <1>2
<1>4. Len(a) + i \in 1 .. Len(a) + Len(b)
  BY <1>1
<1> QED BY <1>1, <1>3, <1>4

\* Two right lists, one after the other, are a right list.
LEMMA ConcatBehind ==
  ASSUME NEW st, NEW a \in Seq(Entry), NEW b \in Seq(Entry), Behind(st, a), Behind(st, b)
  PROVE  a \o b \in Seq(Entry) /\ Behind(st, a \o b)
<1>1. \A i \in DOMAIN (a \o b) :
        \/ i \in DOMAIN a /\ (a \o b)[i] = a[i]
        \/ i - Len(a) \in DOMAIN b /\ (a \o b)[i] = b[i - Len(a)]
  OBVIOUS
<1> QED BY <1>1 DEF Behind

-----------------------------------------------------------------------------
(* The inductive invariant: the three invariants of the page together.     *)
(* The timers can only be counted because there is at most one, and what   *)
(* a list says is only right because the table holds the stored downloads. *)

IInv == TypeOK /\ OneTimer /\ NeverAhead

\* Its parts, by what an action may change.
ServerOK == /\ status \in [Ids -> Life]
            /\ created \in Seq(Ids)
            /\ ToSet(created) = {d \in Ids : status[d] # "absent"}

TimersOK == ref \in BOOLEAN /\ intervals = IF ref THEN 1 ELSE 0

ListsOK == /\ shown \in Seq(Entry) /\ Behind(status, shown)
           /\ post \in Call /\ Behind(status, post.entries)
           /\ fetch \in [Fetches -> Call] /\ \A f \in Fetches : Behind(status, fetch[f].entries)

FlagsOK == phase \in {"loading", "ready", "notFound", "loadError"} /\ overlapped \in BOOLEAN

LEMMA IInvParts == IInv <=> ServerOK /\ TimersOK /\ ListsOK /\ FlagsOK
<1>1. NeverAhead <=> /\ Behind(status, shown) /\ Behind(status, post.entries)
                     /\ \A f \in Fetches : Behind(status, fetch[f].entries)
  BY DEF NeverAhead, Behind
<1>2. intervals \in Nat /\ ref \in BOOLEAN /\ OneTimer <=> TimersOK
  BY DEF OneTimer, Polling, TimersOK
<1> QED BY <1>1, <1>2 DEF IInv, TypeOK, ServerOK, TimersOK, ListsOK, FlagsOK, Life

LEMMA IInvPartsNext == ServerOK' /\ TimersOK' /\ ListsOK' /\ FlagsOK' => IInv'
BY IInvParts, PTL

\* A call with no entries says nothing.
LEMMA EmptyCalls == /\ Idle \in Call /\ Sent \in Call
                    /\ \A st : Behind(st, <<>>) /\ Behind(st, Idle.entries) /\ Behind(st, Sent.entries)
<1>1. <<>> \in Seq(Entry)
  OBVIOUS
<1> QED BY <1>1 DEF Idle, Sent, Call, Behind

LEMMA AnsweredCall ==
  ASSUME NEW entries \in Seq(Entry)
  PROVE  Answered(entries) \in Call /\ Answered(entries).entries = entries
BY DEF Answered, Call

LEMMA InvInit == Init => IInv
<1> SUFFICES ASSUME Init PROVE ServerOK /\ TimersOK /\ ListsOK /\ FlagsOK
  BY IInvParts
<1> USE DEF Init, OpenPage
<1>1. ServerOK
  BY DEF Server!Init, ServerOK, Life, ToSet
<1>2. TimersOK /\ FlagsOK
  BY DEF TimersOK, FlagsOK
<1>3. ListsOK
  BY EmptyCalls DEF ListsOK
<1> QED BY <1>1, <1>2, <1>3

-----------------------------------------------------------------------------
(* The steps of the server.                                                *)

\* Whatever happens to one download, the lists that exist stay right.
LEMMA ListsStay ==
  ASSUME ServerOK, ListsOK, status' \in [Ids -> Life], Later(status, status')
  PROVE  /\ Behind(status', shown) /\ Behind(status', post.entries)
         /\ \A f \in Fetches : Behind(status', fetch[f].entries)
<1>1. post.entries \in Seq(Entry) /\ \A f \in Fetches : fetch[f].entries \in Seq(Entry)
  BY DEF ListsOK, Call
<1> QED BY <1>1, StaysBehind DEF ServerOK, ListsOK

LEMMA InsertStep ==
  ASSUME ServerOK, NEW d \in Ids, Insert(d)
  PROVE  /\ ServerOK'
         /\ Later(status, status')
         /\ status'[d] = "pending"
<1>1. Server!Register(d) /\ created' = <<d>> \o created
  BY DEF Insert, Cons
<1>2. /\ status' \in [Ids -> Life] /\ Later(status, status')
      /\ \A e \in Ids \ {d} : status'[e] = status[e]
  BY <1>1, ServerAdvances DEF ServerOK
<1>3. status'[d] = "pending"
  BY <1>1 DEF Server!Register, ServerOK
<1>4. created' \in Seq(Ids)
  BY <1>1 DEF ServerOK
<1>5. ToSet(created') = {d} \union ToSet(created)
  <2>1. /\ Len(created') = Len(created) + 1 /\ created'[1] = d
        /\ \A i \in 1..Len(created) : created'[i+1] = created[i]
    BY <1>1 DEF ServerOK
  <2>2. DOMAIN created' = 1..Len(created)+1 /\ DOMAIN created = 1..Len(created)
    BY <2>1, <1>4 DEF ServerOK
  <2>3. \A i \in DOMAIN created' : i = 1 \/ (i - 1 \in DOMAIN created /\ created'[i] = created[i-1])
    BY <2>1, <2>2 DEF ServerOK
  <2>4. ToSet(created') \subseteq {d} \union ToSet(created)
    BY <2>1, <2>3 DEF ToSet
  <2>5. \A i \in DOMAIN created : i + 1 \in DOMAIN created' /\ created'[i+1] = created[i]
    BY <2>1, <2>2 DEF ServerOK
  <2>6. 1 \in DOMAIN created'
    BY <2>2 DEF ServerOK
  <2>7. {d} \union ToSet(created) \subseteq ToSet(created')
    BY <2>1, <2>5, <2>6 DEF ToSet
  <2> QED BY <2>4, <2>7
<1> QED BY <1>2, <1>3, <1>4, <1>5 DEF ServerOK

LEMMA ServerStep ==
  ASSUME IInv, NEW d \in Ids, Report(d) \/ AddElsewhere(d) \/ ServePost(d)
  PROVE  IInv'
<1>I. ServerOK /\ TimersOK /\ ListsOK /\ FlagsOK
  BY IInvParts
<1>1. ServerOK' /\ Later(status, status') /\ (Insert(d) => status'[d] = "pending")
  <2>1. CASE Insert(d)
    BY <2>1, <1>I, InsertStep
  <2>2. CASE Server!Report(d) /\ UNCHANGED created /\ ~Insert(d)
    <3>1. /\ status' \in [Ids -> Life] /\ Later(status, status') /\ status'[d] # "absent"
          /\ \A e \in Ids \ {d} : status'[e] = status[e]
      BY <2>2, <1>I, ServerAdvances DEF ServerOK
    <3>2. status[d] # "absent"
      BY <2>2 DEF Server!Report
    <3> QED BY <2>2, <3>1, <3>2, <1>I DEF ServerOK
  <2> QED BY <2>1, <2>2 DEF Report, AddElsewhere, ServePost
<1>2. TimersOK' /\ FlagsOK'
  BY <1>I DEF Report, AddElsewhere, ServePost, page, calls, TimersOK, FlagsOK
<1>3. /\ Behind(status', shown) /\ Behind(status', post.entries)
      /\ \A f \in Fetches : Behind(status', fetch[f].entries)
  BY <1>1, <1>I, ListsStay DEF ServerOK
<1>4. CASE Report(d) \/ AddElsewhere(d)
  <2>1. UNCHANGED <<shown, post, fetch>>
    BY <1>4 DEF Report, AddElsewhere, page, calls
  <2>2. ListsOK'
    BY <2>1, <1>3, <1>I DEF ListsOK
  <2> QED BY <1>1, <1>2, <2>2, IInvPartsNext
<1>5. CASE ServePost(d)
  <2> DEFINE answer == <<[id |-> d, status |-> "pending"]>>
  <2>1. UNCHANGED <<shown, fetch>> /\ post' = Answered(answer) /\ Insert(d)
    BY <1>5 DEF ServePost, page
  <2>2. answer \in Seq(Entry)
    BY DEF Entry, Active
  <2>3. Server!Rank["pending"] \in Nat
    BY RankIsNat DEF Life, Active
  <2>4. Behind(status', answer)
    BY <1>1, <2>1, <2>3 DEF Behind
  <2>5. ListsOK'
    BY <2>1, <2>2, <2>4, <1>3, <1>I, AnsweredCall DEF ListsOK
  <2> QED BY <1>1, <1>2, <2>5, IInvPartsNext
<1> QED BY <1>4, <1>5

LEMMA ServeListStep ==
  ASSUME IInv, NEW f \in Fetches, ServeList(f)
  PROVE  IInv'
<1> DEFINE entries == [i \in DOMAIN created |-> [id |-> created[i], status |-> status[created[i]]]]
<1>I. ServerOK /\ TimersOK /\ ListsOK /\ FlagsOK
  BY IInvParts
<1>1. /\ UNCHANGED <<status, created, phase, shown, ref, intervals, post, overlapped>>
      /\ fetch' = [fetch EXCEPT ![f] = Answered(entries)]
  BY DEF ServeList, server, page
<1>2. \A i \in DOMAIN created :
        created[i] \in Ids /\ status[created[i]] \in Active \union Final
  BY <1>I DEF ServerOK, ToSet, Life
<1>3. entries \in Seq(Entry)
  <2>1. Len(created) \in Nat /\ DOMAIN created = 1..Len(created)
    BY <1>I DEF ServerOK
  <2>2. entries \in [1..Len(created) -> Entry]
    BY <1>2, <2>1 DEF Entry
  <2> HIDE DEF entries
  <2> QED BY <2>1, <2>2
<1>4. Behind(status, entries)
  <2>1. \A s \in Active \union Final : s # "absent" /\ Server!Rank[s] \in Nat
    BY RankIsNat DEF Life, Active, Final
  <2> QED BY <1>2, <2>1 DEF Behind
<1> HIDE DEF entries
<1>5. ListsOK'
  BY <1>1, <1>3, <1>4, <1>I, AnsweredCall DEF ListsOK
<1>6. ServerOK' /\ TimersOK' /\ FlagsOK'
  BY <1>1, <1>I DEF ServerOK, TimersOK, FlagsOK
<1> QED BY <1>5, <1>6, IInvPartsNext

-----------------------------------------------------------------------------
(* The steps of the page: what each does to the timers, the flags and the  *)
(* lists.  None of them touches the server.                                *)

LEMMA PageStep ==
  ASSUME IInv, UNCHANGED server, TimersOK', FlagsOK', ListsOK'
  PROVE  IInv'
<1>1. ServerOK'
  BY IInvParts DEF server, ServerOK
<1> QED BY <1>1, IInvPartsNext

\* Starting a second time does nothing, and stopping leaves none.
LEMMA PollingSteps ==
  ASSUME TimersOK, StartPolling \/ StopPolling \/ UNCHANGED <<ref, intervals>>
  PROVE  TimersOK'
<1>1. ref \in BOOLEAN /\ ref' \in BOOLEAN
  BY Zenon DEF TimersOK, StartPolling, StopPolling
<1>2. CASE StartPolling
  <2>1. CASE ref = TRUE
    BY <1>2, <2>1 DEF TimersOK, StartPolling
  <2>2. CASE ref = FALSE
    BY <1>2, <2>2 DEF TimersOK, StartPolling
  <2> QED BY <1>1, <2>1, <2>2
<1>3. CASE StopPolling
  <2>1. CASE ref = TRUE
    <3>1. intervals = 1
      BY <2>1 DEF TimersOK
    <3>2. ref' = FALSE /\ intervals' = intervals - 1
      BY <1>3, <2>1 DEF StopPolling
    <3>3. intervals' = 0
      BY <3>1, <3>2
    <3> QED BY <3>2, <3>3 DEF TimersOK
  <2>2. CASE ref = FALSE
    BY <1>3, <2>2 DEF TimersOK, StopPolling
  <2> QED BY <1>1, <2>1, <2>2
<1>4. CASE UNCHANGED <<ref, intervals>>
  BY <1>4 DEF TimersOK
<1> QED BY <1>2, <1>3, <1>4

\* A fetch is sent, answered or given up: a call with these entries.
LEMMA FetchStep ==
  ASSUME ListsOK, UNCHANGED <<status, post>>, NEW f \in Fetches,
         shown' = shown \/ shown' = fetch[f].entries,
         fetch' = [fetch EXCEPT ![f] = Idle] \/ fetch' = [fetch EXCEPT ![f] = Sent]
  PROVE  ListsOK'
<1>1. fetch[f].entries \in Seq(Entry)
  BY DEF ListsOK, Call
<1>2. shown' \in Seq(Entry) /\ Behind(status, shown')
  BY <1>1 DEF ListsOK
<1> QED BY <1>2, EmptyCalls DEF ListsOK

LEMMA FetchActions ==
  ASSUME IInv, NEW f \in Fetches, LoadChannel(f) \/ Tick(f) \/ ReceiveList(f) \/ FetchFails(f)
  PROVE  IInv'
<1>I. ServerOK /\ TimersOK /\ ListsOK /\ FlagsOK
  BY IInvParts
<1>1. UNCHANGED server /\ UNCHANGED <<status, post>>
  BY DEF LoadChannel, Tick, ReceiveList, FetchFails, server, page
<1>2. FlagsOK'
  BY <1>I DEF LoadChannel, Tick, ReceiveList, FetchFails, SendFetch, NoteOverlap, page, FlagsOK
<1>3. TimersOK'
  <2>1. StopPolling \/ UNCHANGED <<ref, intervals>>
    BY DEF LoadChannel, Tick, ReceiveList, FetchFails, page
  <2> QED BY <2>1, <1>I, PollingSteps
<1>4. /\ shown' = shown \/ shown' = fetch[f].entries
      /\ fetch' = [fetch EXCEPT ![f] = Idle] \/ fetch' = [fetch EXCEPT ![f] = Sent]
  BY DEF LoadChannel, Tick, ReceiveList, FetchFails, SendFetch, page
<1> QED BY <1>I, <1>1, <1>2, <1>3, <1>4, FetchStep, PageStep

\* The new download goes on top of the list, or nothing is shown.
LEMMA PostActions ==
  ASSUME IInv, LoadFails \/ Submit \/ PostFails \/ ReceivePost \/ Reload
  PROVE  IInv'
<1>I. ServerOK /\ TimersOK /\ ListsOK /\ FlagsOK
  BY IInvParts
<1>1. UNCHANGED server /\ UNCHANGED status
  BY DEF LoadFails, Submit, PostFails, ReceivePost, Reload, server
<1>2. FlagsOK'
  BY <1>I DEF LoadFails, Submit, PostFails, ReceivePost, Reload, NoteOverlap, page, calls, FlagsOK
<1>3. TimersOK'
  <2>1. CASE Reload
    BY <2>1 DEF Reload, TimersOK
  <2>2. CASE ~Reload
    <3>1. StartPolling \/ UNCHANGED <<ref, intervals>>
      BY <2>2 DEF LoadFails, Submit, PostFails, ReceivePost, page
    <3> QED BY <3>1, <1>I, PollingSteps
  <2> QED BY <2>1, <2>2
<1>4. ListsOK'
  <2>1. CASE Reload
    BY <2>1, <1>1, EmptyCalls DEF Reload, ListsOK
  <2>2. CASE ReceivePost
    <3>1. post.entries \in Seq(Entry) /\ UNCHANGED fetch /\ post' = Idle /\ shown' = post.entries \o shown
      BY <2>2, <1>I DEF ReceivePost, ListsOK, Call
    <3>2. shown' \in Seq(Entry) /\ Behind(status, shown')
      BY <3>1, <1>I, ConcatBehind DEF ListsOK
    <3> QED BY <3>1, <3>2, <1>1, <1>I, EmptyCalls DEF ListsOK
  <2>3. CASE LoadFails \/ Submit \/ PostFails
    <3>1. UNCHANGED <<shown, fetch>> /\ (post' = post \/ post' = Idle \/ post' = Sent)
      BY <2>3 DEF LoadFails, Submit, PostFails, page, calls
    <3> QED BY <3>1, <1>1, <1>I, EmptyCalls DEF ListsOK
  <2> QED BY <2>1, <2>2, <2>3
<1> QED BY <1>1, <1>2, <1>3, <1>4, PageStep

-----------------------------------------------------------------------------
(* The theorems.                                                           *)

LEMMA InvStep == IInv /\ [Next]_vars => IInv'
<1> SUFFICES ASSUME IInv, [Next]_vars PROVE IInv'
  OBVIOUS
<1>1. ASSUME NEW d \in Ids, Report(d) \/ AddElsewhere(d) \/ ServePost(d)
      PROVE  IInv'
  BY <1>1, ServerStep
<1>2. ASSUME NEW f \in Fetches, ServeList(f)
      PROVE  IInv'
  BY <1>2, ServeListStep
<1>3. ASSUME NEW f \in Fetches, LoadChannel(f) \/ Tick(f) \/ ReceiveList(f) \/ FetchFails(f)
      PROVE  IInv'
  BY <1>3, FetchActions
<1>4. ASSUME LoadFails \/ Submit \/ PostFails \/ ReceivePost \/ Reload
      PROVE  IInv'
  BY <1>4, PostActions
<1>5. CASE UNCHANGED vars
  <2>1. ServerOK' /\ TimersOK' /\ ListsOK' /\ FlagsOK'
    BY <1>5, IInvParts DEF vars, server, page, calls, ServerOK, TimersOK, ListsOK, FlagsOK
  <2> QED BY <2>1, IInvPartsNext
<1> QED BY <1>1, <1>2, <1>3, <1>4, <1>5 DEF Next, AnswerPost

THEOREM Invariance == Spec => []IInv
<1> QED BY InvInit, InvStep, PTL DEF Spec

\* The page keeps well-formed lists, and the table behind it exactly the stored
\* downloads.  (ChannelPage.tsx:31-39)
THEOREM PageTypeCorrect == Spec => []TypeOK
<1>1. IInv => TypeOK
  BY DEF IInv
<1> QED BY <1>1, Invariance, PTL

\* There is never a second timer, and the one there is can be stopped, however
\* many requests overlap and get lost.  (ChannelPage.tsx:45-60)
THEOREM AtMostOneTimer == Spec => []OneTimer
<1>1. IInv => OneTimer
  BY DEF IInv
<1> QED BY <1>1, Invariance, PTL

\* However late and in whatever order answers arrive, no list is ahead of the
\* server.  (ChannelPage.tsx:44, ChannelPage.tsx:88)
THEOREM ListsNeverAhead == Spec => []NeverAhead
<1>1. IInv => NeverAhead
  BY DEF IInv
<1> QED BY <1>1, Invariance, PTL

-----------------------------------------------------------------------------
(* The list only advances, as long as no two requests overlap.  Then the   *)
(* one answer under way was given after everything on the screen, so that  *)
(* it covers it.                                                           *)

\* Each download of list a is in list b, and as far on.
Covered(a, b) ==
  \A i \in DOMAIN a : \E j \in DOMAIN b :
    b[j].id = a[i].id /\ Server!Rank[a[i].status] <= Server!Rank[b[j].status]

OneAtATime == \A f, g \in Fetches : fetch[f] # Idle => post = Idle /\ (g # f => fetch[g] = Idle)

AnswersCover == \A f \in Fetches : fetch[f].stage = "answered" => Covered(shown, fetch[f].entries)

Alone == ~overlapped => OneAtATime /\ AnswersCover

Stages == Idle.stage = "none" /\ Sent.stage = "sent" /\ Idle # Sent

LEMMA StagesDiffer == /\ Stages
                      /\ \A entries : Answered(entries).stage = "answered"
BY DEF Stages, Idle, Sent, Answered

\* Nothing is under way, or the request under way was given up or received.
LEMMA AllIdle ==
  ASSUME NEW f \in Fetches, fetch \in [Fetches -> Call],
         \A g \in Fetches : g # f => fetch[g] = Idle,
         fetch' = [fetch EXCEPT ![f] = Idle]
  PROVE  OneAtATime' /\ AnswersCover'
<1>1. \A g \in Fetches : fetch'[g] = Idle
  OBVIOUS
<1> QED BY <1>1, StagesDiffer DEF OneAtATime, AnswersCover, Stages

LEMMA AloneInit == Init => Alone
BY StagesDiffer DEF Init, OpenPage, Alone, OneAtATime, AnswersCover, Stages

\* The table has everything on the screen.
LEMMA TableCovers ==
  ASSUME IInv
  PROVE  Covered(shown, [i \in DOMAIN created |-> [id |-> created[i], status |-> status[created[i]]]])
<1> DEFINE entries == [i \in DOMAIN created |-> [id |-> created[i], status |-> status[created[i]]]]
<1>I. ServerOK /\ ListsOK
  BY IInvParts
<1> SUFFICES ASSUME NEW i \in DOMAIN shown
             PROVE  \E j \in DOMAIN entries :
                      /\ entries[j].id = shown[i].id
                      /\ Server!Rank[shown[i].status] <= Server!Rank[entries[j].status]
  BY DEF Covered
<1>1. shown[i] \in Entry
  BY <1>I DEF ListsOK
<1>2. /\ shown[i].id \in Ids /\ status[shown[i].id] # "absent"
      /\ Server!Rank[shown[i].status] <= Server!Rank[status[shown[i].id]]
  BY <1>1, <1>I DEF ListsOK, Behind, Entry
<1>3. PICK j \in DOMAIN created : created[j] = shown[i].id
  BY <1>2, <1>I DEF ServerOK, ToSet
<1> QED BY <1>2, <1>3

LEMMA AloneStep ==
  ASSUME IInv, Alone, [Next]_vars
  PROVE  Alone'
<1>I. fetch \in [Fetches -> Call] /\ overlapped \in BOOLEAN
  BY IInvParts DEF ListsOK, FlagsOK
<1> SUFFICES ASSUME ~overlapped' PROVE OneAtATime' /\ AnswersCover'
  BY DEF Alone
<1>1. ASSUME NEW d \in Ids, Report(d) \/ AddElsewhere(d)
      PROVE  OneAtATime' /\ AnswersCover'
  BY <1>1 DEF Report, AddElsewhere, page, calls, Alone, OneAtATime, AnswersCover
<1>2. ASSUME NEW d \in Ids, ServePost(d)
      PROVE  OneAtATime' /\ AnswersCover'
  <2>1. post # Idle /\ UNCHANGED <<shown, fetch, overlapped>>
    BY <1>2, StagesDiffer DEF ServePost, page, Stages
  <2>2. \A f \in Fetches : fetch[f] = Idle
    BY <2>1 DEF Alone, OneAtATime
  <2> QED BY <2>1, <2>2, StagesDiffer DEF OneAtATime, AnswersCover, Stages
<1>3. ASSUME NEW f \in Fetches, ServeList(f)
      PROVE  OneAtATime' /\ AnswersCover'
  <2> DEFINE entries == [i \in DOMAIN created |-> [id |-> created[i], status |-> status[created[i]]]]
  <2>1. /\ fetch[f] # Idle /\ UNCHANGED <<shown, post, overlapped>>
        /\ fetch' = [fetch EXCEPT ![f] = Answered(entries)]
    BY <1>3, StagesDiffer DEF ServeList, page, Stages
  <2>2. post = Idle /\ \A g \in Fetches : g # f => fetch[g] = Idle
    BY <2>1 DEF Alone, OneAtATime
  <2>3. Covered(shown, entries)
    BY TableCovers
  <2> HIDE DEF entries
  <2>4. Answered(entries).entries = entries
    BY DEF Answered
  <2> QED BY <1>I, <2>1, <2>2, <2>3, <2>4, StagesDiffer DEF OneAtATime, AnswersCover, Stages
<1>4. ASSUME NEW f \in Fetches, LoadChannel(f) \/ Tick(f)
      PROVE  OneAtATime' /\ AnswersCover'
  <2>1. SendFetch(f) /\ UNCHANGED post
    BY <1>4 DEF LoadChannel, Tick
  <2>2. post = Idle /\ (\A g \in Fetches : fetch[g] = Idle) /\ fetch' = [fetch EXCEPT ![f] = Sent]
    BY <2>1 DEF SendFetch, NoteOverlap
  <2> QED BY <1>I, <2>1, <2>2, StagesDiffer DEF OneAtATime, AnswersCover, Stages
<1>5. ASSUME NEW f \in Fetches, ReceiveList(f) \/ FetchFails(f)
      PROVE  OneAtATime' /\ AnswersCover'
  <2>1. fetch[f] # Idle /\ fetch' = [fetch EXCEPT ![f] = Idle] /\ UNCHANGED overlapped
    BY <1>5, StagesDiffer DEF ReceiveList, FetchFails, Stages
  <2>2. \A g \in Fetches : g # f => fetch[g] = Idle
    BY <2>1 DEF Alone, OneAtATime
  <2> QED BY <1>I, <2>1, <2>2, AllIdle
<1>6. ASSUME LoadFails \/ PostFails
      PROVE  OneAtATime' /\ AnswersCover'
  <2>1. UNCHANGED <<shown, fetch, overlapped>> /\ (post' = post \/ post' = Idle)
    BY <1>6 DEF LoadFails, PostFails, page, calls
  <2> QED BY <2>1 DEF Alone, OneAtATime, AnswersCover
<1>7. ASSUME Submit
      PROVE  OneAtATime' /\ AnswersCover'
  <2>1. (\A g \in Fetches : fetch[g] = Idle) /\ UNCHANGED fetch
    BY <1>7 DEF Submit, NoteOverlap
  <2> QED BY <2>1, StagesDiffer DEF OneAtATime, AnswersCover, Stages
<1>8. ASSUME ReceivePost
      PROVE  OneAtATime' /\ AnswersCover'
  <2>1. post # Idle /\ UNCHANGED <<fetch, overlapped>>
    BY <1>8, StagesDiffer DEF ReceivePost, Stages
  <2>2. \A g \in Fetches : fetch[g] = Idle
    BY <2>1 DEF Alone, OneAtATime
  <2> QED BY <2>1, <2>2, StagesDiffer DEF OneAtATime, AnswersCover, Stages
<1>9. ASSUME Reload
      PROVE  OneAtATime' /\ AnswersCover'
  BY <1>9, StagesDiffer DEF Reload, OneAtATime, AnswersCover, Stages
<1>10. CASE UNCHANGED vars
  BY <1>10 DEF vars, page, calls, Alone, OneAtATime, AnswersCover
<1> QED BY <1>1, <1>2, <1>3, <1>4, <1>5, <1>6, <1>7, <1>8, <1>9, <1>10 DEF Next, AnswerPost

\* What replaces the list covers it.
LEMMA ListStep ==
  ASSUME IInv, Alone, [Next]_vars, phase' # "loading", ~overlapped
  PROVE  shown' = shown \/ Covered(shown, shown')
<1>1. ASSUME NEW f \in Fetches, ReceiveList(f)
      PROVE  Covered(shown, shown')
  BY <1>1 DEF ReceiveList, Alone, AnswersCover
<1>2. ASSUME ReceivePost
      PROVE  Covered(shown, shown')
  <2>1. post.entries \in Seq(Entry) /\ shown \in Seq(Entry) /\ shown' = post.entries \o shown
    BY <1>2, IInvParts DEF ReceivePost, ListsOK, Call
  <2>2. ASSUME NEW i \in DOMAIN shown
        PROVE  Len(post.entries) + i \in DOMAIN shown' /\ shown'[Len(post.entries) + i] = shown[i]
    BY <2>1, <2>2, ConcatKeeps
  <2>3. ASSUME NEW i \in DOMAIN shown
        PROVE  Server!Rank[shown[i].status] \in Nat
    <3>1. shown[i] \in Entry
      BY <2>1, <2>3
    <3>2. shown[i].status \in Life
      BY <3>1 DEF Entry, Life
    <3> QED BY <3>2, RankIsNat
  <2> QED BY <2>2, <2>3 DEF Covered
<1>3. ASSUME NEW d \in Ids, Report(d) \/ AddElsewhere(d) \/ ServePost(d)
      PROVE  shown' = shown
  BY <1>3 DEF Report, AddElsewhere, ServePost, page
<1>4. ASSUME NEW f \in Fetches, LoadChannel(f) \/ Tick(f) \/ ServeList(f) \/ FetchFails(f)
      PROVE  shown' = shown
  BY <1>4 DEF LoadChannel, Tick, ServeList, FetchFails, page
<1>5. CASE LoadFails \/ Submit \/ PostFails \/ UNCHANGED vars
  BY <1>5 DEF LoadFails, Submit, PostFails, vars, page
<1>6. ~Reload
  BY DEF Reload
<1> QED BY <1>1, <1>2, <1>3, <1>4, <1>5, <1>6 DEF Next, AnswerPost

\* Without overlapping requests no download disappears from the list nor goes
\* back in it, whatever is lost.  (ChannelPage.tsx:44, ChannelPage.tsx:88)
THEOREM ListAdvances == Spec => ShownAdvances
<1>1. IInv /\ Alone /\ [Next]_vars =>
        [phase' # "loading" /\ ~overlapped =>
           \A i \in DOMAIN shown : \E j \in DOMAIN shown' :
             /\ shown'[j].id = shown[i].id
             /\ Server!Rank[shown[i].status] <= Server!Rank[shown'[j].status]]_shown
  BY ListStep DEF Covered
<1>2. IInv /\ Alone /\ [Next]_vars => Alone'
  BY AloneStep
<1> QED BY <1>1, <1>2, AloneInit, InvInit, InvStep, PTL DEF Spec, ShownAdvances

=============================================================================
