--------------------------- MODULE ServiceProofs ---------------------------
(***************************************************************************)
(* Proofs about module Service, for every set of ids, channels and texts   *)
(* and every set of faults.                                                *)
(***************************************************************************)
EXTENDS Service, TLAPS

-----------------------------------------------------------------------------
(* The statements of package db and the parameters they are given.         *)

\* What Run hands to its callback.
Update == [title : GoText(Titles), status : Statuses, progress : 0..100,
           filename : GoText(Filenames)]

\* The parameters of UpdateDownloadStatus.
UpdateParams == [title       : SqlText(Titles),
                 status      : Statuses,
                 progress    : 0..100,
                 filename    : SqlText(Filenames),
                 error       : SqlText(Failures),
                 completedAt : BOOLEAN]

\* nullString turns a Go text into a nullable one, and only "" into NULL.
LEMMA NullStringType ==
  /\ \A t \in GoText(Titles) : nullString(t) \in SqlText(Titles)
  /\ \A f \in GoText(Filenames) :
       nullString(f) \in SqlText(Filenames) /\ (nullString(f) = Null <=> f = "")
BY NullAssumption DEF GoText, SqlText, nullString

\* What Run reports has the type of the statement's parameters.
LEMMA CallbackParamsType ==
  ASSUME NEW u \in Update
  PROVE  CallbackParams(u) \in UpdateParams
<1>1. nullString(u.title) \in SqlText(Titles) /\ nullString(u.filename) \in SqlText(Filenames)
  BY NullStringType DEF Update
<1>2. completedAt(u.status) \in BOOLEAN
  BY DEF completedAt
<1>3. Null \in SqlText(Failures)
  BY DEF SqlText
<1> QED BY <1>1, <1>2, <1>3 DEF CallbackParams, Update, UpdateParams

LEMMA ErrorParamsType ==
  ASSUME NEW text \in Failures
  PROVE  ErrorParams(text) \in UpdateParams
BY DEF ErrorParams, UpdateParams, SqlText, Statuses, Terminal, completedAt

\* An insertion adds a fresh pending row and touches no other.
LEMMA InsertEffect ==
  ASSUME RowsTypeOK, NEW d \in Ids, NEW secret \in Secrets, CreateDownload(d, secret)
  PROVE  /\ RowsTypeOK'
         /\ \A e \in Ids \ {d} : rows'[e] = rows[e]
         /\ rows'[d] # Null
         /\ rows'[d].channel = secret
         /\ rows'[d].status = "pending"
         /\ RowShape(rows'[d])
<1> DEFINE r == [channel |-> secret, title |-> Null, status |-> "pending",
                 progress |-> 0, filename |-> Null, error |-> Null, completedAt |-> FALSE]
<1>1. r \in Row
  BY DEF Row, SqlText, Statuses, Active
<1>2. r # Null
  BY <1>1, NoRowAssumption
<1>3. RowShape(r)
  BY DEF RowShape, Terminal
<1>4. rows' = [rows EXCEPT ![d] = r]
  BY DEF CreateDownload
<1> HIDE DEF r
<1>5. rows'[d] = r /\ \A e \in Ids \ {d} : rows'[e] = rows[e]
  BY <1>4 DEF RowsTypeOK
<1>6. RowsTypeOK'
  BY <1>1, <1>4 DEF RowsTypeOK
<1> QED BY <1>2, <1>3, <1>5, <1>6 DEF r

\* An update stores its parameters in an existing row, or changes nothing.
LEMMA StoreEffect ==
  ASSUME RowsTypeOK, NEW d \in Ids, NEW u \in UpdateParams, Store(d, u)
  PROVE  /\ RowsTypeOK'
         /\ \A e \in Ids \ {d} : rows'[e] = rows[e]
         /\ \/ rows'[d] = rows[d]
            \/ /\ rows[d] # Null
               /\ rows'[d] # Null
               /\ rows'[d].channel = rows[d].channel
               /\ \A f \in {"title", "status", "progress", "filename", "error", "completedAt"} :
                    rows'[d][f] = u[f]
<1>1. CASE UNCHANGED rows
  BY <1>1 DEF RowsTypeOK
<1>2. CASE UpdateDownloadStatus(d, u) /\ rows[d] = Null
  BY <1>2 DEF RowsTypeOK, UpdateDownloadStatus
<1>3. CASE UpdateDownloadStatus(d, u) /\ rows[d] # Null
  <2> DEFINE r == [channel |-> rows[d].channel, title |-> u.title, status |-> u.status,
                   progress |-> u.progress, filename |-> u.filename,
                   error |-> u.error, completedAt |-> u.completedAt]
  <2>1. rows' = [rows EXCEPT ![d] = r]
    BY <1>3 DEF UpdateDownloadStatus
  <2>2. r \in Row
    BY <1>3 DEF RowsTypeOK, Row, UpdateParams
  <2>3. r # Null
    BY <2>2, NoRowAssumption
  <2>4. \A f \in {"title", "status", "progress", "filename", "error", "completedAt"} : r[f] = u[f]
    OBVIOUS
  <2>5. r.channel = rows[d].channel
    OBVIOUS
  <2> HIDE DEF r
  <2>6. rows'[d] = r /\ \A e \in Ids \ {d} : rows'[e] = rows[e]
    BY <2>1 DEF RowsTypeOK
  <2>7. RowsTypeOK'
    BY <2>1, <2>2 DEF RowsTypeOK
  <2> QED BY <1>3, <2>3, <2>4, <2>5, <2>6, <2>7
<1> QED BY <1>1, <1>2, <1>3 DEF Store


-----------------------------------------------------------------------------
(* Type correctness.                                                       *)


\* Run's locals start with the declared types,
LEMMA FreshRunType == \A pc \in {"idle", "spawned", "scanning", "returned"} : FreshRun(pc) \in RunState
BY DEF FreshRun, RunState, GoText

\* and hold what FreshRun says.
LEMMA FreshRunFields ==
  ASSUME NEW pc
  PROVE  /\ FreshRun(pc).pc = pc
         /\ FreshRun(pc).status = "downloading"
         /\ FreshRun(pc).filename = ""
BY DEF FreshRun

LEMMA TypeInit == Init => TypeOK
<1> SUFFICES ASSUME Init PROVE TypeOK
  OBVIOUS
<1>1. RowsTypeOK
  BY DEF Init, RowsInit, RowsTypeOK
<1>2. WorkerTypeOK
  BY FreshRunType DEF Init, WorkerInit, WorkerTypeOK, ProcessState
<1>3. request \in [Ids -> Request]
  BY DEF Init, Request, Stages, Answers, SqlText
<1> QED BY <1>1, <1>2, <1>3 DEF Init, TypeOK

\* Run reports its own locals.
LEMMA ProgressUpdateFields ==
  ASSUME NEW w \in RunState, NEW pct \in 0..100
  PROVE  /\ ProgressUpdate(w, pct) \in Update
         /\ ProgressUpdate(w, pct).status = w.status
         /\ ProgressUpdate(w, pct).filename = w.filename
BY DEF ProgressUpdate, Update, RunState, Statuses, Active

LEMMA CompletedUpdateFields ==
  ASSUME NEW w \in RunState
  PROVE  /\ CompletedUpdate(w) \in Update
         /\ CompletedUpdate(w).status = "completed"
         /\ CompletedUpdate(w).progress = 100
BY DEF CompletedUpdate, Update, RunState, Statuses, Terminal

-----------------------------------------------------------------------------
(* The inductive invariant.                                                *)

\* What holds of one download, as a relation between its row r, the state w of
\* its goroutine, its process p and its POST q.  Nothing relates two downloads,
\* so a step only has to be looked at where it acts.
Consistent(r, w, p, q) ==
  /\ r # Null => RowShape(r)
  /\ w.pc \in {"spawned", "scanning"} =>
       /\ r # Null /\ r.status \in Active
       /\ w.pc = "spawned" => r.status = "pending"
       /\ w.status = "downloading" => w.filename = "" /\ r.status # "converting"
       /\ w.status = "converting" => w.filename # ""
  /\ q.stage \in {"none", "inserting"} => r = Null
  /\ q.stage \in {"none", "inserting", "inserted"} => w.pc = "idle" /\ p = "none"
  /\ q.stage = "inserted" => r # Null /\ r.status = "pending"
  /\ q.stage \in {"inserted", "responding"} => r # Null /\ r.channel = q.secret
  /\ q.stage \in {"inserting", "inserted", "responding"} => q.secret \in Channels
  /\ q.answer = "accepted" => /\ q.stage = "done"
                     /\ r # Null /\ r.channel = q.secret /\ r.channel \in Channels

\* The conjunction of the invariants of module Service, download by download.
\* None of them is inductive alone: what is stored depends on the secret of the
\* request and on Run's locals, and whether a goroutine may write, on the row.
IInv == /\ TypeOK
        /\ \A d \in Ids : Consistent(rows[d], run[d], ytdlp[d], request[d])

LEMMA IInvIsConjunction ==
  IInv <=> /\ TypeOK
           /\ RowsWellFormed
           /\ WorkerOwnsLiveRow
           /\ AcceptedIsRegistered
           /\ RequestMatchesRow
           /\ RunMatchesRow
<1>1. ASSUME IInv
      PROVE  /\ TypeOK /\ RowsWellFormed /\ WorkerOwnsLiveRow /\ AcceptedIsRegistered
             /\ RequestMatchesRow /\ RunMatchesRow
  <2>1. TypeOK /\ RowsWellFormed
    BY <1>1 DEF IInv, Consistent, RowsWellFormed
  <2>2. WorkerOwnsLiveRow
    BY <1>1 DEF IInv, Consistent, WorkerOwnsLiveRow, Working
  <2>3. AcceptedIsRegistered
    BY <1>1 DEF IInv, Consistent, AcceptedIsRegistered, TypeOK, Request
  <2>4. RequestMatchesRow
    BY <1>1 DEF IInv, Consistent, RequestMatchesRow, TypeOK, Request
  <2>5. RunMatchesRow
    BY <1>1 DEF IInv, Consistent, RunMatchesRow, Working
  <2> QED BY <2>1, <2>2, <2>3, <2>4, <2>5
<1>2. ASSUME TypeOK, RowsWellFormed, WorkerOwnsLiveRow, AcceptedIsRegistered,
             RequestMatchesRow, RunMatchesRow
      PROVE  IInv
  <2> SUFFICES ASSUME NEW d \in Ids
               PROVE  Consistent(rows[d], run[d], ytdlp[d], request[d])
    BY <1>2 DEF IInv
  <2> QED BY <1>2 DEF Consistent, RowsWellFormed, WorkerOwnsLiveRow, AcceptedIsRegistered,
                      RequestMatchesRow, RunMatchesRow, Working, TypeOK, Request
<1> QED BY <1>1, <1>2

\* A request that proceeds or is answered changes in its stage and answer only.
LEMMA ProceedEffect ==
  ASSUME TypeOK, NEW d \in Ids, NEW from, NEW to \in Stages, Proceed(d, from, to)
  PROVE  /\ request' \in [Ids -> Request]
         /\ \A e \in Ids \ {d} : request'[e] = request[e]
         /\ request[d].stage = from /\ request'[d].stage = to
         /\ request'[d].secret = request[d].secret
         /\ request'[d].answer = request[d].answer
BY DEF TypeOK, Request, Proceed

LEMMA AnswerEffect ==
  ASSUME TypeOK, NEW d \in Ids, NEW from, NEW answer \in {"accepted", "failed"}, Answer(d, from, answer)
  PROVE  /\ request' \in [Ids -> Request]
         /\ \A e \in Ids \ {d} : request'[e] = request[e]
         /\ request[d].stage = from /\ request'[d].stage = "done"
         /\ request'[d].secret = request[d].secret
         /\ request'[d].answer = answer
BY DEF TypeOK, Request, Stages, Answers, Answer

LEMMA InvInit == Init => IInv
<1> SUFFICES ASSUME Init PROVE IInv
  OBVIOUS
<1>1. TypeOK
  BY TypeInit
<1>2. ASSUME NEW d \in Ids
      PROVE  Consistent(rows[d], run[d], ytdlp[d], request[d])
  BY DEF Init, RowsInit, WorkerInit, FreshRun, Consistent
<1> QED BY <1>1, <1>2 DEF IInv

\* A step on download d keeps the invariant if it is well typed, leaves the
\* state of the others alone and leaves the state of d consistent.
LEMMA StepOnOne ==
  ASSUME IInv, TypeOK', NEW d \in Ids,
         \A e \in Ids \ {d} : /\ rows'[e] = rows[e] /\ run'[e] = run[e]
                              /\ ytdlp'[e] = ytdlp[e] /\ request'[e] = request[e],
         Consistent(rows'[d], run'[d], ytdlp'[d], request'[d])
  PROVE  IInv'
BY DEF IInv

\* Run has failed: storing its error ends the download, or nothing is stored and
\* nobody works on it any more.
LEMMA ErrorStep ==
  ASSUME IInv, NEW d \in Ids, NEW text \in Failures, Working(d), StoreError(d, text),
         UNCHANGED <<ytdlp, up, request>>,
         run' \in [Ids -> RunState],
         \A e \in Ids \ {d} : run'[e] = run[e],
         run'[d].pc = "returned"
  PROVE  IInv'
<1>1. TypeOK /\ Consistent(rows[d], run[d], ytdlp[d], request[d])
  BY DEF IInv
<1>2. /\ RowsTypeOK'
      /\ \A e \in Ids \ {d} : rows'[e] = rows[e]
      /\ \/ rows'[d] = rows[d]
         \/ /\ rows[d] # Null
            /\ rows'[d] # Null
            /\ rows'[d].channel = rows[d].channel
            /\ \A f \in {"title", "status", "progress", "filename", "error", "completedAt"} :
                 rows'[d][f] = ErrorParams(text)[f]
  BY <1>1, StoreEffect, ErrorParamsType DEF StoreError, TypeOK
<1>3. TypeOK'
  BY <1>1, <1>2 DEF TypeOK, WorkerTypeOK
<1>4. request'[d].stage \notin {"none", "inserting", "inserted"}
  BY <1>1 DEF Consistent, Working
<1>5. CASE rows'[d] = rows[d]
  BY <1>1, <1>2, <1>3, <1>4, <1>5, StepOnOne DEF Consistent
<1>6. CASE rows'[d] # rows[d]
  <2>1. /\ rows[d] # Null /\ rows'[d] # Null /\ rows'[d].channel = rows[d].channel
        /\ rows'[d].status = "error" /\ rows'[d].progress = 0
        /\ rows'[d].title = Null /\ rows'[d].filename = Null
        /\ rows'[d].error = text /\ rows'[d].completedAt
    BY <1>2, <1>6 DEF ErrorParams, completedAt
  <2>2. text # Null
    BY NullAssumption
  <2>3. RowShape(rows'[d])
    BY <2>1, <2>2 DEF RowShape, Terminal
  <2>4. Consistent(rows'[d], run'[d], ytdlp'[d], request'[d])
    BY <1>1, <1>4, <2>1, <2>3 DEF Consistent
  <2> QED BY <1>2, <1>3, <2>4, StepOnOne
<1> QED BY <1>5, <1>6

\* Run reports u: if u does not take the row back and carries what its status
\* calls for, the invariant holds whether u is stored or lost.
LEMMA CallbackStep ==
  ASSUME IInv, NEW d \in Ids, NEW u \in Update, Working(d), Callback(d, u),
         UNCHANGED <<ytdlp, up, request>>,
         run' \in [Ids -> RunState],
         \A e \in Ids \ {d} : run'[e] = run[e],
         \/ /\ u.status \in {"downloading", "converting"}
            /\ u.status = "downloading" => u.filename = "" /\ run[d].status = "downloading"
            /\ u.status = "converting" => u.filename # ""
            /\ run'[d].pc = "scanning"
            /\ run'[d].status = u.status /\ run'[d].filename = u.filename
         \/ /\ u.status = "completed" /\ u.progress = 100
            /\ run'[d].pc = "returned"
  PROVE  IInv'
<1>1. TypeOK /\ Consistent(rows[d], run[d], ytdlp[d], request[d])
  BY DEF IInv
<1>2. /\ RowsTypeOK'
      /\ \A e \in Ids \ {d} : rows'[e] = rows[e]
      /\ \/ rows'[d] = rows[d]
         \/ /\ rows[d] # Null
            /\ rows'[d] # Null
            /\ rows'[d].channel = rows[d].channel
            /\ \A f \in {"title", "status", "progress", "filename", "error", "completedAt"} :
                 rows'[d][f] = CallbackParams(u)[f]
  BY <1>1, StoreEffect, CallbackParamsType DEF Callback, TypeOK
<1>3. TypeOK'
  BY <1>1, <1>2 DEF TypeOK, WorkerTypeOK
<1>4. request'[d].stage \notin {"none", "inserting", "inserted"}
  BY <1>1 DEF Consistent, Working
<1>5. CASE rows'[d] = rows[d]
  BY <1>1, <1>2, <1>3, <1>4, <1>5, StepOnOne DEF Consistent, Working
<1>6. CASE rows'[d] # rows[d]
  <2>1. /\ rows[d] # Null /\ rows'[d] # Null /\ rows'[d].channel = rows[d].channel
        /\ rows'[d].status = u.status /\ rows'[d].progress = u.progress
        /\ rows'[d].filename = nullString(u.filename) /\ rows'[d].error = Null
        /\ rows'[d].completedAt = completedAt(u.status)
    BY <1>2, <1>6 DEF CallbackParams
  <2>2. nullString(u.filename) = Null <=> u.filename = ""
    BY NullStringType DEF Update
  <2>3. RowShape(rows'[d])
    BY <2>1, <2>2 DEF RowShape, Terminal, completedAt
  <2>4. Consistent(rows'[d], run'[d], ytdlp'[d], request'[d])
    BY <1>1, <1>4, <2>1, <2>3 DEF Consistent, Active
  <2> QED BY <1>2, <1>3, <2>4, StepOnOne
<1> QED BY <1>5, <1>6

\* One step per action: its type, what it leaves alone, and what it does.
LEMMA InvStep == IInv /\ [Next]_vars => IInv'
<1> SUFFICES ASSUME IInv, [Next]_vars PROVE IInv'
  OBVIOUS
<1>T. TypeOK
  BY DEF IInv
<1>C. ASSUME NEW d \in Ids PROVE Consistent(rows[d], run[d], ytdlp[d], request[d])
  BY DEF IInv
<1>1. ASSUME NEW d \in Ids, NEW secret \in Secrets, NEW answer \in {"badRequest", "notFound"},
             RefusePost(d, secret, answer)
      PROVE  IInv'
  <2>1. TypeOK'
    BY <1>1, <1>T DEF RefusePost, TypeOK, RowsTypeOK, WorkerTypeOK, Request, Stages, Answers,
                SqlText
  <2>2. Consistent(rows'[d], run'[d], ytdlp'[d], request'[d])
    BY <1>1, <1>T, <1>C DEF RefusePost, TypeOK, Consistent
  <2> QED BY <1>1, <1>T, <2>1, <2>2, StepOnOne DEF RefusePost, TypeOK
<1>2. ASSUME NEW d \in Ids, NEW secret \in Secrets, AcceptPost(d, secret)
      PROVE  IInv'
  <2>1. TypeOK'
    BY <1>2, <1>T DEF AcceptPost, TypeOK, RowsTypeOK, WorkerTypeOK, Request, Stages, Answers,
                SqlText
  <2>2. Consistent(rows'[d], run'[d], ytdlp'[d], request'[d])
    BY <1>2, <1>T, <1>C DEF AcceptPost, TypeOK, Consistent
  <2> QED BY <1>2, <1>T, <2>1, <2>2, StepOnOne DEF AcceptPost, TypeOK
<1>3. ASSUME NEW d \in Ids, InsertRow(d)
      PROVE  IInv'
  <2>1. Proceed(d, "inserting", "inserted") /\ UNCHANGED <<run, ytdlp, up>>
    BY <1>3 DEF InsertRow
  <2>2. /\ request' \in [Ids -> Request]
        /\ \A e \in Ids \ {d} : request'[e] = request[e]
        /\ request[d].stage = "inserting" /\ request'[d].stage = "inserted"
        /\ request'[d].secret = request[d].secret /\ request'[d].answer = request[d].answer
    BY <2>1, <1>T, ProceedEffect DEF Stages
  <2>3. request[d].secret \in Channels /\ request[d].secret \in Secrets
    BY <2>2, <1>C, ChannelAssumption DEF Consistent
  <2>4. /\ RowsTypeOK'
        /\ \A e \in Ids \ {d} : rows'[e] = rows[e]
        /\ rows'[d] # Null /\ rows'[d].channel = request[d].secret
        /\ rows'[d].status = "pending" /\ RowShape(rows'[d])
    BY <1>3, <1>T, <2>3, InsertEffect DEF InsertRow, TypeOK
  <2>5. TypeOK'
    BY <1>T, <2>1, <2>2, <2>4 DEF TypeOK, WorkerTypeOK
  <2>6. Consistent(rows'[d], run'[d], ytdlp'[d], request'[d])
    BY <1>C, <2>1, <2>2, <2>3, <2>4 DEF Consistent
  <2> QED BY <2>1, <2>2, <2>4, <2>5, <2>6, StepOnOne
<1>4. ASSUME NEW d \in Ids, InsertFails(d)
      PROVE  IInv'
  <2>1. Answer(d, "inserting", "failed") /\ UNCHANGED <<run, ytdlp, up>>
    BY <1>4 DEF InsertFails
  <2>2. /\ request' \in [Ids -> Request]
        /\ \A e \in Ids \ {d} : request'[e] = request[e]
        /\ request[d].stage = "inserting" /\ request'[d].stage = "done"
        /\ request'[d].answer = "failed"
    BY <2>1, <1>T, AnswerEffect
  <2>3. request[d].secret \in Secrets
    BY <2>2, <1>C, ChannelAssumption DEF Consistent
  <2>4. /\ RowsTypeOK'
        /\ \A e \in Ids \ {d} : rows'[e] = rows[e]
        /\ rows'[d] # Null => RowShape(rows'[d])
    <3>1. CASE UNCHANGED rows
      BY <3>1, <1>T, <1>C DEF TypeOK, RowsTypeOK, Consistent
    <3>2. CASE CreateDownload(d, request[d].secret)
      BY <3>2, <1>T, <2>3, InsertEffect DEF TypeOK
    <3> QED BY <1>4, <3>1, <3>2 DEF InsertFails
  <2>5. TypeOK'
    BY <1>T, <2>1, <2>2, <2>4 DEF TypeOK, WorkerTypeOK
  <2>6. Consistent(rows'[d], run'[d], ytdlp'[d], request'[d])
    BY <1>C, <2>1, <2>2, <2>4 DEF Consistent
  <2> QED BY <2>1, <2>2, <2>4, <2>5, <2>6, StepOnOne
<1>5. ASSUME NEW d \in Ids, StartGoroutine(d)
      PROVE  IInv'
  <2>1. Proceed(d, "inserted", "responding") /\ UNCHANGED <<rows, ytdlp, up>>
    BY <1>5 DEF StartGoroutine, Spawn
  <2>2. /\ request' \in [Ids -> Request]
        /\ \A e \in Ids \ {d} : request'[e] = request[e]
        /\ request[d].stage = "inserted" /\ request'[d].stage = "responding"
        /\ request'[d].secret = request[d].secret /\ request'[d].answer = request[d].answer
    BY <2>1, <1>T, ProceedEffect DEF Stages
  <2>3. /\ run' \in [Ids -> RunState]
        /\ \A e \in Ids \ {d} : run'[e] = run[e]
        /\ run'[d] = FreshRun("spawned")
    BY <1>5, <1>T, FreshRunType DEF StartGoroutine, Spawn, TypeOK, WorkerTypeOK
  <2>4. TypeOK'
    BY <1>T, <2>1, <2>2, <2>3 DEF TypeOK, RowsTypeOK, WorkerTypeOK
  <2>5. run'[d].pc = "spawned" /\ run'[d].status = "downloading" /\ run'[d].filename = ""
    BY <2>3, FreshRunFields
  <2>6. /\ rows[d] # Null /\ RowShape(rows[d]) /\ rows[d].status = "pending"
        /\ rows[d].channel = request[d].secret /\ request[d].secret \in Channels
        /\ request[d].answer # "accepted"
    BY <1>C, <2>2 DEF Consistent
  <2>7. Consistent(rows'[d], run'[d], ytdlp'[d], request'[d])
    BY <2>1, <2>2, <2>5, <2>6 DEF Active, Consistent
  <2> QED BY <2>1, <2>2, <2>3, <2>4, <2>7, StepOnOne
<1>6. ASSUME NEW d \in Ids, Respond(d)
      PROVE  IInv'
  <2>1. Answer(d, "responding", "accepted") /\ UNCHANGED <<rows, run, ytdlp, up>>
    BY <1>6 DEF Respond
  <2>2. /\ request' \in [Ids -> Request]
        /\ \A e \in Ids \ {d} : request'[e] = request[e]
        /\ request[d].stage = "responding" /\ request'[d].stage = "done"
        /\ request'[d].secret = request[d].secret /\ request'[d].answer = "accepted"
    BY <2>1, <1>T, AnswerEffect
  <2>3. TypeOK'
    BY <1>T, <2>1, <2>2 DEF TypeOK, RowsTypeOK, WorkerTypeOK
  <2>4. Consistent(rows'[d], run'[d], ytdlp'[d], request'[d])
    BY <1>C, <2>1, <2>2 DEF Consistent
  <2> QED BY <2>1, <2>2, <2>3, <2>4, StepOnOne
<1>7. ASSUME NEW d \in Ids, LaunchYtdlp(d)
      PROVE  IInv'
  <2>1. UNCHANGED <<rows, up, request>>
    BY <1>7 DEF LaunchYtdlp
  <2>2. /\ WorkerTypeOK'
        /\ \A e \in Ids \ {d} : run'[e] = run[e] /\ ytdlp'[e] = ytdlp[e]
        /\ run[d].pc = "spawned" /\ run'[d].pc = "scanning"
        /\ run'[d].status = run[d].status /\ run'[d].filename = run[d].filename
    BY <1>7, <1>T DEF LaunchYtdlp, StartProcess, TypeOK, WorkerTypeOK, RunState, ProcessState
  <2>3. TypeOK'
    BY <1>T, <2>1, <2>2 DEF TypeOK, RowsTypeOK
  <2>4. Consistent(rows'[d], run'[d], ytdlp'[d], request'[d])
    BY <1>C, <2>1, <2>2 DEF Consistent
  <2> QED BY <2>1, <2>2, <2>3, <2>4, StepOnOne
<1>8. ASSUME NEW d \in Ids, LaunchFails(d)
      PROVE  IInv'
  <2>1. StoreError(d, "start yt-dlp") /\ UNCHANGED <<ytdlp, up, request>> /\ run[d].pc = "spawned"
    BY <1>8 DEF LaunchFails, StartFails
  <2>2. /\ run' \in [Ids -> RunState]
        /\ \A e \in Ids \ {d} : run'[e] = run[e]
        /\ run'[d] = FreshRun("returned")
    BY <1>8, <1>T, FreshRunType DEF LaunchFails, StartFails, TypeOK, WorkerTypeOK
  <2>3. run'[d].pc = "returned" /\ Working(d)
    BY <2>1, <2>2, FreshRunFields DEF Working
  <2> QED BY <2>1, <2>2, <2>3, ErrorStep DEF Failures
<1>9. ASSUME NEW d \in Ids, Errs(d)
      PROVE  IInv'
  <2>1. /\ StoreError(d, "yt-dlp exited with error")
        /\ UNCHANGED <<ytdlp, up, request>> /\ run[d].pc = "scanning"
    BY <1>9 DEF Errs, WaitReturns
  <2>2. /\ run' \in [Ids -> RunState]
        /\ \A e \in Ids \ {d} : run'[e] = run[e]
        /\ run'[d] = FreshRun("returned")
    BY <1>9, <1>T, FreshRunType DEF Errs, WaitReturns, TypeOK, WorkerTypeOK
  <2>3. run'[d].pc = "returned" /\ Working(d)
    BY <2>1, <2>2, FreshRunFields DEF Working
  <2> QED BY <2>1, <2>2, <2>3, ErrorStep DEF Failures
<1>10. ASSUME NEW d \in Ids, NEW pct \in Percentages, ProgressLine(d, pct)
       PROVE  IInv'
  <2> DEFINE u == ProgressUpdate(run[d], pct)
  <2>1. /\ Callback(d, u) /\ UNCHANGED <<run, ytdlp, up, request>>
        /\ run[d].pc = "scanning"
    BY <1>10 DEF ProgressLine, ReadProgress
  <2>2. run \in [Ids -> RunState] /\ run[d].status \in {"downloading", "converting"}
    BY <1>T DEF TypeOK, WorkerTypeOK, RunState
  <2>3. u \in Update /\ u.status = run[d].status /\ u.filename = run[d].filename
    BY <2>2, ProgressUpdateFields, PercentAssumption
  <2>4. /\ run[d].status = "downloading" => run[d].filename = ""
        /\ run[d].status = "converting" => run[d].filename # ""
        /\ Working(d)
    BY <1>C, <2>1 DEF Consistent, Working
  <2> HIDE DEF u
  <2> QED BY <2>1, <2>2, <2>3, <2>4, CallbackStep
<1>11. ASSUME NEW d \in Ids, NEW title \in Titles, DestinationLine(d, title)
       PROVE  IInv'
  <2>1. UNCHANGED <<rows, ytdlp, up, request>>
    BY <1>11 DEF DestinationLine, ReadDestination
  <2>2. /\ WorkerTypeOK'
        /\ \A e \in Ids \ {d} : run'[e] = run[e]
        /\ run'[d].pc = run[d].pc
        /\ run'[d].status = run[d].status /\ run'[d].filename = run[d].filename
    BY <1>11, <1>T DEF DestinationLine, ReadDestination, TypeOK, WorkerTypeOK, RunState, GoText
  <2>3. TypeOK'
    BY <1>T, <2>1, <2>2 DEF TypeOK, RowsTypeOK
  <2>4. Consistent(rows'[d], run'[d], ytdlp'[d], request'[d])
    BY <1>C, <2>1, <2>2 DEF Consistent
  <2> QED BY <2>1, <2>2, <2>3, <2>4, StepOnOne
<1>12. ASSUME NEW d \in Ids, NEW filename \in Filenames, ExtractAudioLine(d, filename)
       PROVE  IInv'
  <2> DEFINE u == ProgressUpdate(run'[d], 99)
  <2>1. /\ Callback(d, u) /\ UNCHANGED <<ytdlp, up, request>>
        /\ run[d].pc = "scanning"
    BY <1>12 DEF ExtractAudioLine, ReadExtractAudio
  <2>2. /\ run' \in [Ids -> RunState]
        /\ \A e \in Ids \ {d} : run'[e] = run[e]
        /\ run'[d] \in RunState
        /\ run'[d].pc = "scanning" /\ run'[d].status = "converting"
        /\ run'[d].filename = filename
    BY <1>12, <1>T DEF ExtractAudioLine, ReadExtractAudio, TypeOK, WorkerTypeOK, RunState, GoText
  <2>3. u \in Update /\ u.status = run'[d].status /\ u.filename = run'[d].filename
    BY <2>2, ProgressUpdateFields
  <2>4. filename # "" /\ Working(d)
    BY <2>1, NullAssumption DEF Working
  <2> HIDE DEF u
  <2> QED BY <2>1, <2>2, <2>3, <2>4, CallbackStep
<1>13. ASSUME NEW d \in Ids, Completes(d)
       PROVE  IInv'
  <2> DEFINE u == CompletedUpdate(run[d])
  <2>1. /\ Callback(d, u) /\ UNCHANGED <<ytdlp, up, request>>
        /\ run[d].pc = "scanning"
    BY <1>13 DEF Completes, WaitReturns
  <2>2. /\ run' \in [Ids -> RunState]
        /\ \A e \in Ids \ {d} : run'[e] = run[e]
        /\ run'[d] = FreshRun("returned")
    BY <1>13, <1>T, FreshRunType DEF Completes, WaitReturns, TypeOK, WorkerTypeOK
  <2>3. u \in Update /\ u.status = "completed" /\ u.progress = 100
    BY <1>T, CompletedUpdateFields DEF TypeOK, WorkerTypeOK
  <2>4. run'[d].pc = "returned" /\ Working(d)
    BY <2>1, <2>2, FreshRunFields DEF Working
  <2> HIDE DEF u
  <2> QED BY <2>1, <2>2, <2>3, <2>4, CallbackStep
<1>14. ASSUME NEW d \in Ids, YtdlpExits(d)
       PROVE  IInv'
  <2>1. UNCHANGED <<rows, run, up, request>> /\ ytdlp[d] = "running"
    BY <1>14 DEF YtdlpExits, ProcessExits
  <2>2. WorkerTypeOK' /\ \A e \in Ids \ {d} : ytdlp'[e] = ytdlp[e]
    BY <1>14, <1>T DEF YtdlpExits, ProcessExits, TypeOK, WorkerTypeOK, ProcessState
  <2>3. TypeOK'
    BY <1>T, <2>1, <2>2 DEF TypeOK, RowsTypeOK
  <2>4. Consistent(rows'[d], run'[d], ytdlp'[d], request'[d])
    BY <1>C, <2>1 DEF Consistent
  <2> QED BY <2>1, <2>2, <2>3, <2>4, StepOnOne
<1>15. ASSUME Crash
       PROVE  IInv'
  <2>1. /\ UNCHANGED rows /\ up' \in BOOLEAN
        /\ run' \in [Ids -> RunState] /\ ytdlp' \in [Ids -> ProcessState]
        /\ \A d \in Ids : run'[d] = FreshRun("idle") /\ ytdlp'[d] = "none"
    BY <1>15, FreshRunType DEF Crash, ProcessState
  <2>2. /\ request' \in [Ids -> Request]
        /\ \A d \in Ids : /\ \/ request[d].stage = "none" /\ request'[d].stage = "none"
                             \/ request'[d].stage = "done"
                          /\ request'[d].secret = request[d].secret
                          /\ request'[d].answer = request[d].answer
    BY <1>15, <1>T DEF Crash, TypeOK, Request, Stages
  <2>3. TypeOK'
    BY <1>T, <2>1, <2>2 DEF TypeOK, RowsTypeOK, WorkerTypeOK
  <2>4. ASSUME NEW d \in Ids PROVE Consistent(rows'[d], run'[d], ytdlp'[d], request'[d])
    <3>1. run'[d].pc = "idle" /\ ytdlp'[d] = "none" /\ rows'[d] = rows[d]
      BY <2>1, FreshRunFields
    <3>2. /\ Consistent(rows[d], run[d], ytdlp[d], request[d])
          /\ request'[d].secret = request[d].secret
          /\ request'[d].answer = request[d].answer
      BY <1>C, <2>2
    <3>3. CASE request[d].stage = "none" /\ request'[d].stage = "none"
      BY <3>1, <3>2, <3>3 DEF Consistent
    <3>4. CASE request'[d].stage = "done"
      BY <3>1, <3>2, <3>4 DEF Consistent
    <3> QED BY <2>2, <3>3, <3>4
  <2> QED BY <2>3, <2>4 DEF IInv
<1>16. CASE Restart
  <2>1. TypeOK'
    BY <1>16, <1>T DEF Restart, TypeOK, RowsTypeOK, WorkerTypeOK
  <2> QED BY <1>16, <1>C, <2>1 DEF Restart, IInv
<1>17. CASE UNCHANGED vars
  <2>1. TypeOK'
    BY <1>17, <1>T DEF vars, TypeOK, RowsTypeOK, WorkerTypeOK
  <2> QED BY <1>17, <1>C, <2>1 DEF vars, IInv
<1> QED
  BY <1>1, <1>2, <1>3, <1>4, <1>5, <1>6, <1>7, <1>8, <1>9, <1>10, <1>11, <1>12, <1>13, <1>14,
     <1>15, <1>16, <1>17 DEF Next, ReceivePost, HandlePost, StartOrWait, ReadLine

-----------------------------------------------------------------------------
(* The theorems.                                                           *)

THEOREM Invariance == Spec => []IInv
<1>1. Init => IInv
  BY InvInit
<1>2. IInv /\ [Next]_vars => IInv'
  BY InvStep
<1> QED BY <1>1, <1>2, PTL DEF Spec

\* Every variable keeps its type: in particular what reaches the table is what
\* schema.sql and the enum of the API allow.  (service.go:79-100, worker.go:82-136)
THEOREM TypeCorrect == Spec => []TypeOK
<1>1. IInv => TypeOK
  BY DEF IInv
<1> QED BY <1>1, Invariance, PTL

\* Every row has the shape of its status, whichever writes are lost and
\* whenever the process dies.  (service.go:78-103)
THEOREM RowsStayWellFormed == Spec => []RowsWellFormed
<1>1. IInv => RowsWellFormed
  BY IInvIsConjunction
<1> QED BY <1>1, Invariance, PTL

\* A goroutine only works on a stored download that is not finished: what has
\* been answered as completed or failed is never written again.  (service.go:69-105)
THEOREM WorkersOwnLiveRows == Spec => []WorkerOwnsLiveRow
<1>1. IInv => WorkerOwnsLiveRow
  BY IInvIsConjunction
<1> QED BY <1>1, Invariance, PTL

\* An accepted download stays registered in the channel it was posted to.
\* (handler.go:92-98, service.go:58-71)
THEOREM AcceptedStaysRegistered == Spec => []AcceptedIsRegistered
<1>1. IInv => AcceptedIsRegistered
  BY IInvIsConjunction
<1> QED BY <1>1, Invariance, PTL

\* The POST and its row agree at every stage, under any faults.  (service.go:52-71)
THEOREM RequestsMatchRows == Spec => []RequestMatchesRow
<1>1. IInv => RequestMatchesRow
  BY IInvIsConjunction
<1> QED BY <1>1, Invariance, PTL

\* Run's locals are never behind the row they are written to, whichever updates
\* are lost.  (worker.go:76-121)
THEOREM RunsMatchRows == Spec => []RunMatchesRow
<1>1. IInv => RunMatchesRow
  BY IInvIsConjunction
<1> QED BY <1>1, Invariance, PTL

-----------------------------------------------------------------------------
(* The backend implements module Lifecycle.                                *)

\* The rank rises along everything a worker may report of an active download.
LEMMA RankRises ==
  ASSUME NEW s \in Active, NEW t \in {"downloading", "converting", "completed", "error"},
         s # t, s = "converting" => t # "downloading"
  PROVE  LC!Rank[s] < LC!Rank[t]
<1>1. /\ LC!Rank["pending"] = 1 /\ LC!Rank["downloading"] = 2 /\ LC!Rank["converting"] = 3
      /\ LC!Rank["completed"] = 4 /\ LC!Rank["error"] = 4
  BY DEF LC!Rank
<1> QED BY <1>1 DEF Active

\* Storing a report is a step of the abstract download, or none.
LEMMA StoreRefines ==
  ASSUME TypeOK, NEW d \in Ids, NEW u \in UpdateParams, Store(d, u),
         u.status \in {"downloading", "converting", "completed", "error"},
         rows[d] # Null => /\ rows[d].status \in Active
                           /\ rows[d].status = "converting" => u.status # "downloading"
  PROVE  [LC!Next]_lifecycle
<1>1. /\ RowsTypeOK'
      /\ \A e \in Ids \ {d} : rows'[e] = rows[e]
      /\ \/ rows'[d] = rows[d]
         \/ /\ rows[d] # Null
            /\ rows'[d] # Null
            /\ rows'[d].status = u.status
  BY StoreEffect DEF TypeOK
<1>2. CASE \/ rows'[d] = rows[d]
           \/ rows[d] # Null /\ rows'[d] # Null /\ rows'[d].status = rows[d].status
  BY <1>1, <1>2 DEF lifecycle
<1>3. CASE /\ rows[d] # Null /\ rows'[d] # Null
           /\ rows'[d].status = u.status /\ u.status # rows[d].status
  <2>1. lifecycle[d] = rows[d].status
    BY <1>3 DEF lifecycle
  <2>2. lifecycle' = [lifecycle EXCEPT ![d] = u.status]
    BY <1>1, <1>3 DEF lifecycle
  <2>3. lifecycle[d] # "absent" /\ LC!Rank[lifecycle[d]] < LC!Rank[u.status]
    BY <1>3, <2>1, RankRises DEF Active
  <2> QED BY <2>2, <2>3 DEF LC!Next, LC!Report
<1> QED BY <1>1, <1>2, <1>3

\* Inserting a row registers the abstract download.
LEMMA InsertRefines ==
  ASSUME TypeOK, NEW d \in Ids, NEW secret \in Secrets, CreateDownload(d, secret), rows[d] = Null
  PROVE  LC!Next
<1>1. /\ \A e \in Ids \ {d} : rows'[e] = rows[e]
      /\ rows'[d] # Null /\ rows'[d].status = "pending"
  BY InsertEffect DEF TypeOK
<1>2. lifecycle[d] = "absent"
  BY DEF lifecycle
<1>3. lifecycle' = [lifecycle EXCEPT ![d] = "pending"]
  BY <1>1 DEF lifecycle
<1> QED BY <1>2, <1>3 DEF LC!Next, LC!Register

\* One step per action that writes to the table.
LEMMA RefineStep == IInv /\ [Next]_vars => [LC!Next]_lifecycle
<1> SUFFICES ASSUME IInv, [Next]_vars PROVE [LC!Next]_lifecycle
  OBVIOUS
<1>T. TypeOK
  BY DEF IInv
<1>C. ASSUME NEW d \in Ids PROVE Consistent(rows[d], run[d], ytdlp[d], request[d])
  BY DEF IInv
<1>U. ASSUME UNCHANGED rows PROVE [LC!Next]_lifecycle
  BY <1>U DEF lifecycle
<1>W. ASSUME NEW d \in Ids, run[d].pc \in {"spawned", "scanning"}
      PROVE  /\ rows[d].status \in Active
             /\ run[d].status = "downloading" => rows[d].status # "converting"
  BY <1>C, <1>W DEF Consistent
<1>1. ASSUME NEW d \in Ids, InsertRow(d) \/ InsertFails(d)
      PROVE  [LC!Next]_lifecycle
  <2>1. request[d].stage = "inserting"
    BY <1>1 DEF InsertRow, InsertFails, Proceed, Answer
  <2>2. rows[d] = Null /\ request[d].secret \in Secrets
    BY <1>C, <2>1, ChannelAssumption DEF Consistent
  <2>3. UNCHANGED rows \/ CreateDownload(d, request[d].secret)
    BY <1>1 DEF InsertRow, InsertFails
  <2> QED BY <1>T, <1>U, <2>2, <2>3, InsertRefines
<1>2. ASSUME NEW d \in Ids, NEW text \in Failures, StoreError(d, text),
             run[d].pc \in {"spawned", "scanning"}
      PROVE  [LC!Next]_lifecycle
  <2>1. ErrorParams(text) \in UpdateParams /\ ErrorParams(text).status = "error"
    BY ErrorParamsType DEF ErrorParams
  <2> QED BY <1>2, <1>T, <1>W, <2>1, StoreRefines DEF StoreError
<1>3. ASSUME NEW d \in Ids, NEW u \in Update, Callback(d, u), run[d].pc = "scanning",
             u.status \in {"downloading", "converting", "completed"},
             u.status = "downloading" => run[d].status = "downloading"
      PROVE  [LC!Next]_lifecycle
  <2>1. CallbackParams(u) \in UpdateParams /\ CallbackParams(u).status = u.status
    BY CallbackParamsType DEF CallbackParams
  <2> QED BY <1>3, <1>T, <1>W, <2>1, StoreRefines DEF Callback
<1>4. ASSUME NEW d \in Ids, NEW pct \in Percentages, ProgressLine(d, pct)
      PROVE  [LC!Next]_lifecycle
  <2>1. run[d] \in RunState /\ run[d].status \in {"downloading", "converting"}
    BY <1>T DEF TypeOK, WorkerTypeOK, RunState
  <2>2. Callback(d, ProgressUpdate(run[d], pct)) /\ run[d].pc = "scanning"
    BY <1>4 DEF ProgressLine, ReadProgress
  <2> QED BY <1>3, <2>1, <2>2, ProgressUpdateFields, PercentAssumption
<1>5. ASSUME NEW d \in Ids, NEW filename \in Filenames, ExtractAudioLine(d, filename)
      PROVE  [LC!Next]_lifecycle
  <2>1. run'[d] \in RunState /\ run'[d].status = "converting"
    BY <1>5, <1>T DEF ExtractAudioLine, ReadExtractAudio, TypeOK, WorkerTypeOK, RunState, GoText
  <2>2. Callback(d, ProgressUpdate(run'[d], 99)) /\ run[d].pc = "scanning"
    BY <1>5 DEF ExtractAudioLine, ReadExtractAudio
  <2> QED BY <1>3, <2>1, <2>2, ProgressUpdateFields
<1>6. ASSUME NEW d \in Ids, Completes(d)
      PROVE  [LC!Next]_lifecycle
  <2>1. run[d] \in RunState
    BY <1>T DEF TypeOK, WorkerTypeOK
  <2>2. Callback(d, CompletedUpdate(run[d])) /\ run[d].pc = "scanning"
    BY <1>6 DEF Completes, WaitReturns
  <2> QED BY <1>3, <2>1, <2>2, CompletedUpdateFields
<1>7. ASSUME NEW d \in Ids, LaunchFails(d) \/ Errs(d)
      PROVE  [LC!Next]_lifecycle
  <2>1. /\ run[d].pc \in {"spawned", "scanning"}
        /\ StoreError(d, "start yt-dlp") \/ StoreError(d, "yt-dlp exited with error")
    BY <1>7 DEF LaunchFails, StartFails, Errs, WaitReturns
  <2> QED BY <1>2, <2>1 DEF Failures
<1>8. ASSUME NEW d \in Ids,
             \/ ReceivePost(d) \/ StartGoroutine(d) \/ Respond(d) \/ LaunchYtdlp(d)
             \/ (\E title \in Titles : DestinationLine(d, title)) \/ YtdlpExits(d)
      PROVE  [LC!Next]_lifecycle
  BY <1>8, <1>U DEF ReceivePost, RefusePost, AcceptPost, StartGoroutine, Respond, LaunchYtdlp,
               DestinationLine, YtdlpExits
<1>9. ASSUME Crash \/ Restart \/ UNCHANGED vars
      PROVE  [LC!Next]_lifecycle
  BY <1>9, <1>U DEF Crash, Restart, vars
<1> QED
  BY <1>1, <1>4, <1>5, <1>6, <1>7, <1>8, <1>9 DEF Next, HandlePost, StartOrWait, ReadLine

\* Whatever interleaving, crash or failed write happens, every download is
\* registered once, only advances, ends once and never disappears: the table
\* behaves as module Lifecycle.  (service.go:52-105, main.go:56-62)
THEOREM ImplementsLifecycle == Spec => RefinesLifecycle
<1>1. Init => LC!Init
  BY DEF Init, RowsInit, lifecycle, LC!Init
<1>2. IInv /\ [Next]_vars => [LC!Next]_lifecycle
  BY RefineStep
<1> QED BY <1>1, <1>2, Invariance, PTL DEF Spec, RefinesLifecycle, LC!Spec

-----------------------------------------------------------------------------
(* Without faults nothing is left unattended.                              *)

\* The invariant behind UnfinishedIsAttended, for one download.
Attended(r, w, q) ==
  r # Null /\ r.status \in Active =>
    w.pc \in {"spawned", "scanning"} \/ q.stage = "inserted"

AllAttended == \A d \in Ids : Attended(rows[d], run[d], request[d])

\* A statement that does not fail stores the status it is given.
LEMMA StoreSucceeds ==
  ASSUME Faults = {}, TypeOK, NEW d \in Ids, NEW u \in UpdateParams, Store(d, u), rows[d] # Null
  PROVE  rows'[d].status = u.status
<1>1. UpdateDownloadStatus(d, u)
  BY DEF Store
<1>2. rows'[d] = [channel |-> rows[d].channel, title |-> u.title, status |-> u.status,
                  progress |-> u.progress, filename |-> u.filename,
                  error |-> u.error, completedAt |-> u.completedAt]
  BY <1>1 DEF UpdateDownloadStatus, TypeOK, RowsTypeOK
<1> QED BY <1>2

\* Run returned: its last update has ended the download.
LEMMA LastUpdateEnds ==
  ASSUME Faults = {}, IInv, NEW d \in Ids, Working(d),
         StoreError(d, "start yt-dlp") \/ StoreError(d, "yt-dlp exited with error")
         \/ Callback(d, CompletedUpdate(run[d]))
  PROVE  /\ rows'[d].status \notin Active
         /\ \A e \in Ids \ {d} : rows'[e] = rows[e]
<1>1. TypeOK /\ rows[d] # Null /\ run[d] \in RunState
  BY DEF IInv, Consistent, Working, TypeOK, WorkerTypeOK
<1>2. ASSUME NEW text \in Failures, StoreError(d, text)
      PROVE  rows'[d].status = "error" /\ \A e \in Ids \ {d} : rows'[e] = rows[e]
  <2>1. ErrorParams(text) \in UpdateParams /\ ErrorParams(text).status = "error"
    BY ErrorParamsType DEF ErrorParams
  <2> QED BY <1>1, <1>2, <2>1, StoreSucceeds, StoreEffect DEF StoreError, TypeOK
<1>3. ASSUME Callback(d, CompletedUpdate(run[d]))
      PROVE  rows'[d].status = "completed" /\ \A e \in Ids \ {d} : rows'[e] = rows[e]
  <2> DEFINE u == CompletedUpdate(run[d])
  <2>1. u \in Update /\ u.status = "completed"
    BY <1>1, CompletedUpdateFields
  <2>2. CallbackParams(u) \in UpdateParams /\ CallbackParams(u).status = u.status
    BY <2>1, CallbackParamsType DEF CallbackParams
  <2> QED BY <1>1, <1>3, <2>1, <2>2, StoreSucceeds, StoreEffect DEF Callback, TypeOK
<1> QED BY <1>2, <1>3 DEF Failures, Active

\* Reading a line writes to the row of its own download at most.
LEMMA RowsFrame ==
  ASSUME TypeOK, NEW d \in Ids, ReadLine(d)
  PROVE  \A e \in Ids \ {d} : rows'[e] = rows[e]
<1>1. ASSUME NEW u, Store(d, u)
      PROVE  \A e \in Ids \ {d} : rows'[e] = rows[e]
  BY <1>1 DEF Store, UpdateDownloadStatus, TypeOK, RowsTypeOK
<1> QED BY <1>1 DEF ReadLine, ProgressLine, DestinationLine, ExtractAudioLine, Callback

\* One step per action that ends a stage, a goroutine or a download.
LEMMA AttendedStep ==
  ASSUME Faults = {}, IInv, AllAttended, [Next]_vars
  PROVE  AllAttended'
<1>T. TypeOK
  BY DEF IInv
<1>1. ASSUME NEW d \in Ids, InsertRow(d)
      PROVE  AllAttended'
  <2>1. Proceed(d, "inserting", "inserted") /\ UNCHANGED run
    BY <1>1 DEF InsertRow
  <2>2. /\ \A e \in Ids \ {d} : request'[e] = request[e]
        /\ request'[d].stage = "inserted" /\ request[d].stage = "inserting"
    BY <2>1, <1>T, ProceedEffect DEF Stages
  <2>3. request[d].secret \in Secrets
    BY <2>2, ChannelAssumption DEF IInv, Consistent
  <2>4. \A e \in Ids \ {d} : rows'[e] = rows[e]
    BY <1>1, <1>T, <2>3, InsertEffect DEF InsertRow, TypeOK
  <2> QED BY <2>1, <2>2, <2>4 DEF AllAttended, Attended
<1>2. ASSUME NEW d \in Ids, InsertFails(d)
      PROVE  AllAttended'
  BY <1>2 DEF InsertFails
<1>3. ASSUME NEW d \in Ids, StartGoroutine(d)
      PROVE  AllAttended'
  <2>1. Proceed(d, "inserted", "responding") /\ UNCHANGED rows
    BY <1>3 DEF StartGoroutine
  <2>2. \A e \in Ids \ {d} : request'[e] = request[e]
    BY <2>1, <1>T, ProceedEffect DEF Stages
  <2>3. run'[d] = FreshRun("spawned") /\ \A e \in Ids \ {d} : run'[e] = run[e]
    BY <1>3, <1>T DEF StartGoroutine, Spawn, TypeOK, WorkerTypeOK
  <2>4. run'[d].pc = "spawned"
    BY <2>3, FreshRunFields
  <2> QED BY <2>1, <2>2, <2>3, <2>4 DEF AllAttended, Attended
<1>4. ASSUME NEW d \in Ids, Respond(d)
      PROVE  AllAttended'
  <2>1. Answer(d, "responding", "accepted") /\ UNCHANGED <<rows, run>>
    BY <1>4 DEF Respond
  <2>2. request[d].stage = "responding" /\ \A e \in Ids \ {d} : request'[e] = request[e]
    BY <2>1, <1>T, AnswerEffect
  <2> QED BY <2>1, <2>2 DEF AllAttended, Attended
<1>5. ASSUME NEW d \in Ids, ReceivePost(d)
      PROVE  AllAttended'
  <2>1. /\ UNCHANGED <<rows, run>> /\ request[d].stage = "none"
        /\ \A e \in Ids \ {d} : request'[e] = request[e]
    BY <1>5, <1>T DEF ReceivePost, RefusePost, AcceptPost, TypeOK
  <2> QED BY <2>1 DEF AllAttended, Attended
<1>6. ASSUME NEW d \in Ids, LaunchFails(d) \/ Errs(d) \/ Completes(d)
      PROVE  AllAttended'
  <2>1. UNCHANGED request /\ Working(d)
    BY <1>6 DEF LaunchFails, StartFails, Errs, Completes, WaitReturns, Working
  <2>2. \A e \in Ids \ {d} : run'[e] = run[e]
    BY <1>6, <1>T DEF LaunchFails, StartFails, Errs, Completes, WaitReturns, TypeOK, WorkerTypeOK
  <2>3. rows'[d].status \notin Active /\ \A e \in Ids \ {d} : rows'[e] = rows[e]
    BY <1>6, <2>1, LastUpdateEnds DEF LaunchFails, Errs, Completes
  <2> QED BY <2>1, <2>2, <2>3 DEF AllAttended, Attended
<1>7. ASSUME NEW d \in Ids, LaunchYtdlp(d) \/ ReadLine(d)
      PROVE  AllAttended'
  <2>1. UNCHANGED request /\ run'[d].pc = "scanning" /\ \A e \in Ids \ {d} : run'[e] = run[e]
    BY <1>7, <1>T DEF LaunchYtdlp, StartProcess, ReadLine, ProgressLine, ReadProgress,
                DestinationLine, ReadDestination, ExtractAudioLine, ReadExtractAudio,
                TypeOK, WorkerTypeOK, RunState
  <2>2. \A e \in Ids \ {d} : rows'[e] = rows[e]
    BY <1>7, <1>T, RowsFrame DEF LaunchYtdlp
  <2> QED BY <2>1, <2>2 DEF AllAttended, Attended
<1>8. ASSUME (\E d \in Ids : YtdlpExits(d)) \/ Crash \/ Restart \/ UNCHANGED vars
      PROVE  AllAttended'
  BY <1>8 DEF YtdlpExits, ProcessExits, Crash, Restart, vars, AllAttended, Attended
<1> QED
  BY <1>1, <1>2, <1>3, <1>4, <1>5, <1>6, <1>7, <1>8 DEF Next, HandlePost, StartOrWait

\* As long as nothing fails around the code, every unfinished download has its
\* goroutine, or the POST that is about to start it.  (service.go:52-105)
THEOREM NothingUnattended == Faults = {} => (Spec => []UnfinishedIsAttended)
<1> SUFFICES ASSUME Faults = {} PROVE Spec => []UnfinishedIsAttended
  OBVIOUS
<1>1. Init => AllAttended
  BY DEF Init, RowsInit, AllAttended, Attended
<1>2. IInv /\ AllAttended /\ [Next]_vars => AllAttended'
  BY AttendedStep
<1>3. AllAttended => UnfinishedIsAttended
  BY DEF AllAttended, Attended, UnfinishedIsAttended, Working
<1> QED BY <1>1, <1>2, <1>3, Invariance, PTL DEF Spec

=============================================================================
