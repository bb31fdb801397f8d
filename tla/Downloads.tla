----------------------------- MODULE Downloads -----------------------------
(***************************************************************************)
(* Package db: the SQLite table "downloads" and the statements sqlc        *)
(* generated for it.  A row that is not in the table is Null.  Every       *)
(* statement is one implicit transaction, so each is one atomic action.    *)
(* Timestamps are abstracted to whether they are set; created_at and the   *)
(* url play no part in the life of a row.                                  *)
(***************************************************************************)
EXTENDS DownloadTypes

VARIABLE rows   \* the table: id -> row, or Null

Row == [channel     : Secrets,
        title       : SqlText(Titles),
        status      : Statuses,
        progress    : 0..100,
        filename    : SqlText(Filenames),
        error       : SqlText(Failures),
        completedAt : BOOLEAN]

\* A record is never the missing row.
ASSUME NoRowAssumption == Null \notin Row

RowsTypeOK == rows \in [Ids -> Row \union {Null}]

\* main.go creates the table empty on first start; later starts keep it.
RowsInit == rows = [d \in Ids |-> Null]

\* INSERT INTO downloads ... VALUES (:id, :channel, :url, 'pending', 0)
CreateDownload(d, secret) ==
  rows' = [rows EXCEPT ![d] =
             [channel |-> secret, title |-> Null, status |-> "pending",
              progress |-> 0, filename |-> Null, error |-> Null,
              completedAt |-> FALSE]]

\* UPDATE downloads SET ... WHERE id = :id: every column but the key, the
\* channel, the url and created_at is overwritten, with NULL where the
\* parameter is NULL.
UpdateDownloadStatus(d, u) ==
  rows' = [rows EXCEPT ![d] =
             IF @ = Null THEN Null   \* no row matches: nothing is updated
             ELSE [channel |-> @.channel, title |-> u.title, status |-> u.status,
                   progress |-> u.progress, filename |-> u.filename,
                   error |-> u.error, completedAt |-> u.completedAt]]

=============================================================================
