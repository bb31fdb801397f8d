--------------------------- MODULE DownloadTypes ---------------------------
(***************************************************************************)
(* The vocabulary shared by the modules of the download backend: the       *)
(* identities, texts and numbers a download is made of, and the statuses   *)
(* of the API's DownloadStatus enum.                                       *)
(***************************************************************************)
EXTENDS Naturals

CONSTANTS
  Ids,          \* the uuids the service draws, one per accepted POST
  Secrets,      \* the {secret} path segments clients use
  Channels,     \* the secrets config.yaml defines
  Titles,       \* non-empty titles parsed from "[download] Destination:"
  Filenames,    \* non-empty names parsed from "[ExtractAudio] Destination:"
  Percentages,  \* integer parts of the percentages yt-dlp prints
  Null          \* SQL NULL; also "there is no such row"

Active   == {"pending", "downloading", "converting"}
Terminal == {"completed", "error"}
Statuses == Active \union Terminal

\* What runDownload stores as the error text: which of worker.Run's returns failed.
Failures == {"start yt-dlp", "yt-dlp exited with error"}

\* A text in a Go variable ("" until it is known) and in a nullable column.
GoText(S)  == S \union {""}
SqlText(S) == S \union {Null}

\* Null is none of the values it is used beside, and no parsed text is empty.
ASSUME NullAssumption ==
  /\ Null \notin Titles \union Filenames \union Failures
  /\ "" \notin Titles \union Filenames

\* The configured secrets are among those clients may use.
ASSUME ChannelAssumption == Channels \subseteq Secrets

\* yt-dlp reports percentages, so int32(progress) never narrows.
ASSUME PercentAssumption == Percentages \subseteq 0..100

\* Mutant: the empty string is stored as a text.
nullStringVerbatim(s) == s

\* service.nullString: the empty Go string is stored as NULL.
nullString(s) == IF s = "" THEN Null ELSE s

\* Mutant: failures get no timestamp.
completedAtOnSuccess(status) == status = "completed"

\* service.completedAt: only the two terminal statuses get a timestamp.
completedAt(status) == status \in {"completed", "error"}

=============================================================================
