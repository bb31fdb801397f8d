----------------------------- MODULE Lifecycle -----------------------------
(***************************************************************************)
(* What the backend promises of every download, whoever looks at the table *)
(* and whatever happens to the process: it is registered once, as pending; *)
(* it advances but never goes back; once completed or failed it stays so;  *)
(* and it never disappears.  Module Service implements this, and module    *)
(* ChannelPage relies on it as its view of the server.                     *)
(***************************************************************************)
EXTENDS Naturals

CONSTANT Ids

VARIABLE status   \* "absent" until the download is registered

Rank == [s \in {"absent", "pending", "downloading", "converting", "completed", "error"} |->
           CASE s = "absent"      -> 0
             [] s = "pending"     -> 1
             [] s = "downloading" -> 2
             [] s = "converting"  -> 3
             [] s \in {"completed", "error"} -> 4]

Init == status = [d \in Ids |-> "absent"]

Register(d) ==
  /\ status[d] = "absent"
  /\ status' = [status EXCEPT ![d] = "pending"]

\* Progress may skip a status, but what is reported moves forward.
Report(d) ==
  \E s \in {"downloading", "converting", "completed", "error"} :
    /\ status[d] # "absent"
    /\ Rank[status[d]] < Rank[s]
    /\ status' = [status EXCEPT ![d] = s]

Next == \E d \in Ids : Register(d) \/ Report(d)

Spec == Init /\ [][Next]_status

=============================================================================
