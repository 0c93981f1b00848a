------------------------------ MODULE ChatClaims ------------------------------
(***************************************************************************)
(* What the repository says of the record of a chat turn, where the code   *)
(* does something else.                                                    *)
(***************************************************************************)
EXTENDS ChatTurn

\* models/chat_turn.py: a chat turn is the "Persistent lifecycle record for a
\* single chat turn."  So the record of a turn whose answer the client was
\* given, and whose stream is over, says completed.
\* The code: complete_turn is flushed, and nothing commits it before the
\* session is closed; the record says started for ever.
AnsweredIsCompleted ==
    \A r \in Requests :
        pc[r] = "ended" /\ turn[r] = r /\ Assistant(r) \in told => row[r].status = "completed"
===============================================================================
