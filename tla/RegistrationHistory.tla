------------------------- MODULE RegistrationHistory -------------------------
(***************************************************************************)
(* SwitchClient with a history variable, for a property of each REG: the   *)
(* context of a client does not tell whether a REG was answered, because   *)
(* is_registered and register_errmsg stay as an earlier connection left    *)
(* them.                                                                   *)
(***************************************************************************)
EXTENDS SwitchClient

VARIABLE
    unanswered  \* a REG was sent on the client's connection, no answer read

historyVars == <<systemVars, unanswered>>

HistoryInit ==
    /\ ClientInit
    /\ unanswered = [k \in Clients |-> FALSE]

(* The next result that a client reads answers a REG.                      *)
AnswersREG(k) == Head(to_client[peer[k]]).cmd = "REG"

HistoryNext ==
    \/ \E k \in Clients :
         \/ /\ \E c \in Conns : Connect(k, c)
            /\ unanswered' = [unanswered EXCEPT ![k] = TRUE]
         \/ /\ ConnectionLost(k)
            /\ unanswered' = [unanswered EXCEPT ![k] = FALSE]
         \/ /\ AppRegister(k)
            /\ unanswered' = [unanswered EXCEPT ![k] = Connected(k)]
         \/ /\ AppKickout(k)
            /\ UNCHANGED unanswered
         \/ /\ HandleCommandResult(k)
            /\ unanswered' = [unanswered EXCEPT ![k] = @ /\ ~AnswersREG(k)]
    \/ /\ \E c \in Conns : HandleCommand(c) \/ ServerClosed(c)
       /\ UNCHANGED unanswered

HistorySpec == HistoryInit /\ [][HistoryNext]_historyVars

FairHistorySpec == HistorySpec /\ ClientFairness

(* Every REG that a client sends, as soon as it is connected (RegisterSelf)*)
(* or later, on its first connection or after a reconnection, comes to an  *)
(* end: the client reads that it is registered or why not, or loses the    *)
(* connection.  Nothing sends that REG again.                              *)
RegistrationSettles == \A k \in Clients : unanswered[k] ~> ~unanswered[k]
=============================================================================
