--------------------------- MODULE MCClientTraffic ---------------------------
(* ClientTraffic for TLC.  In the run about calls k2 is a service and the  *)
(* others are Normal; in the run about filters every list is set and unset.*)
(* Connections are interchangeable there: its property is an invariant.    *)
EXTENDS ClientTraffic, TLC

CONSTANTS k2, i1

RolesOfCalls == [k \in Clients |-> IF k = k2 THEN {"Service"} ELSE {"Normal"}]

RolesOfFilters == [k \in Clients |-> {"Normal"}]

NoRoles == [k \in Clients |-> {}]

NoNames == [k \in Clients |-> {}]

NoKickouts == [k \in Clients |-> {}]

NoCommands == [k \in Clients |-> {}]

Forwards == [NoFilter EXCEPT !.fwd_targets = {i1}]
Subscriptions == [NoFilter EXCEPT !.subs_sources = {i1}, !.subs_messages = {1}]
Rejections == [NoFilter EXCEPT !.rej_sources = {i1}, !.rej_messages = {1}]

EveryCommand ==
    [k \in Clients |->
        [cmd : {"FWD", "UNFWD"}, lists : {Forwards}]
        \cup [cmd : {"SUB", "UNSUB"}, lists : {Subscriptions}]
        \cup [cmd : {"REJECT", "UNREJECT"}, lists : {Rejections}]]

ConnSymmetry == Permutations(Conns)
=============================================================================
